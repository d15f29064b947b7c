CONSTANTS
  PlaceCall = {a, b}
  CancelCall = {}
  CloseCall = {}
  FullClose = {}
  OrderId = {o1, o2}
  PositionId = {}
  ChannelCapacity = 1
  Absent = Absent
SPECIFICATION Spec

INVARIANT EchoIsOwnOrder
CHECK_DEADLOCK FALSE
