CONSTANTS
  PlaceCall = {a}
  CancelCall = {}
  CloseCall = {}
  FullClose = {}
  OrderId = {o1, o2}
  PositionId = {}
  ChannelCapacity = 1
  Absent = Absent
SPECIFICATION Spec

PROPERTY PendingMeansUnseen
CHECK_DEADLOCK FALSE
