\* A part of a position is closed.
CONSTANTS
  OrderId = {o1}
  PositionId = {p1}
  MaxVolume = 2
  MaxMessages = 2
  Absent = Absent
  TradesCapacity = 1
SPECIFICATION Spec
INVARIANT EveryClosingDealRecorded
CHECK_DEADLOCK FALSE
