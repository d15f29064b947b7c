CONSTANTS
  Client = {c1}
  PositionId = {p}
  OrderId = {o}
  Capacity = 6
  MaxFrames = 6
  Absent = Absent
SPECIFICATION Spec
INVARIANT CaughtUpShowsTables
CHECK_DEADLOCK FALSE
