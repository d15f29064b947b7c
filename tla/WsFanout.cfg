CONSTANTS
  Client = {c1, c2}
  PositionId = {p}
  OrderId = {o}
  Capacity = 2
  MaxFrames = 5
  Absent = Absent
SPECIFICATION FairSpec
INVARIANTS TypeOK OnlyMissedRowsAreStale ViewOnlyAdvances
PROPERTY ExecutionsFinish
CHECK_DEADLOCK FALSE
