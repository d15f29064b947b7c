\* Two orders and two positions, under fairness.
CONSTANTS
  OrderId = {o1, o2}
  PositionId = {p1, p2}
  MaxVolume = 2
  MaxMessages = 2
  Absent = Absent
  TradesCapacity = 1
SPECIFICATION FairSpec
INVARIANTS TypeOK TablesMirrorBook TradesAreNewestClosings
PROPERTIES ImplementsMirroredBook FramesTellTables EveryMessageTakenIn
CHECK_DEADLOCK FALSE
