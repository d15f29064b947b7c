\* An order, a cancel and a close call, for a channel of one slot, under fairness.
CONSTANTS
  PlaceCall = {a}
  CancelCall = {c}
  CloseCall = {x}
  FullClose = {x}
  OrderId = {1, 2, 3}
  PositionId = {p}
  ChannelCapacity = 1
  Absent = Absent
SPECIFICATION MCSpec
INVARIANTS TypeOK NeverEchoesPreexisting RowsAreOrdersOnce
  AnswerTellsWhetherSent CommandOwedToWaiter
PROPERTIES ImplementsRequestOnce EveryCallAnswered
CHECK_DEADLOCK FALSE
