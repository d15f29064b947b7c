CONSTANTS
  SymbolId = {s1, s2}
  Word = {w1, w2}
  MaxListed = 2
  MaxSpots = 2
  Absent = Absent
  HistoryCapacity = 2
  MaxLimit = 2
  UsizeMax = 3
  MaxTrades = 3
SPECIFICATION Spec
SYMMETRY Symmetry
INVARIANTS TypeOK SubscribedOnceByName NoQuoteHidden RestAgreesWithTicks NoSurvivorSkipped PagesCutHistory
CHECK_DEADLOCK FALSE
