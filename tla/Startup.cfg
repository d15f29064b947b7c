CONSTANTS
  Absent = Absent
  Blank = Blank
  Cut = Cut
  MaxPairs = 3
  MaxInbox = 1
SPECIFICATION FairSpec
INVARIANTS TypeOK NextStartHoldsPair OneRefreshPerStart ServesWhatWasLoaded
PROPERTIES NeverReplacesLivePair OnlyRefusalStalls
CHECK_DEADLOCK FALSE
