\* An expired access token while serving, with the refresh token in memory.
CONSTANTS
  Absent = Absent
  Blank = Blank
  Cut = Cut
  MaxPairs = 1
  MaxInbox = 0
SPECIFICATION FairSpec
PROPERTY RecoversLater
CHECK_DEADLOCK FALSE
