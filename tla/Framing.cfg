CONSTANTS
  PrefixLen = 2
  MaxSize = 2
  MaxFrames = 3
SPECIFICATION FairSpec
INVARIANTS TypeOK IntactUnlessTorn StartupIntact
PROPERTIES ImplementsMessageStream EveryMessageReturned
CHECK_DEADLOCK FALSE
