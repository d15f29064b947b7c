CONSTANTS
  PrefixLen = 2
  MaxSize = 2
  MaxFrames = 3
SPECIFICATION Spec
INVARIANT RecvReturnsNextMessage
CHECK_DEADLOCK FALSE
