SPECIFICATION Spec
CONSTANTS
  MaxPayload = 6
  SeqSpace = 4
  FirstSeq = 1
  SrInterval = 2
  Lengths = {4}
  MaxFrames = 1
  MaxClock = 2
INVARIANT StreamFramed
CHECK_DEADLOCK FALSE
