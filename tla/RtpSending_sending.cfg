SPECIFICATION Spec
CONSTANTS
  MaxPayload = 6
  SeqSpace = 4
  FirstSeq = 1
  SrInterval = 2
  Lengths = {4, 10, 12}
  MaxFrames = 2
  MaxClock = 3
INVARIANTS
  TypeOK
  FramesReassemble
  ReportRecent
  ReportsHonest
CHECK_DEADLOCK FALSE
