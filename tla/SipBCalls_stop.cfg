SPECIFICATION Spec
CONSTANTS
  Workers = {w1}
  Tasks = {c1, c2}
  Idle = Idle
  MaxInits = 1
  SessionNames = {Play}
  MaxPort = 1
  MaxEvents = 1
  MaxAcks = 1
SYMMETRY Symmetry
INVARIANT StopReleasesSessions
CHECK_DEADLOCK FALSE
