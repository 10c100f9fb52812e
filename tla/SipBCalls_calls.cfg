SPECIFICATION Spec
CONSTANTS
  Workers = {w1}
  Tasks = {c1, c2}
  Idle = Idle
  MaxInits = 2
  SessionNames = {Play, Talk}
  MaxPort = 2
  MaxEvents = 2
  MaxAcks = 2
INVARIANTS
  TypeOK
  OneSessionPerType
  MediaFollowsSession
  NoStaleSession
PROPERTIES
  KeepsCallPromise
  EndedIsCleared
  BrokenIsCleared
CHECK_DEADLOCK FALSE
