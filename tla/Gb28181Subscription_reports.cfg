SPECIFICATION Spec
CONSTANTS
  CmdTypes = {position, catalog}
  MobilePosition = position
  Expirations = {0, 1, 4}
  Intervals = {0, 3}
  Epochs = {0, 3}
  MaxTime = 9
  MaxEvents = 1
INVARIANTS
  TypeOK
  ReportedInTime
PROPERTY
  NotifiedWhileGranted
CHECK_DEADLOCK FALSE
