SPECIFICATION Spec
CONSTANTS
  Workers = {w1}
  Tasks = {t1, t2}
  Idle = Idle
  MaxInits = 1
  MaxEvents = 1
  MaxCompletions = 1
SYMMETRY Symmetry
INVARIANT NotifyOncePerSnapshot
CHECK_DEADLOCK FALSE
