SPECIFICATION Spec
CONSTANTS
  Workers = {w1, w2}
  Tasks = {t1}
  Idle = Idle
  MaxInits = 2
  MaxEvents = 1
  MaxCompletions = 2
INVARIANTS
  TypeOK
  EventOwnership
  AnsweredOnce
  EventThreadHasContext
PROPERTIES
  KeepsRequestPromise
  PostedIsReleased
  StopReturns
CHECK_DEADLOCK FALSE
