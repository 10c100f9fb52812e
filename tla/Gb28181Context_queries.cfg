SPECIFICATION Spec
CONSTANTS
  Queries = {q1, q2, q3}
  Handled = {q1, q2}
  MaxInits = 2
  MaxEvents = 2
  MaxCompletions = 2
INVARIANTS
  TypeOK
  OnlyLateCompletionsFault
  RespondedAfterAcknowledged
PROPERTIES
  StopReturns
  QueryAcknowledged
CHECK_DEADLOCK FALSE
