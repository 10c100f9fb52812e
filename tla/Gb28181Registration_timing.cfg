SPECIFICATION Spec
CONSTANTS
  KeepAliveInterval = 2
  Expires = 10
  TransactionTimeout = 1
  Epochs = {0, 6}
  MaxTime = 16
  MaxStarts = 2
  MaxUnanswered = 3
  MaxEvents = 1
INVARIANTS
  TypeOK
  BindingRefreshed
PROPERTY
  TimeoutAfterTwo
CHECK_DEADLOCK FALSE
