SPECIFICATION Spec
CONSTANTS
  KeepAliveInterval = 2
  Expires = 30
  TransactionTimeout = 1
  Epochs = {0}
  MaxTime = 10
  MaxStarts = 1
  MaxUnanswered = 3
  MaxEvents = 1
PROPERTY
  TimeoutAfterThree
CHECK_DEADLOCK FALSE
