SPECIFICATION Spec
CONSTANTS
  SeqMod = 11
  MaxRecvBuffer = 4
  FirstSeq = 7
  Window = 5
  MaxSent = 10
INVARIANTS
  TypeOK
  PlayedConsecutively
  NothingReadyBuffered
  ReorderingRepaired
CHECK_DEADLOCK FALSE
