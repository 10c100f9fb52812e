SPECIFICATION Spec
CONSTANTS
  Blocks = {b1, b2}
  MaxBlocks = 2
  MaxPackets = 2
  Ips = {ip1, ip2}
  LocalPorts = {1, 2}
  MaxLines = 4
INVARIANTS
  TypeOK
  TrackPreferred
  RefusedOnlyUnknown
  AnswerDescribesSession
  LastReportKept
CHECK_DEADLOCK FALSE
