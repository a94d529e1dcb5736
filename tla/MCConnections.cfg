CONSTANTS
  Socket = {s1, s2, s3}
  NoSocket = NoSocket
  Limits = {0}
  MaxPending = 1
  MaxSend = 2
  MaxCalls = 3
  MaxResets = 1
  Entry = {e1, e2}
  NoEntry = NoEntry
  Proc = {p1, p2}
  NoProc = NoProc
  MaxRequests = 3
  MaxReconnects = 1
SPECIFICATION Spec
CHECK_DEADLOCK FALSE
INVARIANTS
  TypeOK
  ConnectionWatched
  SentInOrder
  AnsweredByItsProcess
  ServerWatched
PROPERTIES
  Recovers
  ReportCorrected
