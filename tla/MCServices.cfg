CONSTANTS
  Caller = {c1, c2}
  MaxRequests = 4
  MaxConcurrency = 2
  MaxHistory = 1
  SpawnerMayThrow = {"onSpawn"}
  Agent = {a1, a2}
  PublicTopic = {t1}
  MaxMessages = 3
  MaxSubscriptions = 2
  MaxDeadLetters = 1
  Run = {r1, r2}
  NoRun = NoRun
  File = {f1}
  MaxWrites = 3
  KeepRuns = 1
  Saver = {v1, v2}
  SavedRun = {1, 2, 3}
  MaxKept = 2
  MaxSaves = 4
  Model = {"m1", "m2"}
  Chain <- Models
  None = "none"
  SessionLimit = 1
  DayLimit = 2
  MaxCost = 1
  Device = {d1}
  NoDevice = NoDevice
  Command = {b1}
  MaxSockets = 3
  MaxPairs = 2
  MaxMisses = 2
  Graphs <- Workflows
  MaxAttempts = 2
  Timed = {2, 3}
  Conditional = {1, 3}
  WorkflowMayThrow = {"onStart", "when", "onStepStart", "onStepFinish", "onError", "onFinish"}
  Task = {k1, k2}
  MaxIterations = 2
  MaxRuns = 3
  Waiter = {w1, w2}
  Decision = {yes, no}
  NoDecision = NoDecision
SPECIFICATION Spec
SYMMETRY Interchangeable
CHECK_DEADLOCK FALSE
INVARIANTS
  TypeOK
  ServedInOrder
  RepliesReachRequests
  EditsAreAccepted
  ModeOfActiveRun
  RecentKept
  OverrunBounded
  ConnectedCanHear
  StepsInOrder
  TimersMatchTasks
  OneResult
PROPERTIES
  RecordsAgree
