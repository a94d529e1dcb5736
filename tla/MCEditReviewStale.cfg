CONSTANTS
  Run = {r1, r2}
  NoRun = NoRun
  File = {f1}
  MaxWrites = 3
  KeepRuns = 1
SPECIFICATION Spec
CHECK_DEADLOCK FALSE
INVARIANT StaleUnanswerable
