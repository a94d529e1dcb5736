CONSTANTS
  Device = {d1}
  NoDevice = NoDevice
  MaxSockets = 2
  Command = {c1}
  MaxPairs = 1
  MaxMisses = 2
SPECIFICATION FairSpec
CHECK_DEADLOCK FALSE
PROPERTY ApprovalsSettle
