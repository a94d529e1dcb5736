CONSTANTS
  Agent = {g1, g2}
  NoAgent = NoAgent
  MaxActions = 1
  MaxCalls = 1
  MaxIterations = 2
  ArrayLimit = 3
SPECIFICATION FairSpec
INVARIANTS
  TypeOK
  NoUnconfirmedRepeat
  WithinLimit
  OneHandlerInRun
PROPERTY ActiveReleased
