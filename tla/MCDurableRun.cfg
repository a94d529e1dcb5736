CONSTANTS
  Agent = {g1, g2, g3}
  MaxActions = 3
  MaxCalls = 2
  MaxIterations = 2
  ArrayLimit = 3
SPECIFICATION Spec
SYMMETRY Invocations
INVARIANTS
  TypeOK
  NoUnconfirmedRepeat
  JournalKnowsEffects
  JournalHasNoDuplicates
  EndedRunsHaveNothingPending
PROPERTIES
  ObservationsKept
  ImplementsPromise
