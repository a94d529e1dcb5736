CONSTANTS
  Agent = {g1, g2, g3}
  MaxActions = 3
  MaxCalls = 2
  MaxIterations = 2
  ArrayLimit = 1
SPECIFICATION Spec
SYMMETRY Invocations
INVARIANT JournalKnowsEffects
