CONSTANTS
  Agent = {g1, g2}
  NoAgent = NoAgent
  MaxActions = 2
  MaxCalls = 1
  MaxIterations = 2
  ArrayLimit = 3
SPECIFICATION Spec
SYMMETRY Invocations
INVARIANT JournalKnowsEffects
