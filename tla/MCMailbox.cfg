CONSTANTS
  Agent = {a1, a2}
  MaxMessages = 3
  MaxInbox = 1
  Visibility = 0
  MaxFailures = 1
SPECIFICATION Spec
SYMMETRY Agents
INVARIANTS
  TypeOK
  NeverLost
  NoOrphans
  GivenInOrder
PROPERTY ImplementsPromise
