CONSTANTS
  Agent = {a1, a2}
  PublicTopic = {t1}
  MaxMessages = 0
  MaxSubscriptions = 2
  MaxDeadLetters = 1
SPECIFICATION Spec
CHECK_DEADLOCK FALSE
INVARIANT RemovedAgentsSilent
