CONSTANTS
  Agent = {g1, g2}
  Answer = {yes, no}
  None = None
SPECIFICATION Spec
CHECK_DEADLOCK FALSE
PROPERTIES
  WaitersEnd
  RunEnds
  EventuallyHandled
  CallersReturn
