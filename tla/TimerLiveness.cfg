CONSTANTS
  once = once
  again = again
  park = park
  None = None
  Timers = {once, again}
  Kind <- MCKind
  MaxInterval = 2
  MaxLate = 1
  Ops <- NoPause
  MaxOps = 4
  Prompt = TRUE
SPECIFICATION FairSpec
PROPERTIES
  StopEnds
  Answered
