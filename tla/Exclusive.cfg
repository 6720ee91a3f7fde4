CONSTANTS
  Workers = {w1, w2, w3}
  MaxCalls = 5
  None = None
SPECIFICATION Spec
INVARIANTS
  OneAtATime
  NoMoreRunsThanCalls
CHECK_DEADLOCK FALSE
