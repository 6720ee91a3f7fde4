CONSTANTS
  Requests = {r1, r2}
  MaxError = 6
  MaxAttempts = 5
  Following = {}
  MaxHops = 2
  None = None
SPECIFICATION Spec
INVARIANT DroppedIsTold
CHECK_DEADLOCK FALSE
