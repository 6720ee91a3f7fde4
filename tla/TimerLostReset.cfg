CONSTANTS
  once = once
  again = again
  park = park
  None = None
  Timers = {park}
  Kind <- MCKind
  MaxInterval = 1
  MaxLate = 1
  Ops <- StartAndReset
  MaxOps = 2
  Prompt = TRUE
SPECIFICATION FairSpec
PROPERTY ResetAnswered
