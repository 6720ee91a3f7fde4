CONSTANTS
  once = once
  again = again
  park = park
  None = None
  Timers = {once, again, park}
  Kind <- MCKind
  MaxInterval = 1
  MaxLate = 1
  Ops <- AllOps
  MaxOps = 4
  Prompt = FALSE
SPECIFICATION Spec
INVARIANTS
  TypeOK
  NoOrphan
  AtMostTwice
  AtMostOneLateCall
PROPERTY StopIsFinal
