CONSTANTS
  Workers = {w1, w2, w3}
  Requests = {r1, r2}
  Wake = Wake
  None = None
SPECIFICATION FairSpec
INVARIANTS
  TypeOK
  Conserved
PROPERTIES
  JoinReturns
  Served
  ImplementsWorkBag
CHECK_DEADLOCK FALSE
