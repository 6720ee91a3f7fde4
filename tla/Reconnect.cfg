CONSTANTS
  MaxConns = 3
  Workers = {w1}
SPECIFICATION FairSpec
INVARIANTS
  TypeOK
  ConnectedHasNoTimer
  
  NotStranded
PROPERTIES
  
  Retried
CHECK_DEADLOCK FALSE
