CONSTANTS
  Requests = {r1, r2, r3}
  MaxError = 6
  MaxAttempts = 5
  Following = {r1}
  MaxHops = 2
  None = None
SPECIFICATION FairSpec
INVARIANTS
  TypeOK
  HeadInFlight
  NobodyLost
  AnsweredOnce
PROPERTY Settled
CHECK_DEADLOCK FALSE
