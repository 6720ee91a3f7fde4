CONSTANTS
  Workers = {w1, w2}
  MaxCalls = 2
  None = None
SPECIFICATION FairSpec
PROPERTY EveryCallRuns
CHECK_DEADLOCK FALSE
