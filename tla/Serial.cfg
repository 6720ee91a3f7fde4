CONSTANTS
  Workers = {w1, w2, w3}
  MaxAdds = 5
SPECIFICATION FairSpec
INVARIANTS
  TypeOK
  OneThread
PROPERTIES
  Served
  ImplementsSerialExecutor
CHECK_DEADLOCK FALSE
