CONSTANTS
  Workers = {w1, w2, w3}
  MaxAdds = 4
  None = None
SPECIFICATION FairSpec
INVARIANTS
  TypeOK
  OneConsumer
PROPERTIES
  Served
  ImplementsSerialExecutor
CHECK_DEADLOCK FALSE
