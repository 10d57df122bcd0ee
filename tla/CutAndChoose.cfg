SPECIFICATION Spec
CONSTANTS
  Total = 3
  Finalize = 2
  Ciphertexts = 2
  StreamBound = 1
  PoolSizes = {1, 2}
  NumInputs = 2
INVARIANTS TypeOK SeedsStaySealed AcceptedSound EvaluatedSound StreamConserved HonestNeverPanics
PROPERTY NobodyHangs
CHECK_DEADLOCK FALSE
