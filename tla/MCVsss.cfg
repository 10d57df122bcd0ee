SPECIFICATION Spec
CONSTANTS
  Q = 251
  Q_BITS = 8
  Window = 3
  OddY <- MCOddY
  ChallengeHash <- MCChallengeHash
  Total = 4
  Finalize = 2
  Ciphertexts = 2
  StreamBound = 1
  PoolSize = 2
  NumInputs = 3
  ChunkBits = 2
  Coefficient <- MCCoefficient
  Nonce <- MCNonce
  Faulty = {1, 2}
  Secrets = {77, 174}
  Values <- MCValues
INVARIANTS TypeOK SharingExact RegarbledSound LabelsMatchInput RevealedBelowThreshold SignaturesVerify
PROPERTY Completes
CHECK_DEADLOCK FALSE
