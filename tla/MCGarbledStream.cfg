SPECIFICATION Spec
CONSTANTS
  Labels <- MCLabels
  Zero = 0
  XorOf <- MCXor
  HashOf <- MCHash
  MaxGates = 3
  NoCiphertext = NoCiphertext
  Circuits <- MCCircuits
  Wires <- MCWires
  Inputs <- MCInputs
  Seeds <- MCSeeds
  UNREACHABLE = UNREACHABLE
  Nothing = Nothing
INVARIANTS TypeOK LabelsAgree StreamAligned NoPanic HashesMatch
PROPERTY Completes
CHECK_DEADLOCK FALSE
