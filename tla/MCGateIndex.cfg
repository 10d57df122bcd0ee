SPECIFICATION Spec
CONSTANTS
  Labels <- MCLabels
  Zero = 0
  XorOf <- MCXor
  HashOf <- MCHash
  MaxGates = 3
  NoCiphertext = NoCiphertext
  Circuits <- MCCircuits
  Wires <- MCWires
  Inputs <- MCInputs
  Seeds <- MCSeeds
  UNREACHABLE = UNREACHABLE
  Nothing = Nothing
PROPERTY UnreachableKeepsIndex
CHECK_DEADLOCK FALSE
