SPECIFICATION Spec
CONSTANTS
  MODULUS = 103
  N_BITS = 7
  R_INVERSE = 33
  InverseOfZero = 51
  Order = 97
  W = 3
  Multiples = {0, 1, 2, 5, 48, 96}
  Scales = {1, 7}
  COEFF_B_G1 = 5
  COEFF_B_G2 <- MCCoeffBG2
  PublicScalars = {0, 96}
  Fq2Inputs <- MCFq2Inputs
  Fq6Inputs <- MCFq6Inputs
  Fq12Inputs <- MCFq12Inputs
  G1Base <- MCG1Base
  G2Base <- MCG2Base
INVARIANTS
  G2ScalarMulExact
CHECK_DEADLOCK FALSE
