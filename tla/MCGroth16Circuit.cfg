SPECIFICATION Spec
CONSTANTS
  MODULUS = 100003
  N_BITS = 17
  R_INVERSE = 81830
  InverseOfZero = 51
  X = 7
  Order = 99709
  COEFF_B_G1 = 29
  W = 10
  ATE_LOOP_COUNT <- MCAteLoopCount
  COEFF_B_G2 <- MCCoeffB2
  G1Generator <- MCG1Generator
  G2Generator <- MCG2Generator
  GeneratorPairing <- MCGeneratorPairing
  VerifyingKey <- MCVerifyingKey
  Statements <- MCStatements
  Slips = {"none", "a", "-a", "b", "c", "public", "-a, -b"}
  PairingTasks <- MCPairingTasks
INVARIANTS
  RIsMultiple
  VerifiesExactly
PROPERTIES
  ImplementsArk
CHECK_DEADLOCK FALSE
