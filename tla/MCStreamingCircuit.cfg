SPECIFICATION Spec
CONSTANTS
  Circuits <- MCCircuits
  Slots <- MCSlots
  Pick <- MCPick
  Data <- MCData
  MaxCredits = 31
  Capacity = 2
  NoData = NoData
  UNREACHABLE = UNREACHABLE
INVARIANTS TypeOK CreditsExact NoPanic OutputsCorrect
PROPERTY Terminates
CHECK_DEADLOCK FALSE
