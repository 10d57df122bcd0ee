SPECIFICATION Spec
CONSTANTS
  w1 = w1
  w2 = w2
  w3 = w3
  Wires <- MCWires
  Slots <- MCSlots
  Pick <- MCPick
  Data <- MCData
  MaxCredits = 3
  NoData = NoData
  UNREACHABLE = UNREACHABLE
INVARIANTS TypeOK SlabSafe
PROPERTY ImplementsLedger
