---------------------------- MODULE MCWireStorage ----------------------------
(* Three wires on three slots, up to three credits, two values.            *)
EXTENDS WireStorage

CONSTANTS w1, w2, w3

MCWires == {w1, w2, w3}
MCSlots == 0 .. 2
MCData == BOOLEAN
MCPick(vacant) == vacant   \* every choice the slab could make
=============================================================================
