--------------------------- MODULE MCGarbledStream ----------------------------
(***************************************************************************)
(* Circuits of three gates over two inputs: the first and the last of any  *)
(* type, the middle one free or not, live or unreachable, on a constant.   *)
(* Labels are strings of three bits.                                       *)
(***************************************************************************)
EXTENDS GarbledStream, TLC

MCLabels == 0 .. 7
Bit(x, b) == (x \div b) % 2
BitXor(x, y, b) == b * ((Bit(x, b) + Bit(y, b)) % 2)
MCXor(x, y) == BitXor(x, y, 1) + BitXor(x, y, 2) + BitXor(x, y, 4)
MCHash(x, n) == (x * x * 3 + x + 5 * n) % 8

Gate(g, a, b, c) == [g |-> g, a |-> a, b |-> b, c |-> c]
MCInputs == {2, 3}
MCWires == 0 .. 6
MCCircuits ==
  {<<Gate(first, 2, 3, 4), mid, Gate(last, 4, 3, 6)>> :
     first \in GateTypes, last \in GateTypes,
     mid \in {Gate("Or", 4, 1, UNREACHABLE), Gate("Xor", 2, 1, UNREACHABLE),
              Gate("Nimp", 1, 4, 5), Gate("Xnor", 2, 0, 5)}}
MCSeeds ==
  {[delta |-> 5, base |-> (0 :> 1 @@ 1 :> 6 @@ 2 :> 4 @@ 3 :> 7)],
   [delta |-> 2, base |-> (0 :> 0 @@ 1 :> 1 @@ 2 :> 3 @@ 3 :> 0)]}
=============================================================================
