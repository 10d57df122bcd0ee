------------------------------ MODULE HalfGates -------------------------------
(***************************************************************************)
(* Privacy-free half-gates garbling of one gate: garble_gate and           *)
(* degarble_gate of src/circuit/modes/garble_mode/halfgates_garbling.rs,   *)
(* with the gate types of src/core/gate_type.rs.                           *)
(*                                                                         *)
(* A label is an element of any group in which every element is its own    *)
(* inverse (128-bit strings in the code), the gate hash any function from  *)
(* a label and a gate index to a label: correctness rests on nothing else. *)
(***************************************************************************)
EXTENDS Integers

CONSTANTS
  Labels,        \* `S`
  Zero,          \* S::ZERO
  XorOf(_, _),   \* `^` on S
  HashOf(_, _),  \* GateHasher::hash_with_gate of one label
  MaxGates,      \* gate indices run up to it (bounds the model)
  NoCiphertext   \* Option::None, for free gates

x (+) y == XorOf(x, y)

ASSUME LabelsAssumption ==
  /\ Zero \in Labels
  /\ \A x, y \in Labels : x (+) y \in Labels /\ x (+) y = y (+) x
  /\ \A x, y, z \in Labels : (x (+) y) (+) z = x (+) (y (+) z)
  /\ \A x \in Labels : x (+) x = Zero /\ x (+) Zero = x

ASSUME HashAssumption ==
  /\ MaxGates \in Nat
  /\ \A x \in Labels, n \in 0 .. MaxGates : HashOf(x, n) \in Labels

FreeGates == {"Xor", "Xnor", "Not"}
HalfGateTypes == {"And", "Nand", "Nimp", "Imp", "Ncimp", "Cimp", "Nor", "Or"}
GateTypes == HalfGateTypes \cup FreeGates

(* `GateType::f`.                                                          *)
Truth(g, a, b) ==
  CASE g = "And" -> a /\ b
    [] g = "Nand" -> ~(a /\ b)
    [] g = "Nimp" -> a /\ ~b
    [] g = "Imp" -> ~a \/ b
    [] g = "Ncimp" -> ~a /\ b
    [] g = "Cimp" -> ~b \/ a
    [] g = "Nor" -> ~(a \/ b)
    [] g = "Or" -> a \/ b
    [] g = "Xor" -> a # b
    [] g = "Xnor" -> a = b
    [] g = "Not" -> ~a

(* `alphas_const`: which half-gates are an AND of possibly negated inputs, *)
(* possibly negated.                                                       *)
AlphaA(g) == g \in {"Ncimp", "Cimp", "Nor", "Or"}
AlphaB(g) == g \in {"Nimp", "Imp", "Nor", "Or"}
AlphaC(g) == g \in {"Nand", "Imp", "Cimp", "Or"}

(* Mutant: NIMP and NCIMP trade places in the table.                       *)
AlphaBSwapped(g) == g \in {"Ncimp", "Imp", "Nor", "Or"}

(* `GarbledWire::select`: the label of a value.                            *)
Select(label0, delta, value) == IF value THEN label0 (+) delta ELSE label0

(* The hashes of a's two labels, the one that hits alpha first.            *)
HashSelected(g, a0, delta, id) == HashOf(Select(a0, delta, AlphaA(g)), id)
HashOther(g, a0, delta, id) == HashOf(Select(a0, delta, ~AlphaA(g)), id)

(* `garble_gate`: label 0 of the output, and its ciphertext if it has one. *)
GarbleLabel(g, a0, b0, delta, id) ==
  CASE g = "Xor" -> a0 (+) b0
    [] g = "Xnor" -> (a0 (+) b0) (+) delta
    [] g = "Not" -> a0 (+) delta
    [] OTHER -> Select(HashSelected(g, a0, delta, id), delta, AlphaC(g))

GarbleCiphertext(g, a0, b0, delta, id) ==
  IF g \in FreeGates THEN NoCiphertext
  ELSE (HashSelected(g, a0, delta, id) (+) HashOther(g, a0, delta, id))
         (+) Select(b0, delta, AlphaB(g))

(* Mutant: the ciphertext is used whenever a is true.                      *)
DegarbleOnTrue(g, ct, a, aValue, b, id) ==
  CASE g \in {"Xor", "Xnor"} -> a (+) b
    [] g = "Not" -> a
    [] OTHER -> IF aValue THEN (ct (+) HashOf(a, id)) (+) b ELSE HashOf(a, id)

(* `degarble_gate`: the active label of the output.                        *)
Degarble(g, ct, a, aValue, b, id) ==
  CASE g \in {"Xor", "Xnor"} -> a (+) b
    [] g = "Not" -> a
    [] OTHER -> IF aValue # AlphaA(g) THEN (ct (+) HashOf(a, id)) (+) b
                                     ELSE HashOf(a, id)
=============================================================================
