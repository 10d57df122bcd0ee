-------------------------- MODULE MCStreamingCircuit --------------------------
(***************************************************************************)
(* Circuits of three levels: a root that computes a gate, calls a middle   *)
(* component and a leaf and uses what it gets; the middle calls the leaf,  *)
(* twice in some circuits.  Arguments repeat, are constants or inputs;     *)
(* outputs are internal wires, inputs, constants, or one wire twice; some  *)
(* are never read.  The template pool holds two templates, so the ones of  *)
(* the root, the middle and the leaf evict each other.                     *)
(***************************************************************************)
EXTENDS StreamingCircuit

Comp(k, n, body, outs) == [key |-> k, nin |-> n, body |-> body, outs |-> outs]

(* Leaves of two inputs (2, 3) and two outputs.                            *)
Leaves ==
  {Comp("leaf", 2, <<Issue, Gate("And", 2, 3, 4)>>, o) : o \in {<<4, 2>>, <<3, 1>>}}
  \cup
  {Comp("leaf", 2, <<Issue, Issue, Gate("Xor", 2, 2, 4), Gate("Nimp", 2, 3, 5)>>, <<5, 5>>),
   Comp("leaf", 2, <<Issue, Gate("Or", 2, 1, 4), Gate("Not", 4, 4, 4), Issue,
                     Gate("Xor", 4, 3, 5)>>, <<5, 4>>)}

(* Middles of two inputs and two outputs that call the leaf.               *)
Middles ==
  {Comp("mid", 2, <<Call(1, a[1]), Issue, Gate("Xor", 4, 5, 6)>>, a[2]) :
     a \in {<<<<2, 2>>, <<6, 5>>>>, <<<<3, 2>>, <<3, 4>>>>, <<<<0, 3>>, <<2, 2>>>>}}
  \cup
  {Comp("mid", 2, <<Call(1, <<2, 3>>), Call(1, <<5, 4>>), Issue, Gate("And", 6, 2, 8)>>,
        <<8, 7>>)}

(* Roots of two inputs: wire 4 is their exclusive or, 5 and 6 the outputs  *)
(* of the middle, 7 and 8 those of the leaf.                               *)
Roots ==
  {Comp("top", 2, <<Issue, Gate("Xor", 2, 3, 4), Call(2, a), Call(1, b), Issue,
                    Gate("Nimp", 5, 7, 9)>>, o) :
     a \in {<<4, 2>>, <<4, 4>>}, b \in {<<6, 4>>, <<6, 1>>},
     o \in {<<9, 8, 2>>, <<4, 4>>}}

(* Roots that call a leaf with constants: of no inputs, and of no outputs. *)
Closed ==
  {Comp("top", 0, <<Call(1, <<1, 0>>)>>, <<3, 2>>), Comp("top", 0, <<Call(1, <<0, 1>>)>>, <<>>)}

MCCircuits ==
  {<<l, m, r>> : l \in Leaves, m \in Middles, r \in Roots}
  \cup {<<l, r>> : l \in Leaves, r \in Closed}
MCSlots == 0 .. 7
MCData == BOOLEAN
MCPick(vacant) == {i \in vacant : \A j \in vacant : i <= j}
=============================================================================
