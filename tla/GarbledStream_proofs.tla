------------------------- MODULE GarbledStream_proofs -------------------------
(***************************************************************************)
(* Whatever the circuit, the labels, the hash and the interleaving of the  *)
(* three threads: the evaluator's labels are the garbler's, every          *)
(* ciphertext meets its gate, and no thread panics.                        *)
(*                                                                         *)
(* Neither side waits for the other at free gates, so either may be ahead. *)
(* The invariant says what is known of the gates between them: those the   *)
(* garbler is ahead by have their ciphertexts under way; those the         *)
(* evaluator is ahead by are free or dead, and their labels are what       *)
(* degarble_gate gives without a ciphertext.                               *)
(*                                                                         *)
(* That the hashes are equal is another matter: the garbler garbles twice. *)
(* Repeated relates its second pass, at every moment, to the first.        *)
(***************************************************************************)
EXTENDS GarbledStream, HalfGates_proofs, SequenceTheorems, WellFoundedInduction

(* The labels of gate n on either side, from those of its operands.        *)
LabelOf(n) ==
  GarbleLabel(gates[n].g, label0[gates[n].a], label0[gates[n].b], seed.delta, n - 1)
CiphertextOf(n) ==
  GarbleCiphertext(gates[n].g, label0[gates[n].a], label0[gates[n].b], seed.delta, n - 1)
Degarbled(g, ct, A, B, id) ==
  [label |-> Degarble(g, ct, A.label, A.value, B.label, id),
   value |-> Truth(g, A.value, B.value)]
ActiveOf(n, ct) ==
  Degarbled(gates[n].g, ct, active[gates[n].a], active[gates[n].b], n - 1)

Active == [label : Labels, value : BOOLEAN]
Agrees(A, l0, d) == A.label = Select(l0, d, A.value)

Garbled ==
  /\ \A w \in Wires : label0[w] # Nothing <=> w \in WrittenBefore(gates, gpos)
  /\ \A n \in 1 .. gpos - 1 : IsLive(gates[n]) => label0[gates[n].c] = LabelOf(n)

Evaluated ==
  /\ \A w \in Wires : active[w] # Nothing <=> w \in WrittenBefore(gates, epos)
  /\ \A n \in gpos .. epos - 1 :
       /\ ~NeedsCiphertext(gates[n])
       /\ IsLive(gates[n]) => active[gates[n].c] = ActiveOf(n, NoCiphertext)

InTransit ==
  \A i \in DOMAIN UnderWay, n \in DOMAIN gates :
    UnderWay[i].gate = n => UnderWay[i].ct = CiphertextOf(n)

Ending == ended => cts = <<>> /\ GarblerDone

IInv ==
  /\ TypeOK
  /\ Garbled
  /\ Evaluated
  /\ LabelsAgree
  /\ StreamAligned
  /\ InTransit
  /\ Ending
  /\ NoPanic
-----------------------------------------------------------------------------
(* A circuit is a sequence.                                                *)
LEMMA CircuitSeq == \A crt \in Circuits : Len(crt) \in Nat /\ DOMAIN crt = 1 .. Len(crt)
<1> SUFFICES ASSUME NEW crt \in Circuits PROVE Len(crt) \in Nat /\ DOMAIN crt = 1 .. Len(crt)
  OBVIOUS
<1>1. crt \in Seq([g : GateTypes, a : Wires, b : Wires, c : Wires \cup {UNREACHABLE}])
  BY StreamAssumption
<1> QED BY <1>1

(* Operands of a gate have labels before it; its own wire has none.        *)
LEMMA GateWires ==
  ASSUME NEW crt \in Circuits, NEW n \in DOMAIN crt
  PROVE  /\ crt[n].g \in GateTypes
         /\ crt[n].a \in Wires /\ crt[n].a \in WrittenBefore(crt, n)
         /\ crt[n].b \in Wires /\ crt[n].b \in WrittenBefore(crt, n)
         /\ IsLive(crt[n]) => crt[n].c \in Wires /\ crt[n].c \notin WrittenBefore(crt, n)
         /\ n \in 1 .. Len(crt)
         /\ n - 1 \in 0 .. MaxGates
<1> DEFINE T == [g : GateTypes, a : Wires, b : Wires, c : Wires \cup {UNREACHABLE}]
<1>1. /\ crt \in Seq(T)
      /\ Len(crt) <= MaxGates
      /\ {crt[n].a, crt[n].b} \subseteq WrittenBefore(crt, n)
      /\ crt[n].c \notin WrittenBefore(crt, n) \ {UNREACHABLE}
  BY StreamAssumption
<1>2. n \in 1 .. Len(crt) /\ Len(crt) \in Nat /\ MaxGates \in Nat
  BY CircuitSeq, HashAssumption
<1>3. crt[n] \in T
  <2> HIDE DEF T
  <2> QED BY <1>1, <1>2
<1>4. n - 1 \in 0 .. MaxGates
  BY <1>1, <1>2
<1> QED BY <1>1, <1>2, <1>3, <1>4 DEF IsLive

(* Wires that are written stay written.                                    *)
LEMMA WrittenGrows ==
  ASSUME NEW crt, NEW m \in Nat, NEW n \in Nat, m <= n
  PROVE  WrittenBefore(crt, m) \subseteq WrittenBefore(crt, n)
BY DEF WrittenBefore

(* Each gate writes one more.                                              *)
LEMMA WrittenNext ==
  ASSUME NEW crt, NEW n \in Nat \ {0}
  PROVE  WrittenBefore(crt, n + 1) = WrittenBefore(crt, n) \cup {crt[n].c}
<1>1. 1 .. (n + 1) - 1 = (1 .. n - 1) \cup {n}
  OBVIOUS
<1> QED BY <1>1 DEF WrittenBefore

(* Two gates never write the same wire.                                    *)
LEMMA WritesOnce ==
  ASSUME NEW crt \in Circuits, NEW m \in DOMAIN crt, NEW n \in DOMAIN crt,
         IsLive(crt[n]), crt[m].c = crt[n].c
  PROVE  m = n
<1>1. m \in 1 .. Len(crt) /\ n \in 1 .. Len(crt) /\ Len(crt) \in Nat
  BY CircuitSeq
<1>2. IsLive(crt[m])
  BY DEF IsLive
<1>3. ASSUME m < n PROVE FALSE
  <2>1. crt[m].c \in WrittenBefore(crt, n)
    BY <1>1, <1>3 DEF WrittenBefore
  <2> QED BY <2>1, GateWires
<1>4. ASSUME n < m PROVE FALSE
  <2>1. crt[n].c \in WrittenBefore(crt, m)
    BY <1>1, <1>4 DEF WrittenBefore
  <2> QED BY <1>2, <2>1, GateWires
<1> QED BY <1>1, <1>3, <1>4

(* What the seed's draws are.                                              *)
LEMMA SeedType == \A s \in Seeds : s.delta \in Labels /\ s.base \in [Given -> Labels]
BY StreamAssumption

(* An unfed wire is told from a fed one on both sides.                     *)
LEMMA NothingNoLabel == Nothing \notin Labels \cup [label : Labels, value : BOOLEAN]
BY StreamAssumption

(* garble_gate makes labels of labels, and a ciphertext for every half-    *)
(* gate.                                                                   *)
LEMMA GarbleTypes ==
  ASSUME NEW g \in GateTypes, NEW a0 \in Labels, NEW b0 \in Labels, NEW d \in Labels,
         NEW id \in 0 .. MaxGates
  PROVE  /\ GarbleLabel(g, a0, b0, d, id) \in Labels
         /\ g \notin FreeGates => GarbleCiphertext(g, a0, b0, d, id) \in Labels
<1> DEFINE hs == HashSelected(g, a0, d, id)
           ho == HashOther(g, a0, d, id)
<1>1. a0 (+) b0 \in Labels /\ (a0 (+) b0) (+) d \in Labels /\ a0 (+) d \in Labels
  BY XorType
<1>2. b0 (+) d \in Labels
  BY XorType
<1>3. \A x \in Labels : HashOf(x, id) \in Labels
  BY HashAssumption
<1>4. hs \in Labels /\ ho \in Labels
  BY <1>1, <1>3 DEF HashSelected, HashOther, Select
<1>5. hs (+) d \in Labels /\ hs (+) ho \in Labels
  BY <1>4, XorType
<1>6. GarbleLabel(g, a0, b0, d, id) \in Labels
  BY <1>1, <1>4, <1>5 DEF GarbleLabel, Select
<1>7. ASSUME g \notin FreeGates PROVE GarbleCiphertext(g, a0, b0, d, id) \in Labels
  <2>1. Select(b0, d, AlphaB(g)) \in Labels
    BY <1>2 DEF Select
  <2>2. (hs (+) ho) (+) Select(b0, d, AlphaB(g)) \in Labels
    BY <1>5, <2>1, XorType
  <2> QED BY <1>7, <2>2 DEF GarbleCiphertext
<1> QED BY <1>6, <1>7

(* The value of a gate is a boolean.                                       *)
LEMMA TruthType ==
  ASSUME NEW g \in GateTypes, NEW x \in BOOLEAN, NEW y \in BOOLEAN
  PROVE  Truth(g, x, y) \in BOOLEAN
BY Zenon DEF Truth, GateTypes, HalfGateTypes, FreeGates

(* Degarbling gives a label even when nothing is known of the two sides.   *)
LEMMA DegarbledType ==
  ASSUME NEW g \in GateTypes, NEW id \in 0 .. MaxGates, NEW ct,
         NEW A \in Active, NEW B \in Active, g \in FreeGates \/ ct \in Labels
  PROVE  Degarbled(g, ct, A, B, id) \in Active
<1>1. A.value \in BOOLEAN /\ B.value \in BOOLEAN /\ A.label \in Labels /\ B.label \in Labels
  BY DEF Active
<1>2. Truth(g, A.value, B.value) \in BOOLEAN
  BY <1>1, TruthType
<1>3. A.label (+) B.label \in Labels /\ HashOf(A.label, id) \in Labels
  BY <1>1, XorType, HashAssumption
<1>4. g \notin FreeGates => (ct (+) HashOf(A.label, id)) (+) B.label \in Labels
  BY <1>1, <1>3, XorType
<1>5. Degarble(g, ct, A.label, A.value, B.label, id) \in Labels
  BY <1>1, <1>3, <1>4 DEF Degarble, FreeGates
<1> QED BY <1>2, <1>5 DEF Degarbled, Active

(* A gate evaluated on wires that agree gives a wire that agrees.          *)
LEMMA GateAgrees ==
  ASSUME NEW g \in GateTypes, NEW a0 \in Labels, NEW b0 \in Labels, NEW d \in Labels,
         NEW id \in 0 .. MaxGates, NEW ct,
         NEW A \in Active, Agrees(A, a0, d), NEW B \in Active, Agrees(B, b0, d),
         g \in FreeGates \/ ct = GarbleCiphertext(g, a0, b0, d, id)
  PROVE  Agrees(Degarbled(g, ct, A, B, id), GarbleLabel(g, a0, b0, d, id), d)
<1>1. A.value \in BOOLEAN /\ B.value \in BOOLEAN
  BY DEF Active
<1>2. Correct(g, a0, b0, d, A.value, B.value, id)
  BY <1>1, GateCorrect
<1>3. Degarble(g, GarbleCiphertext(g, a0, b0, d, id), A.label, A.value, B.label, id)
        = Select(GarbleLabel(g, a0, b0, d, id), d, Truth(g, A.value, B.value))
  BY <1>2 DEF Correct, Agrees
<1>4. Degarble(g, ct, A.label, A.value, B.label, id)
        = Degarble(g, GarbleCiphertext(g, a0, b0, d, id), A.label, A.value, B.label, id)
  <2>1. CASE g \in FreeGates
    BY <2>1 DEF Degarble, FreeGates
  <2>2. CASE ct = GarbleCiphertext(g, a0, b0, d, id)
    BY <2>2
  <2> QED BY <2>1, <2>2
<1> QED BY <1>3, <1>4 DEF Degarbled, Agrees
-----------------------------------------------------------------------------
(* What is under way when a ciphertext is sent, forwarded or taken.        *)
LEMMA SendsLast ==
  ASSUME NEW S, NEW f \in Seq(S), NEW t \in Seq(S), NEW e \in S
  PROVE  /\ f \o Append(t, e) \in Seq(S)
         /\ Len(f \o Append(t, e)) = Len(f \o t) + 1
         /\ \A i \in 1 .. Len(f \o t) : (f \o Append(t, e))[i] = (f \o t)[i]
         /\ (f \o Append(t, e))[Len(f \o t) + 1] = e
OBVIOUS

(* Forwarding changes no order.                                            *)
LEMMA ForwardsSame ==
  ASSUME NEW S, NEW f \in Seq(S), NEW t \in Seq(S), t # <<>>
  PROVE  /\ Append(f, Head(t)) \o Tail(t) = f \o t
         /\ Append(f, Head(t)) \in Seq(S)
         /\ Tail(t) \in Seq(S)
<1>1. t = <<Head(t)>> \o Tail(t) /\ Tail(t) \in Seq(S) /\ Head(t) \in S
  OBVIOUS
<1>2. Append(f, Head(t)) = f \o <<Head(t)>> /\ Append(f, Head(t)) \in Seq(S)
  BY <1>1
<1>3. (f \o <<Head(t)>>) \o Tail(t) = f \o (<<Head(t)>> \o Tail(t))
  BY <1>1, ConcatAssociative
<1> QED BY <1>1, <1>2, <1>3

(* Taking leaves the rest, each one place further on.                      *)
LEMMA TakesFirst ==
  ASSUME NEW S, NEW f \in Seq(S), NEW t \in Seq(S), f # <<>>
  PROVE  /\ Tail(f) \in Seq(S)
         /\ Head(f) = (f \o t)[1]
         /\ Len(f \o t) = Len(Tail(f) \o t) + 1
         /\ \A i \in 1 .. Len(Tail(f) \o t) : (Tail(f) \o t)[i] = (f \o t)[i + 1]
OBVIOUS

Way == Seq([gate : DOMAIN gates, ct : Labels])

(* The channels carry ciphertexts of gates.                                *)
LEMMA WayType ==
  ASSUME TypeOK
  PROVE  /\ cts \in Way /\ fwd \in Way /\ UnderWay \in Way
         /\ Len(UnderWay) \in Nat /\ DOMAIN UnderWay = 1 .. Len(UnderWay)
<1>1. cts \in Way /\ fwd \in Way
  BY DEF TypeOK, Way
<1>2. UnderWay \in Way
  BY <1>1 DEF Way, UnderWay
<1> QED BY <1>1, <1>2 DEF Way

(* Positions and numbers.                                                  *)
LEMMA Positions ==
  ASSUME TypeOK
  PROVE  /\ gates \in Circuits /\ Len(gates) \in Nat /\ DOMAIN gates = 1 .. Len(gates)
         /\ gpos \in 1 .. Len(gates) + 1 /\ epos \in 1 .. Len(gates) + 1
         /\ seed \in Seeds /\ seed.delta \in Labels
BY CircuitSeq, SeedType DEF TypeOK

(* The operands of every gate up to the one a side is at have labels.      *)
LEMMA GarblerKnows ==
  ASSUME TypeOK, Garbled, NEW n \in 1 .. gpos, n <= Len(gates)
  PROVE  /\ label0[gates[n].a] \in Labels
         /\ label0[gates[n].b] \in Labels
         /\ LabelOf(n) \in Labels
         /\ NeedsCiphertext(gates[n]) => CiphertextOf(n) \in Labels
<1>1. n \in DOMAIN gates
  BY Positions
<1>2. WrittenBefore(gates, n) \subseteq WrittenBefore(gates, gpos)
  BY Positions, WrittenGrows
<1>3. label0[gates[n].a] \in Labels /\ label0[gates[n].b] \in Labels
  BY <1>1, <1>2, Positions, GateWires DEF TypeOK, Garbled
<1> QED BY <1>1, <1>3, Positions, GateWires, GarbleTypes DEF LabelOf, CiphertextOf, NeedsCiphertext

(* The same for the evaluator.                                             *)
LEMMA EvaluatorKnows ==
  ASSUME TypeOK, Evaluated, NEW n \in 1 .. epos, n <= Len(gates)
  PROVE  active[gates[n].a] \in Active /\ active[gates[n].b] \in Active
<1>1. n \in DOMAIN gates
  BY Positions
<1>2. WrittenBefore(gates, n) \subseteq WrittenBefore(gates, epos)
  BY Positions, WrittenGrows
<1> QED BY <1>1, <1>2, Positions, GateWires DEF TypeOK, Evaluated, Active
-----------------------------------------------------------------------------
(* Before the first gate only constants and inputs have labels.            *)
LEMMA InitInv == Init => IInv
<1> SUFFICES ASSUME Init PROVE IInv
  OBVIOUS
<1>1. /\ gates \in Circuits /\ seed \in Seeds
      /\ gpos = 1 /\ epos = 1 /\ gindex = 0 /\ eindex = 0
      /\ cts = <<>> /\ fwd = <<>> /\ hashed = <<>> /\ ended = FALSE /\ panicked = {}
      /\ label0 = [w \in Wires |-> IF w \in Given THEN seed.base[w] ELSE Nothing]
  BY DEF Init, GivenLabels
<1>2. PICK value \in [Given -> BOOLEAN] :
        active = [w \in Wires |->
                    IF w \in Given
                      THEN [label |-> Select(seed.base[w], seed.delta, value[w]),
                            value |-> value[w]]
                      ELSE Nothing]
  BY DEF Init
<1>3. Len(gates) \in Nat
  BY <1>1, CircuitSeq
<1>4. WrittenBefore(gates, 1) = Given
  BY DEF WrittenBefore
<1>5. \A w \in Given : /\ seed.base[w] \in Labels
                       /\ Select(seed.base[w], seed.delta, value[w]) \in Labels
                       /\ value[w] \in BOOLEAN
  BY <1>1, SeedType, SelectType
<1>6. \A w \in Given : [label |-> Select(seed.base[w], seed.delta, value[w]), value |-> value[w]]
                         \in [label : Labels, value : BOOLEAN]
  BY <1>5
<1>7. TypeOK
  <2>1. label0 \in [Wires -> Labels \cup {Nothing}]
    BY <1>1, <1>5
  <2>2. active \in [Wires -> [label : Labels, value : BOOLEAN] \cup {Nothing}]
    BY <1>2, <1>6, Zenon
  <2>3. /\ 1 \in 1 .. Len(gates) + 1
        /\ {cts, fwd} \subseteq Seq([gate : DOMAIN gates, ct : Labels])
        /\ hashed \in Seq(Labels)
    BY <1>1, <1>3
  <2>4. (IF "evaluator" \in panicked THEN 1 ELSE 0) = 0
    BY <1>1
  <2>5. gindex = gpos - 1 /\ eindex = epos - 1 + 0
    BY <1>1
  <2>6. panicked \subseteq {"proxy", "evaluator"} /\ ended \in BOOLEAN
    BY <1>1
  <2> QED BY Zenon, <1>1, <2>1, <2>2, <2>3, <2>4, <2>5, <2>6 DEF TypeOK
<1>8. Garbled
  BY <1>1, <1>4, <1>5, NothingNoLabel DEF Garbled
<1>9. Evaluated
  BY <1>1, <1>2, <1>4, <1>6, NothingNoLabel DEF Evaluated
<1>10. LabelsAgree
  BY <1>1, <1>2 DEF LabelsAgree
<1>11. UnderWay = <<>>
  BY <1>1 DEF UnderWay
<1>12. StreamAligned /\ InTransit
  BY <1>1, <1>11 DEF StreamAligned, InTransit
<1> QED BY <1>1, <1>7, <1>8, <1>9, <1>10, <1>12 DEF IInv, Ending, NoPanic
-----------------------------------------------------------------------------
(* What a step of the garbler does: the wire of the gate it is at gets its *)
(* label, the labels of earlier gates stay, a ciphertext joins the others. *)
LEMMA GarblerEffect ==
  ASSUME IInv, GarbleGate
  PROVE  LET gate == gates[gpos]
         IN  /\ gpos \in 1 .. Len(gates)
             /\ gpos' = gpos + 1 /\ gindex' = gpos
             /\ UNCHANGED <<gates, seed, fwd, hashed, ended, active, epos, eindex, panicked>>
             /\ IsLive(gate) => label0' = [label0 EXCEPT ![gate.c] = LabelOf(gpos)]
             /\ ~IsLive(gate) => label0' = label0
             /\ NeedsCiphertext(gate) =>
                  cts' = Append(cts, [gate |-> gpos, ct |-> CiphertextOf(gpos)])
             /\ ~NeedsCiphertext(gate) => cts' = cts
<1>1. gindex = gpos - 1 /\ gpos \in Nat /\ Len(gates) \in Nat /\ gpos \in 1 .. Len(gates) + 1
  BY Positions DEF IInv, TypeOK
<1>2. gpos <= Len(gates)
  BY <1>1 DEF GarbleGate, GarblerDone
<1>3. /\ gpos' = gpos + 1 /\ gindex' = gindex + 1
      /\ UNCHANGED <<gates, seed, fwd, hashed, ended, active, epos, eindex, panicked>>
  BY DEF GarbleGate, evaluator, GarblerIndex
<1> QED BY <1>1, <1>2, <1>3 DEF GarbleGate, LabelOf, CiphertextOf, StreamsEntry

(* Labels written before do not change, so no gate up to this one sees the *)
(* step.                                                                   *)
LEMMA GarblerKeeps ==
  ASSUME IInv, GarbleGate
  PROVE  /\ \A w \in Wires : w # gates[gpos].c => label0'[w] = label0[w]
         /\ \A w \in Wires : w \in WrittenBefore(gates, gpos) => label0'[w] = label0[w]
         /\ \A n \in 1 .. gpos : LabelOf(n)' = LabelOf(n) /\ CiphertextOf(n)' = CiphertextOf(n)
<1>1. TypeOK /\ gpos \in 1 .. Len(gates) /\ gates \in Circuits /\ DOMAIN gates = 1 .. Len(gates)
      /\ Len(gates) \in Nat
  BY GarblerEffect, Positions DEF IInv
<1>2. label0 \in [Wires -> Labels \cup {Nothing}]
  BY <1>1 DEF TypeOK
<1>3. \A w \in Wires : w # gates[gpos].c => label0'[w] = label0[w]
  BY <1>2, GarblerEffect
<1>4. \A w \in Wires : w \in WrittenBefore(gates, gpos) => label0'[w] = label0[w]
  BY <1>1, <1>3, GateWires, GarblerEffect
<1>5. ASSUME NEW n \in 1 .. gpos
      PROVE  LabelOf(n)' = LabelOf(n) /\ CiphertextOf(n)' = CiphertextOf(n)
  <2>1. WrittenBefore(gates, n) \subseteq WrittenBefore(gates, gpos)
    BY <1>1, WrittenGrows
  <2>2. n \in DOMAIN gates
    BY <1>1
  <2>3. label0'[gates[n].a] = label0[gates[n].a] /\ label0'[gates[n].b] = label0[gates[n].b]
    BY <1>1, <1>4, <2>1, <2>2, GateWires
  <2> QED BY <2>3, GarblerEffect DEF LabelOf, CiphertextOf
<1> QED BY <1>3, <1>4, <1>5

(* A step of the garbler, one lemma for each part of the invariant.        *)
LEMMA GarblerTypes == IInv /\ GarbleGate => TypeOK'
<1> SUFFICES ASSUME IInv, GarbleGate PROVE TypeOK'
  OBVIOUS
<1> DEFINE gate == gates[gpos]
<1>1. /\ TypeOK /\ Garbled /\ gpos \in 1 .. Len(gates)
      /\ gates \in Circuits /\ DOMAIN gates = 1 .. Len(gates) /\ Len(gates) \in Nat
      /\ gpos \in DOMAIN gates
  BY GarblerEffect, Positions DEF IInv
<1>2. LabelOf(gpos) \in Labels /\ (NeedsCiphertext(gate) => CiphertextOf(gpos) \in Labels)
  BY <1>1, GarblerKnows
<1>3. label0' \in [Wires -> Labels \cup {Nothing}]
  <2>1. label0 \in [Wires -> Labels \cup {Nothing}]
    BY <1>1 DEF TypeOK
  <2>2. CASE IsLive(gate)
    BY <1>2, <2>1, <2>2, GarblerEffect
  <2>3. CASE ~IsLive(gate)
    BY <2>1, <2>3, GarblerEffect
  <2> QED BY <2>2, <2>3
<1>4. cts' \in Way
  <2>1. cts \in Way
    BY <1>1, WayType
  <2>2. CASE NeedsCiphertext(gate)
    <3>1. [gate |-> gpos, ct |-> CiphertextOf(gpos)] \in [gate : DOMAIN gates, ct : Labels]
      BY <1>1, <1>2, <2>2
    <3>2. cts' = Append(cts, [gate |-> gpos, ct |-> CiphertextOf(gpos)])
      BY <2>2, GarblerEffect
    <3> QED BY <2>1, <3>1, <3>2, AppendProperties DEF Way
  <2> QED BY <2>1, <2>2, GarblerEffect
<1>5. gpos' \in 1 .. Len(gates) + 1 /\ gindex' = gpos' - 1
  BY <1>1, GarblerEffect
<1> QED BY <1>1, <1>3, <1>4, <1>5, GarblerEffect DEF TypeOK, Way

(* The gate it was at is now garbled.                                      *)
LEMMA GarblerGarbled == IInv /\ GarbleGate => Garbled'
<1> SUFFICES ASSUME IInv, GarbleGate PROVE Garbled'
  OBVIOUS
<1> DEFINE gate == gates[gpos]
<1>1. /\ TypeOK /\ Garbled /\ gpos \in 1 .. Len(gates)
      /\ gates \in Circuits /\ DOMAIN gates = 1 .. Len(gates) /\ Len(gates) \in Nat
      /\ gpos \in DOMAIN gates /\ gpos \in Nat \ {0}
      /\ gates' = gates /\ gpos' = gpos + 1
  BY GarblerEffect, Positions DEF IInv
<1>2. LabelOf(gpos) \in Labels
  BY <1>1, GarblerKnows
<1>3. WrittenBefore(gates, gpos + 1) = WrittenBefore(gates, gpos) \cup {gate.c}
  BY <1>1, WrittenNext
<1>4. label0 \in [Wires -> Labels \cup {Nothing}]
  BY <1>1 DEF TypeOK
<1>5. IsLive(gate) => gate.c \in Wires /\ label0'[gate.c] = LabelOf(gpos)
  BY <1>1, <1>4, GateWires, GarblerEffect
<1>6. ~IsLive(gate) => gate.c \notin Wires
  BY StreamAssumption DEF IsLive
<1>7. ASSUME NEW w \in Wires PROVE label0'[w] # Nothing <=> w \in WrittenBefore(gates, gpos + 1)
  <2>1. CASE w = gate.c
    BY <1>2, <1>3, <1>5, <1>6, <2>1, NothingNoLabel
  <2>2. CASE w # gate.c
    BY <1>1, <1>3, <2>2, GarblerKeeps DEF Garbled
  <2> QED BY <2>1, <2>2
<1>8. ASSUME NEW n \in 1 .. gpos, IsLive(gates[n]) PROVE label0'[gates[n].c] = LabelOf(n)'
  <2>1. CASE n = gpos
    BY <1>1, <1>5, <1>8, <2>1, GarblerKeeps
  <2>2. CASE n # gpos
    <3>1. n \in 1 .. gpos - 1 /\ n \in DOMAIN gates
      BY <1>1, <2>2
    <3>2. label0[gates[n].c] = LabelOf(n)
      BY <1>1, <1>8, <3>1 DEF Garbled
    <3>3. gates[n].c # gate.c
      BY <1>1, <1>8, <2>2, <3>1, WritesOnce DEF IsLive
    <3>4. gates[n].c \in Wires
      BY <1>1, <1>8, <3>1, GateWires
    <3> QED BY <3>2, <3>3, <3>4, GarblerKeeps
  <2> QED BY <2>1, <2>2
<1>9. (gpos + 1) - 1 = gpos
  BY <1>1
<1> QED BY <1>1, <1>7, <1>8, <1>9 DEF Garbled

(* One gate less, if any, by which the evaluator is ahead.                 *)
LEMMA GarblerEvaluated == IInv /\ GarbleGate => Evaluated'
<1> SUFFICES ASSUME IInv, GarbleGate PROVE Evaluated'
  OBVIOUS
<1>1. Evaluated /\ gpos \in Nat /\ epos \in Nat
  BY Positions DEF IInv
<1>2. /\ gates' = gates /\ seed' = seed /\ active' = active /\ epos' = epos
      /\ gpos' = gpos + 1
  BY GarblerEffect
<1>3. gpos + 1 .. epos - 1 \subseteq gpos .. epos - 1
  BY <1>1
<1>4. \A n \in 1 .. Len(gates) : ActiveOf(n, NoCiphertext)' = ActiveOf(n, NoCiphertext)
  BY <1>2 DEF ActiveOf
<1> QED BY <1>1, <1>2, <1>3 DEF Evaluated, ActiveOf

(* If the evaluator has been at this gate the gate is free, and its label  *)
(* was computed with no ciphertext.                                        *)
LEMMA GarblerAgrees == IInv /\ GarbleGate => LabelsAgree'
<1> SUFFICES ASSUME IInv, GarbleGate, NEW w \in Wires, label0'[w] # Nothing, active'[w] # Nothing
             PROVE  active'[w].label = Select(label0'[w], seed'.delta, active'[w].value)
  BY DEF LabelsAgree
<1> DEFINE gate == gates[gpos]
<1>1. /\ TypeOK /\ Garbled /\ Evaluated /\ LabelsAgree
      /\ gates \in Circuits /\ DOMAIN gates = 1 .. Len(gates) /\ Len(gates) \in Nat
      /\ gpos \in DOMAIN gates /\ gpos \in 1 .. Len(gates) /\ gpos \in 1 .. gpos
      /\ epos \in 1 .. Len(gates) + 1
      /\ active' = active /\ seed' = seed /\ seed.delta \in Labels
  BY GarblerEffect, Positions DEF IInv
<1>2. CASE w # gate.c
  BY <1>1, <1>2, GarblerKeeps DEF LabelsAgree
<1>3. CASE w = gate.c
  <2>1. IsLive(gate) /\ w \notin WrittenBefore(gates, gpos)
    BY <1>1, <1>3, GateWires, StreamAssumption DEF IsLive
  <2>2. label0'[w] = LabelOf(gpos)
    BY <1>1, <1>3, <2>1, GarblerEffect DEF TypeOK
  <2>3. w \in WrittenBefore(gates, epos)
    BY <1>1 DEF Evaluated
  <2>4. gpos \in gpos .. epos - 1
    <3>1. CASE epos <= gpos
      BY <1>1, <2>1, <2>3, <3>1, WrittenGrows
    <3>2. CASE epos > gpos
      BY <1>1, <3>2
    <3> QED BY <1>1, <3>1, <3>2
  <2>5. active[w] = ActiveOf(gpos, NoCiphertext) /\ ~NeedsCiphertext(gate)
    BY <1>1, <1>3, <2>1, <2>4 DEF Evaluated
  <2>6. gate.g \in FreeGates /\ gate.g \in GateTypes /\ gate.a \in Wires /\ gate.b \in Wires
        /\ gpos - 1 \in 0 .. MaxGates
    BY <1>1, <2>1, <2>5, GateWires DEF NeedsCiphertext
  <2>7. label0[gate.a] \in Labels /\ label0[gate.b] \in Labels
    BY <1>1, GarblerKnows
  <2>8. active[gate.a] \in Active /\ active[gate.b] \in Active
    BY <1>1, <2>4, EvaluatorKnows
  <2>9. /\ Agrees(active[gate.a], label0[gate.a], seed.delta)
        /\ Agrees(active[gate.b], label0[gate.b], seed.delta)
    BY <1>1, <2>6, <2>7, <2>8, NothingNoLabel DEF LabelsAgree, Agrees, Active
  <2>10. Agrees(ActiveOf(gpos, NoCiphertext), LabelOf(gpos), seed.delta)
    BY <1>1, <2>6, <2>7, <2>8, <2>9, GateAgrees DEF ActiveOf, LabelOf
  <2> QED BY <1>1, <2>2, <2>5, <2>10 DEF Agrees
<1> QED BY <1>2, <1>3

(* StreamAligned, without its condition.                                   *)
Ascending(way) == \A i, j \in DOMAIN way : i < j => way[i].gate < way[j].gate
Needing == {n \in epos .. gpos - 1 : NeedsCiphertext(gates[n])}
Aligned == Ascending(UnderWay) /\ {UnderWay[i].gate : i \in DOMAIN UnderWay} = Needing

(* No thread has panicked, so the condition is met.                        *)
LEMMA AlignedBoth == IInv => Aligned /\ panicked = {}
BY DEF IInv, NoPanic, StreamAligned, Aligned, Ascending, Needing

(* And the other way round.                                                *)
LEMMA AlignedNext == Aligned' => StreamAligned'
BY DEF StreamAligned, Aligned, Ascending, Needing

(* The new ciphertext is the last, and its gate is not behind the          *)
(* evaluator, who would have waited for it.                                *)
LEMMA GarblerAligned == IInv /\ GarbleGate => Aligned' /\ InTransit'
<1> SUFFICES ASSUME IInv, GarbleGate PROVE Aligned' /\ InTransit'
  OBVIOUS
<1> DEFINE gate == gates[gpos]
           e == [gate |-> gpos, ct |-> CiphertextOf(gpos)]
           T == [gate : DOMAIN gates, ct : Labels]
<1>1. /\ TypeOK /\ Garbled /\ Evaluated /\ InTransit /\ Aligned
      /\ gpos \in 1 .. Len(gates) /\ epos \in 1 .. Len(gates) + 1 /\ Len(gates) \in Nat
      /\ DOMAIN gates = 1 .. Len(gates) /\ gpos \in DOMAIN gates
      /\ gates' = gates /\ gpos' = gpos + 1 /\ epos' = epos /\ fwd' = fwd
  BY GarblerEffect, Positions, AlignedBoth DEF IInv
<1>2. /\ cts \in Seq(T) /\ fwd \in Seq(T) /\ Len(UnderWay) \in Nat
      /\ DOMAIN UnderWay = 1 .. Len(UnderWay)
  BY <1>1, WayType DEF Way
<1>3. \A i \in DOMAIN UnderWay : UnderWay[i].gate \in epos .. gpos - 1
  BY <1>1 DEF Aligned, Needing
<1>4. \A i \in DOMAIN UnderWay, n \in DOMAIN gates :
        UnderWay[i].gate = n => UnderWay[i].ct = CiphertextOf(n)'
  BY <1>1, <1>3, GarblerKeeps DEF InTransit
<1>5. CASE NeedsCiphertext(gate)
  <2>1. e \in T
    BY <1>1, <1>5, GarblerKnows
  <2>2. UnderWay' = fwd \o Append(cts, e)
    BY <1>1, <1>5, GarblerEffect DEF UnderWay
  <2>3. /\ DOMAIN UnderWay' = 1 .. Len(UnderWay) + 1
        /\ \A i \in 1 .. Len(UnderWay) : UnderWay'[i] = UnderWay[i]
        /\ UnderWay'[Len(UnderWay) + 1] = e
    <3> HIDE DEF e, T
    <3>1. /\ fwd \o Append(cts, e) \in Seq(T)
          /\ Len(fwd \o Append(cts, e)) = Len(fwd \o cts) + 1
          /\ \A i \in 1 .. Len(fwd \o cts) : (fwd \o Append(cts, e))[i] = (fwd \o cts)[i]
          /\ (fwd \o Append(cts, e))[Len(fwd \o cts) + 1] = e
      BY <1>2, <2>1, SendsLast
    <3> QED BY <2>2, <3>1 DEF UnderWay
  <2>4. e.gate = gpos /\ \A n \in DOMAIN gates : e.gate = n => e.ct = CiphertextOf(n)'
    BY <1>1, GarblerKeeps
  <2>5. gpos >= epos
    BY <1>1, <1>5 DEF Evaluated
  <2> HIDE DEF e, T
  <2>6. Ascending(UnderWay)'
    BY <1>1, <1>2, <1>3, <2>3, <2>4 DEF Aligned, Ascending
  <2>7. Needing' = Needing \cup {gpos}
    BY <1>1, <1>5, <2>5 DEF Needing
  <2>8. {UnderWay'[i].gate : i \in DOMAIN UnderWay'} = {UnderWay[i].gate : i \in DOMAIN UnderWay} \cup {gpos}
    BY <1>2, <2>3, <2>4
  <2>9. InTransit'
    BY <1>1, <1>2, <1>4, <2>3, <2>4 DEF InTransit
  <2> QED BY <1>1, <2>6, <2>7, <2>8, <2>9 DEF Aligned
<1>6. CASE ~NeedsCiphertext(gate)
  <2>1. UnderWay' = UnderWay
    BY <1>1, <1>6, GarblerEffect DEF UnderWay
  <2>2. Needing' = Needing
    BY <1>1, <1>6 DEF Needing
  <2> QED BY <1>1, <1>4, <2>1, <2>2 DEF Aligned, Ascending, InTransit
<1> QED BY <1>5, <1>6

(* A step of the garbler keeps the invariant.                              *)
LEMMA GarblerInv == IInv /\ GarbleGate => IInv'
<1> SUFFICES ASSUME IInv, GarbleGate PROVE IInv'
  OBVIOUS
<1>1. ~GarblerDone /\ panicked' = panicked /\ ended' = ended
  BY GarblerEffect DEF GarbleGate
<1>2. Ending' /\ NoPanic'
  BY <1>1 DEF IInv, Ending, NoPanic
<1> QED BY <1>2, GarblerTypes, GarblerGarbled, GarblerEvaluated, GarblerAgrees, GarblerAligned,
           AlignedNext DEF IInv
-----------------------------------------------------------------------------
(* The proxy moves a ciphertext from one channel to the other: what is     *)
(* under way stays the same.  It cannot meet an evaluator that is done,    *)
(* for whom nothing is under way.                                          *)
LEMMA ForwardInv == IInv /\ Forward => IInv'
<1> SUFFICES ASSUME IInv, Forward PROVE IInv'
  OBVIOUS
<1> DEFINE T == [gate : DOMAIN gates, ct : Labels]
<1>1. /\ TypeOK /\ Aligned /\ panicked = {} /\ ~ended /\ cts # <<>>
      /\ gpos \in 1 .. Len(gates) + 1 /\ epos \in 1 .. Len(gates) + 1 /\ Len(gates) \in Nat
  BY AlignedBoth, Positions DEF IInv, Forward
<1>2. cts \in Seq(T) /\ fwd \in Seq(T)
  BY <1>1, WayType DEF Way
<1>3. ~EvaluatorDone
  <2>1. SUFFICES ASSUME EvaluatorDone PROVE FALSE
    OBVIOUS
  <2>2. Needing = {}
    BY <1>1, <2>1 DEF Needing, EvaluatorDone
  <2>3. UnderWay \in Seq(T) /\ Len(UnderWay) = Len(fwd) + Len(cts) /\ Len(cts) > 0 /\ Len(fwd) \in Nat
    <3> HIDE DEF T
    <3> QED BY <1>1, <1>2 DEF UnderWay
  <2>4. 1 \in DOMAIN UnderWay
    <3> HIDE DEF T
    <3> QED BY <2>3
  <2> QED BY <1>1, <2>2, <2>4 DEF Aligned
<1>4. /\ cts' = Tail(cts) /\ fwd' = Append(fwd, Head(cts)) /\ hashed' = Append(hashed, Head(cts).ct)
      /\ UNCHANGED <<gates, seed, label0, gpos, gindex, active, epos, eindex, ended, panicked>>
  BY <1>3 DEF Forward, Absorb, garbler, evaluator
<1>5. fwd' \in Seq(T) /\ cts' \in Seq(T) /\ UnderWay' = UnderWay
  <2> HIDE DEF T
  <2>1. /\ Append(fwd, Head(cts)) \o Tail(cts) = fwd \o cts
        /\ Append(fwd, Head(cts)) \in Seq(T) /\ Tail(cts) \in Seq(T)
    BY <1>1, <1>2, ForwardsSame
  <2>2. UnderWay' = fwd' \o cts'
    BY DEF UnderWay
  <2> QED BY Zenon, <1>4, <2>1, <2>2 DEF UnderWay
<1>6. hashed' \in Seq(Labels)
  <2>1. Head(cts) \in T
    <3> HIDE DEF T
    <3> QED BY <1>1, <1>2
  <2>2. hashed \in Seq(Labels) /\ Head(cts).ct \in Labels
    BY <1>1, <2>1 DEF TypeOK
  <2> QED BY <1>4, <2>2, AppendProperties
<1>7. TypeOK'
  <2>1. {cts', fwd'} \subseteq Seq([gate : DOMAIN gates', ct : Labels])
    BY <1>4, <1>5
  <2> QED BY Zenon, <1>1, <1>4, <1>6, <2>1 DEF TypeOK
<1>8. Garbled' /\ Evaluated' /\ LabelsAgree'
  BY <1>4 DEF IInv, Garbled, Evaluated, LabelsAgree, LabelOf, ActiveOf
<1>9. StreamAligned' /\ InTransit'
  BY <1>4, <1>5 DEF IInv, StreamAligned, InTransit, CiphertextOf
<1>10. Ending' /\ NoPanic'
  BY <1>1, <1>4 DEF IInv, Ending, NoPanic
<1> QED BY <1>7, <1>8, <1>9, <1>10 DEF IInv

(* The proxy returns when nothing more can come.                           *)
LEMMA EndProxyInv == IInv /\ EndProxy => IInv'
<1> SUFFICES ASSUME IInv, EndProxy PROVE IInv'
  OBVIOUS
<1>1. /\ ended' = TRUE /\ cts = <<>> /\ GarblerDone
      /\ UNCHANGED <<gates, seed, label0, gpos, gindex, cts, fwd, hashed, active, epos, eindex, panicked>>
  BY DEF EndProxy, garbler, evaluator
<1>2. TypeOK'
  BY <1>1 DEF IInv, TypeOK
<1>3. Garbled' /\ Evaluated' /\ LabelsAgree'
  BY <1>1 DEF IInv, Garbled, Evaluated, LabelsAgree, LabelOf, ActiveOf
<1>4. StreamAligned' /\ InTransit'
  BY <1>1 DEF IInv, StreamAligned, InTransit, CiphertextOf, UnderWay
<1>5. Ending' /\ NoPanic'
  BY <1>1 DEF IInv, Ending, NoPanic, GarblerDone
<1> QED BY <1>2, <1>3, <1>4, <1>5 DEF IInv

(* A step that changes nothing.                                            *)
LEMMA StutterInv == IInv /\ UNCHANGED vars => IInv'
<1> SUFFICES ASSUME IInv, UNCHANGED vars PROVE IInv'
  OBVIOUS
<1>1. UNCHANGED <<gates, seed, label0, gpos, gindex, cts, fwd, hashed, ended, active, epos,
                  eindex, panicked>>
  BY DEF vars
<1>2. TypeOK'
  BY <1>1 DEF IInv, TypeOK
<1>3. Garbled' /\ Evaluated' /\ LabelsAgree'
  BY <1>1 DEF IInv, Garbled, Evaluated, LabelsAgree, LabelOf, ActiveOf
<1>4. StreamAligned' /\ InTransit'
  BY <1>1 DEF IInv, StreamAligned, InTransit, CiphertextOf, UnderWay
<1>5. Ending' /\ NoPanic'
  BY <1>1 DEF IInv, Ending, NoPanic, GarblerDone
<1> QED BY <1>2, <1>3, <1>4, <1>5 DEF IInv
-----------------------------------------------------------------------------
(* The first label under way belongs to the gate the evaluator is at, if   *)
(* that gate needs one; and it has one unless the garbler is yet to come.  *)
LEMMA FirstUnderWay ==
  ASSUME IInv, epos \in DOMAIN gates, NeedsCiphertext(gates[epos])
  PROVE  /\ fwd # <<>> => /\ Head(fwd).gate = epos /\ Head(fwd).ct = CiphertextOf(epos)
                          /\ epos < gpos
         /\ fwd = <<>> => ~ended
<1> DEFINE T == [gate : DOMAIN gates, ct : Labels]
<1>1. /\ TypeOK /\ Aligned /\ InTransit /\ Ending /\ panicked = {}
      /\ gpos \in 1 .. Len(gates) + 1 /\ epos \in 1 .. Len(gates) /\ Len(gates) \in Nat
      /\ DOMAIN UnderWay = 1 .. Len(UnderWay) /\ Len(UnderWay) \in Nat
  BY AlignedBoth, Positions, WayType DEF IInv
<1>2. cts \in Seq(T) /\ fwd \in Seq(T)
  BY <1>1, WayType DEF Way
<1>3. ASSUME fwd # <<>>
      PROVE  Head(fwd).gate = epos /\ Head(fwd).ct = CiphertextOf(epos) /\ epos < gpos
  <2>1. Head(fwd) = UnderWay[1] /\ 1 \in DOMAIN UnderWay
    <3> HIDE DEF T
    <3>1. Head(fwd) = (fwd \o cts)[1] /\ Len(fwd \o cts) = Len(Tail(fwd) \o cts) + 1
          /\ Tail(fwd) \in Seq(T)
      BY <1>2, <1>3, TakesFirst
    <3>2. Len(Tail(fwd) \o cts) \in Nat
      BY <1>2, <3>1
    <3> QED BY <1>1, <3>1, <3>2 DEF UnderWay
  <2>2. UnderWay[1].gate \in epos .. gpos - 1
    BY <1>1, <2>1 DEF Aligned, Needing
  <2>3. epos \in Needing /\ epos < gpos
    BY <1>1, <2>2 DEF Needing
  <2>4. PICK i \in DOMAIN UnderWay : UnderWay[i].gate = epos
    BY <1>1, <2>3 DEF Aligned
  <2>5. i = 1
    BY <1>1, <2>1, <2>2, <2>4 DEF Aligned, Ascending
  <2> QED BY <1>1, <2>1, <2>3, <2>4, <2>5 DEF InTransit
<1>4. ASSUME fwd = <<>>, ended PROVE FALSE
  <2>1. cts = <<>> /\ gpos = Len(gates) + 1
    BY <1>1, <1>4 DEF Ending, GarblerDone
  <2>2. UnderWay = <<>>
    BY <1>4, <2>1 DEF UnderWay
  <2>3. epos \in Needing
    BY <1>1, <2>1 DEF Needing
  <2> QED BY <1>1, <2>2, <2>3 DEF Aligned
<1> QED BY <1>3, <1>4

(* What a step of the evaluator does: never a panic; a half-gate takes the *)
(* ciphertext of that very gate.                                           *)
LEMMA EvaluatorEffect ==
  ASSUME IInv, EvaluateGate
  PROVE  LET gate == gates[epos]
         IN  /\ epos \in 1 .. Len(gates) /\ epos' = epos + 1 /\ eindex' = epos
             /\ UNCHANGED <<gates, seed, label0, gpos, gindex, cts, hashed, ended, panicked>>
             /\ ~IsLive(gate) => active' = active
             /\ ~NeedsCiphertext(gate) =>
                  /\ fwd' = fwd
                  /\ IsLive(gate) =>
                       active' = [active EXCEPT ![gate.c] = ActiveOf(epos, NoCiphertext)]
             /\ NeedsCiphertext(gate) =>
                  /\ fwd # <<>> /\ fwd' = Tail(fwd)
                  /\ epos < gpos
                  /\ active' = [active EXCEPT ![gate.c] = ActiveOf(epos, CiphertextOf(epos))]
<1> DEFINE gate == gates[epos]
<1>1. /\ TypeOK /\ panicked = {} /\ epos \in Nat /\ Len(gates) \in Nat
      /\ epos \in 1 .. Len(gates) + 1 /\ DOMAIN gates = 1 .. Len(gates)
  BY AlignedBoth, Positions DEF IInv
<1>2. epos \in 1 .. Len(gates)
  BY <1>1 DEF EvaluateGate, EvaluatorDone
<1>3. eindex = epos - 1 /\ eindex' = eindex + 1
  BY <1>1 DEF TypeOK, EvaluateGate
<1>4. UNCHANGED <<gates, seed, label0, gpos, gindex, cts, hashed, ended>>
  BY DEF EvaluateGate, garbler
<1>5. CASE ~NeedsCiphertext(gate)
  BY <1>1, <1>2, <1>3, <1>4, <1>5 DEF EvaluateGate, ActiveOf, Degarbled
<1>6. CASE NeedsCiphertext(gate)
  <2>1. fwd # <<>> => Head(fwd).ct = CiphertextOf(epos) /\ epos < gpos
    BY <1>1, <1>2, <1>6, FirstUnderWay
  <2>2. fwd = <<>> => ~ended
    BY <1>1, <1>2, <1>6, FirstUnderWay
  <2>3. fwd # <<>> /\ fwd' = Tail(fwd) /\ epos' = epos + 1 /\ panicked' = panicked
    BY <1>6, <2>2 DEF EvaluateGate
  <2>4. IsLive(gate)
    BY <1>6 DEF NeedsCiphertext
  <2>5. active' = [active EXCEPT ![gate.c] = ActiveOf(epos, CiphertextOf(epos))]
    BY <1>3, <1>6, <2>1, <2>3, <2>4 DEF EvaluateGate, ActiveOf, Degarbled
  <2> QED BY <1>1, <1>2, <1>3, <1>4, <1>6, <2>1, <2>3, <2>4, <2>5
<1> QED BY <1>5, <1>6

(* Active labels computed before do not change.                            *)
LEMMA EvaluatorKeeps ==
  ASSUME IInv, EvaluateGate
  PROVE  /\ \A w \in Wires : w # gates[epos].c => active'[w] = active[w]
         /\ \A w \in Wires : w \in WrittenBefore(gates, epos) => active'[w] = active[w]
         /\ \A n \in 1 .. epos : ActiveOf(n, NoCiphertext)' = ActiveOf(n, NoCiphertext)
<1>1. TypeOK /\ epos \in 1 .. Len(gates) /\ gates \in Circuits /\ DOMAIN gates = 1 .. Len(gates)
      /\ Len(gates) \in Nat /\ gates' = gates
  BY EvaluatorEffect, Positions DEF IInv
<1>2. active \in [Wires -> Active \cup {Nothing}]
  BY <1>1 DEF TypeOK, Active
<1>3. \A w \in Wires : w # gates[epos].c => active'[w] = active[w]
  BY <1>2, EvaluatorEffect DEF NeedsCiphertext
<1>4. \A w \in Wires : w \in WrittenBefore(gates, epos) => active'[w] = active[w]
  BY <1>1, <1>3, GateWires, EvaluatorEffect DEF NeedsCiphertext
<1>5. ASSUME NEW n \in 1 .. epos
      PROVE  ActiveOf(n, NoCiphertext)' = ActiveOf(n, NoCiphertext)
  <2>1. WrittenBefore(gates, n) \subseteq WrittenBefore(gates, epos)
    BY <1>1, WrittenGrows
  <2>2. n \in DOMAIN gates
    BY <1>1
  <2>3. active'[gates[n].a] = active[gates[n].a] /\ active'[gates[n].b] = active[gates[n].b]
    BY <1>1, <1>4, <2>1, <2>2, GateWires
  <2> QED BY <1>1, <2>3 DEF ActiveOf
<1> QED BY <1>3, <1>4, <1>5

(* What the wire of the gate gets, whichever kind of gate it is.           *)
LEMMA EvaluatorWrites ==
  ASSUME IInv, EvaluateGate, IsLive(gates[epos])
  PROVE  \E ct : /\ active' = [active EXCEPT ![gates[epos].c] = ActiveOf(epos, ct)]
                 /\ gates[epos].g \in FreeGates \/ (epos < gpos /\ ct = CiphertextOf(epos))
                 /\ ActiveOf(epos, ct) \in Active
<1> DEFINE gate == gates[epos]
<1>1. /\ TypeOK /\ Garbled /\ Evaluated /\ epos \in 1 .. Len(gates) /\ epos \in DOMAIN gates
      /\ gates \in Circuits /\ Len(gates) \in Nat /\ epos \in 1 .. epos
      /\ gpos \in 1 .. Len(gates) + 1
  BY EvaluatorEffect, Positions DEF IInv
<1>2. /\ active[gate.a] \in Active /\ active[gate.b] \in Active
      /\ gate.g \in GateTypes /\ epos - 1 \in 0 .. MaxGates
  BY <1>1, EvaluatorKnows, GateWires
<1>3. CASE NeedsCiphertext(gate)
  <2>1. epos < gpos /\ active' = [active EXCEPT ![gate.c] = ActiveOf(epos, CiphertextOf(epos))]
    BY <1>3, EvaluatorEffect
  <2>2. CiphertextOf(epos) \in Labels
    BY <1>1, <1>3, <2>1, GarblerKnows
  <2>3. ActiveOf(epos, CiphertextOf(epos)) \in Active
    BY <1>2, <2>2, DegarbledType DEF ActiveOf
  <2> QED BY <2>1, <2>3
<1>4. CASE ~NeedsCiphertext(gate)
  <2>1. gate.g \in FreeGates
    BY <1>4 DEF NeedsCiphertext
  <2>2. active' = [active EXCEPT ![gate.c] = ActiveOf(epos, NoCiphertext)]
    BY <1>4, EvaluatorEffect
  <2>3. ActiveOf(epos, NoCiphertext) \in Active
    BY <1>2, <2>1, DegarbledType DEF ActiveOf
  <2> QED BY <2>1, <2>2, <2>3
<1> QED BY <1>3, <1>4

(* A step of the evaluator, one lemma for each part of the invariant.      *)
LEMMA EvaluatorTypes == IInv /\ EvaluateGate => TypeOK'
<1> SUFFICES ASSUME IInv, EvaluateGate PROVE TypeOK'
  OBVIOUS
<1> DEFINE gate == gates[epos]
<1>1. /\ TypeOK /\ panicked = {} /\ epos \in 1 .. Len(gates) /\ Len(gates) \in Nat
      /\ epos' = epos + 1 /\ eindex' = epos
      /\ UNCHANGED <<gates, seed, label0, gpos, gindex, cts, hashed, ended, panicked>>
  BY EvaluatorEffect, AlignedBoth, Positions DEF IInv
<1>2. active' \in [Wires -> Active \cup {Nothing}]
  <2>1. active \in [Wires -> Active \cup {Nothing}]
    BY <1>1 DEF TypeOK, Active
  <2>2. CASE IsLive(gate)
    BY <2>1, <2>2, EvaluatorWrites
  <2>3. CASE ~IsLive(gate)
    BY <2>1, <2>3, EvaluatorEffect
  <2> QED BY <2>2, <2>3
<1>3. fwd' \in Way
  <2>1. fwd \in Way
    BY <1>1, WayType
  <2>2. fwd # <<>> => Tail(fwd) \in Way
    BY <2>1 DEF Way
  <2> QED BY <2>1, <2>2, EvaluatorEffect
<1>4. /\ epos' \in 1 .. Len(gates) + 1
      /\ eindex' = epos' - 1 + (IF "evaluator" \in panicked' THEN 1 ELSE 0)
  BY <1>1
<1>5. {cts', fwd'} \subseteq Seq([gate : DOMAIN gates', ct : Labels])
  BY <1>1, <1>3, WayType DEF Way
<1> QED BY Zenon, <1>1, <1>2, <1>4, <1>5 DEF TypeOK, Active

(* The gate it was at is now evaluated, without a ciphertext if the        *)
(* garbler has yet to come.                                                *)
LEMMA EvaluatorEvaluated == IInv /\ EvaluateGate => Evaluated'
<1> SUFFICES ASSUME IInv, EvaluateGate PROVE Evaluated'
  OBVIOUS
<1> DEFINE gate == gates[epos]
<1>1. /\ TypeOK /\ Evaluated /\ epos \in 1 .. Len(gates) /\ epos \in Nat \ {0}
      /\ gates \in Circuits /\ DOMAIN gates = 1 .. Len(gates) /\ Len(gates) \in Nat
      /\ epos \in DOMAIN gates /\ gpos \in 1 .. Len(gates) + 1
      /\ gates' = gates /\ gpos' = gpos /\ epos' = epos + 1
  BY EvaluatorEffect, Positions DEF IInv
<1>2. WrittenBefore(gates, epos + 1) = WrittenBefore(gates, epos) \cup {gate.c}
  BY <1>1, WrittenNext
<1>3. active \in [Wires -> Active \cup {Nothing}] /\ Nothing \notin Active
  BY <1>1, NothingNoLabel DEF TypeOK, Active
<1>4. IsLive(gate) => gate.c \in Wires /\ active'[gate.c] \in Active
  BY <1>1, <1>3, GateWires, EvaluatorWrites
<1>5. ~IsLive(gate) => gate.c \notin Wires
  BY StreamAssumption DEF IsLive
<1>6. ASSUME NEW w \in Wires PROVE active'[w] # Nothing <=> w \in WrittenBefore(gates, epos + 1)
  <2>1. CASE w = gate.c
    BY <1>2, <1>3, <1>4, <1>5, <2>1
  <2>2. CASE w # gate.c
    BY <1>1, <1>2, <2>2, EvaluatorKeeps DEF Evaluated
  <2> QED BY <2>1, <2>2
<1>7. ASSUME NEW n \in gpos .. epos
      PROVE  /\ ~NeedsCiphertext(gates[n])
             /\ IsLive(gates[n]) => active'[gates[n].c] = ActiveOf(n, NoCiphertext)'
  <2>1. CASE n = epos
    <3>1. ~NeedsCiphertext(gate)
      BY <1>1, <2>1, EvaluatorEffect
    <3>2. IsLive(gate) => active'[gate.c] = ActiveOf(epos, NoCiphertext)
      BY <1>3, <1>4, <3>1, EvaluatorEffect
    <3>3. ActiveOf(n, NoCiphertext)' = ActiveOf(n, NoCiphertext)
      BY <1>1, <2>1, EvaluatorKeeps
    <3> QED BY <2>1, <3>1, <3>2, <3>3
  <2>2. CASE n # epos
    <3>1. n \in gpos .. epos - 1 /\ n \in 1 .. epos /\ n \in DOMAIN gates
      BY <1>1, <2>2
    <3>2. ~NeedsCiphertext(gates[n]) /\ (IsLive(gates[n]) => active[gates[n].c] = ActiveOf(n, NoCiphertext))
      BY <1>1, <3>1 DEF Evaluated
    <3>3. IsLive(gates[n]) => gates[n].c # gate.c /\ gates[n].c \in Wires
      BY <1>1, <2>2, <3>1, WritesOnce, GateWires DEF IsLive
    <3> QED BY <3>1, <3>2, <3>3, EvaluatorKeeps
  <2> QED BY <2>1, <2>2
<1>8. (epos + 1) - 1 = epos
  BY <1>1
<1> QED BY <1>1, <1>6, <1>7, <1>8 DEF Evaluated

(* If the garbler has been at this gate, the ciphertext taken was the      *)
(* gate's own.                                                             *)
LEMMA EvaluatorAgrees == IInv /\ EvaluateGate => LabelsAgree'
<1> SUFFICES ASSUME IInv, EvaluateGate, NEW w \in Wires, label0'[w] # Nothing, active'[w] # Nothing
             PROVE  active'[w].label = Select(label0'[w], seed'.delta, active'[w].value)
  BY DEF LabelsAgree
<1> DEFINE gate == gates[epos]
<1>1. /\ TypeOK /\ Garbled /\ Evaluated /\ LabelsAgree
      /\ gates \in Circuits /\ DOMAIN gates = 1 .. Len(gates) /\ Len(gates) \in Nat
      /\ epos \in DOMAIN gates /\ epos \in 1 .. Len(gates) /\ epos \in 1 .. epos
      /\ gpos \in 1 .. Len(gates) + 1
      /\ label0' = label0 /\ seed' = seed /\ seed.delta \in Labels
  BY EvaluatorEffect, Positions DEF IInv
<1>2. CASE w # gate.c
  BY <1>1, <1>2, EvaluatorKeeps DEF LabelsAgree
<1>3. CASE w = gate.c
  <2>1. IsLive(gate) /\ w \notin WrittenBefore(gates, epos)
    BY <1>1, <1>3, GateWires, StreamAssumption DEF IsLive
  <2>2. w \in WrittenBefore(gates, gpos)
    BY <1>1 DEF Garbled
  <2>3. epos < gpos
    <3>1. gpos <= epos => WrittenBefore(gates, gpos) \subseteq WrittenBefore(gates, epos)
      BY <1>1, WrittenGrows
    <3> QED BY <1>1, <2>1, <2>2, <3>1
  <2>4. label0[w] = LabelOf(epos)
    BY <1>1, <1>3, <2>1, <2>3 DEF Garbled
  <2>5. PICK ct : /\ active' = [active EXCEPT ![gate.c] = ActiveOf(epos, ct)]
                  /\ gate.g \in FreeGates \/ ct = CiphertextOf(epos)
    BY <2>1, EvaluatorWrites
  <2>6. gate.g \in GateTypes /\ gate.a \in Wires /\ gate.b \in Wires /\ epos - 1 \in 0 .. MaxGates
    BY <1>1, GateWires
  <2>7. label0[gate.a] \in Labels /\ label0[gate.b] \in Labels
    BY <1>1, <2>3, GarblerKnows
  <2>8. active[gate.a] \in Active /\ active[gate.b] \in Active
    BY <1>1, EvaluatorKnows
  <2>9. /\ Agrees(active[gate.a], label0[gate.a], seed.delta)
        /\ Agrees(active[gate.b], label0[gate.b], seed.delta)
    BY <1>1, <2>6, <2>7, <2>8, NothingNoLabel DEF LabelsAgree, Agrees, Active
  <2>10. Agrees(ActiveOf(epos, ct), LabelOf(epos), seed.delta)
    BY <1>1, <2>5, <2>6, <2>7, <2>8, <2>9, GateAgrees DEF ActiveOf, LabelOf, CiphertextOf
  <2>11. active'[w] = ActiveOf(epos, ct)
    BY <1>1, <1>3, <2>5 DEF TypeOK
  <2> QED BY <1>1, <2>4, <2>10, <2>11 DEF Agrees
<1> QED BY <1>2, <1>3

(* The first ciphertext under way is taken, or none is needed.             *)
LEMMA EvaluatorAligned == IInv /\ EvaluateGate => Aligned' /\ InTransit'
<1> SUFFICES ASSUME IInv, EvaluateGate PROVE Aligned' /\ InTransit'
  OBVIOUS
<1> DEFINE gate == gates[epos]
           T == [gate : DOMAIN gates, ct : Labels]
<1>1. /\ TypeOK /\ InTransit /\ Aligned
      /\ epos \in 1 .. Len(gates) /\ gpos \in 1 .. Len(gates) + 1 /\ Len(gates) \in Nat
      /\ DOMAIN gates = 1 .. Len(gates) /\ epos \in DOMAIN gates
      /\ gates' = gates /\ gpos' = gpos /\ epos' = epos + 1 /\ cts' = cts
      /\ seed' = seed /\ label0' = label0
  BY EvaluatorEffect, Positions, AlignedBoth DEF IInv
<1>2. /\ cts \in Seq(T) /\ fwd \in Seq(T) /\ Len(UnderWay) \in Nat
      /\ DOMAIN UnderWay = 1 .. Len(UnderWay)
  BY <1>1, WayType DEF Way
<1>3. \A n \in DOMAIN gates : CiphertextOf(n)' = CiphertextOf(n)
  BY <1>1 DEF CiphertextOf
<1>4. CASE NeedsCiphertext(gate)
  <2>1. fwd # <<>> /\ fwd' = Tail(fwd) /\ Head(fwd).gate = epos /\ epos < gpos
    BY <1>1, <1>4, EvaluatorEffect, FirstUnderWay
  <2>2. /\ Tail(fwd) \in Seq(T)
        /\ Head(fwd) = (fwd \o cts)[1]
        /\ Len(fwd \o cts) = Len(Tail(fwd) \o cts) + 1
        /\ \A i \in 1 .. Len(Tail(fwd) \o cts) : (Tail(fwd) \o cts)[i] = (fwd \o cts)[i + 1]
    <3> HIDE DEF T
    <3> QED BY <1>2, <2>1, TakesFirst
  <2>3. Tail(fwd) \o cts \in Seq(T)
    <3> HIDE DEF T
    <3> QED BY <1>2, <2>2
  <2>4. UnderWay' = Tail(fwd) \o cts
    BY <1>1, <2>1 DEF UnderWay
  <2>5. /\ DOMAIN UnderWay' = 1 .. Len(UnderWay) - 1 /\ Len(UnderWay) >= 1
        /\ \A i \in 1 .. Len(UnderWay) - 1 : UnderWay'[i] = UnderWay[i + 1]
        /\ UnderWay[1].gate = epos
    <3> HIDE DEF T
    <3>1. Len(Tail(fwd) \o cts) \in Nat /\ DOMAIN (Tail(fwd) \o cts) = 1 .. Len(Tail(fwd) \o cts)
      BY <2>3
    <3>2. Len(Tail(fwd) \o cts) = Len(UnderWay) - 1
      BY <1>2, <2>2, <3>1 DEF UnderWay
    <3> QED BY <2>1, <2>2, <2>4, <3>1, <3>2 DEF UnderWay
  <2>6. Ascending(UnderWay)'
    <3>1. ASSUME NEW i \in DOMAIN UnderWay', NEW j \in DOMAIN UnderWay', i < j
          PROVE  UnderWay'[i].gate < UnderWay'[j].gate
      <4>1. /\ i + 1 \in DOMAIN UnderWay /\ j + 1 \in DOMAIN UnderWay /\ i + 1 < j + 1
            /\ UnderWay'[i] = UnderWay[i + 1] /\ UnderWay'[j] = UnderWay[j + 1]
        BY <1>2, <2>5, <3>1
      <4> QED BY <1>1, <4>1 DEF Aligned, Ascending
    <3> QED BY <3>1 DEF Ascending
  <2>7. Needing' = Needing \ {epos}
    BY <1>1, <2>1 DEF Needing
  <2>8. ASSUME NEW i \in DOMAIN UnderWay, i # 1 PROVE UnderWay[i].gate # epos
    <3>1. 1 \in DOMAIN UnderWay /\ 1 < i
      BY <1>2, <2>5, <2>8
    <3>2. UnderWay[1].gate < UnderWay[i].gate
      BY <1>1, <3>1 DEF Aligned, Ascending
    <3> QED BY <1>1, <2>5, <3>2
  <2>9. {UnderWay'[i].gate : i \in DOMAIN UnderWay'}
          = {UnderWay[i].gate : i \in DOMAIN UnderWay} \ {epos}
    <3>1. ASSUME NEW i \in DOMAIN UnderWay'
          PROVE  /\ UnderWay'[i].gate \in {UnderWay[j].gate : j \in DOMAIN UnderWay}
                 /\ UnderWay'[i].gate # epos
      <4>1. i + 1 \in DOMAIN UnderWay /\ UnderWay'[i] = UnderWay[i + 1] /\ i + 1 # 1
        BY <1>2, <2>5
      <4> QED BY <1>1, <2>8, <4>1
    <3>2. ASSUME NEW j \in DOMAIN UnderWay, UnderWay[j].gate # epos
          PROVE  \E i \in DOMAIN UnderWay' : UnderWay'[i].gate = UnderWay[j].gate
      <4>1. j - 1 \in DOMAIN UnderWay' /\ (j - 1) + 1 = j
        BY <1>2, <2>5, <3>2
      <4> QED BY <2>5, <4>1
    <3> QED BY <3>1, <3>2
  <2>10. InTransit'
    <3>1. ASSUME NEW i \in DOMAIN UnderWay', NEW n \in DOMAIN gates, UnderWay'[i].gate = n
          PROVE  UnderWay'[i].ct = CiphertextOf(n)'
      <4>1. i + 1 \in DOMAIN UnderWay /\ UnderWay'[i] = UnderWay[i + 1]
        BY <1>2, <2>5
      <4> QED BY <1>1, <1>3, <3>1, <4>1 DEF InTransit
    <3> QED BY <1>1, <3>1 DEF InTransit
  <2> QED BY <1>1, <2>6, <2>7, <2>9, <2>10 DEF Aligned
<1>5. CASE ~NeedsCiphertext(gate)
  <2>1. UnderWay' = UnderWay
    BY <1>1, <1>5, EvaluatorEffect DEF UnderWay
  <2>2. Needing' = Needing
    BY <1>1, <1>5 DEF Needing
  <2> QED BY <1>1, <1>3, <2>1, <2>2 DEF Aligned, Ascending, InTransit
<1> QED BY <1>4, <1>5

(* A step of the evaluator keeps the invariant.                            *)
LEMMA EvaluatorInv == IInv /\ EvaluateGate => IInv'
<1> SUFFICES ASSUME IInv, EvaluateGate PROVE IInv'
  OBVIOUS
<1>1. UNCHANGED <<gates, seed, label0, gpos, cts, ended, panicked>>
  BY EvaluatorEffect
<1>2. Garbled'
  BY <1>1 DEF IInv, Garbled, LabelOf
<1>3. Ending' /\ NoPanic'
  BY <1>1 DEF IInv, Ending, GarblerDone, NoPanic
<1> QED BY <1>2, <1>3, EvaluatorTypes, EvaluatorEvaluated, EvaluatorAgrees, EvaluatorAligned,
           AlignedNext DEF IInv

(* The invariant is inductive.                                             *)
LEMMA StepInv == IInv /\ [Next]_vars => IInv'
BY GarblerInv, ForwardInv, EndProxyInv, EvaluatorInv, StutterInv DEF Next

(* And it holds at first: it always holds.                                 *)
LEMMA Invariance == Spec => []IInv
BY InitInv, StepInv, PTL DEF Spec

(* Every variable keeps its type, for every circuit, seed, group of labels *)
(* and hash: in particular each half counts its own gates and no other.    *)
THEOREM StreamTypeOK == Spec => []TypeOK
<1>1. IInv => TypeOK
  BY DEF IInv
<1> QED BY <1>1, Invariance, PTL

(* The evaluator of a circuit holds, for every wire both sides know, the   *)
(* garbler's label of the wire's value, whichever side is ahead.           *)
THEOREM StreamLabelsAgree == Spec => []LabelsAgree
<1>1. IInv => LabelsAgree
  BY DEF IInv
<1> QED BY <1>1, Invariance, PTL

(* The ciphertexts under way are those of the gates between the two sides, *)
(* in their order, although neither side numbers them for the other.       *)
THEOREM StreamIsAligned == Spec => []StreamAligned
<1>1. IInv => StreamAligned
  BY DEF IInv
<1> QED BY <1>1, Invariance, PTL

(* `EvaluateMode` never finds its source exhausted, and the proxy never    *)
(* sends to an evaluator that has returned.                                *)
THEOREM StreamNoPanic == Spec => []NoPanic
<1>1. IInv => NoPanic
  BY DEF IInv
<1> QED BY <1>1, Invariance, PTL
-----------------------------------------------------------------------------
(* Induction, for a set in place of a predicate.                           *)
LEMMA SetInduction ==
  ASSUME NEW S, 0 \in S, \A n \in Nat : n \in S => n + 1 \in S
  PROVE  Nat \subseteq S
<1> DEFINE T == Nat \ S
<1> SUFFICES ASSUME T # {} PROVE FALSE
  OBVIOUS
<1>1. PICK x \in T : \A y \in T : ~ (<<y, x>> \in OpToRel(<, Nat))
  BY NatLessThanWellFounded, WFMin, T \subseteq Nat
<1>2. x # 0 /\ x - 1 \in Nat /\ x - 1 < x /\ (x - 1) + 1 = x
  OBVIOUS
<1>3. x - 1 \in T
  BY <1>2
<1> QED
  BY <1>1, <1>2, <1>3 DEF OpToRel

(* What the recursion of FirstPass says of a function up to gate N.        *)
Initially == [labels |-> GivenLabels, cts |-> <<>>]
IsPass(f, N) == f = [n \in 0 .. N |-> IF n = 0 THEN Initially ELSE Garble(n, f[n - 1])]

(* There is such a function for every length ...                           *)
LEMMA PassExists == \A N \in Nat : \E f : IsPass(f, N)
<1> DEFINE S == {N \in Nat : \E f : IsPass(f, N)}
<1>1. 0 \in S
  <2> DEFINE f == [n \in 0 .. 0 |-> Initially]
  <2>1. IsPass(f, 0)
    BY DEF IsPass
  <2> QED BY <2>1
<1>2. ASSUME NEW N \in Nat, N \in S PROVE N + 1 \in S
  <2>1. PICK f : IsPass(f, N)
    BY <1>2
  <2> DEFINE g == [n \in 0 .. N + 1 |-> IF n = 0 THEN Initially ELSE Garble(n, f[n - 1])]
  <2>2. \A n \in 0 .. N : g[n] = f[n]
    BY <2>1 DEF IsPass
  <2>3. \A n \in 0 .. N + 1 : n # 0 => g[n - 1] = f[n - 1]
    BY <2>2
  <2>4. g = [n \in 0 .. N + 1 |-> IF n = 0 THEN Initially ELSE Garble(n, g[n - 1])]
    <3>1. \A n \in 0 .. N + 1 : g[n] = IF n = 0 THEN Initially ELSE Garble(n, g[n - 1])
      BY <2>3
    <3> HIDE DEF g
    <3>2. g = [n \in 0 .. N + 1 |-> g[n]]
      BY DEF g
    <3> QED BY <3>1, <3>2
  <2>5. IsPass(g, N + 1)
    BY <2>4 DEF IsPass
  <2> QED BY <2>5
<1> HIDE DEF S
<1>3. Nat \subseteq S
  BY <1>1, <1>2, SetInduction
<1> QED BY <1>3 DEF S

(* ... so FirstPass is one.                                                *)
LEMMA FirstPassIs == gates \in Circuits => IsPass(FirstPass, Len(gates))
<1> SUFFICES ASSUME gates \in Circuits PROVE IsPass(FirstPass, Len(gates))
  OBVIOUS
<1>1. \E f : IsPass(f, Len(gates))
  BY PassExists, CircuitSeq
<1>2. FirstPass = CHOOSE f : IsPass(f, Len(gates))
  BY DEF FirstPass, IsPass, Initially
<1> QED BY <1>1, <1>2

(* The second garbling does not change what the first one was.             *)
LEMMA SamePass == gates' = gates /\ seed' = seed => FirstPass' = FirstPass
BY DEF FirstPass, Garble, GivenLabels

(* What it is after each gate.                                             *)
LEMMA FirstPassStep ==
  ASSUME gates \in Circuits
  PROVE  /\ FirstPass[0] = Initially
         /\ \A n \in 1 .. Len(gates) : FirstPass[n] = Garble(n, FirstPass[n - 1])
<1>1. IsPass(FirstPass, Len(gates)) /\ Len(gates) \in Nat
  BY FirstPassIs, CircuitSeq
<1>2. FirstPass = [n \in 0 .. Len(gates) |->
                     IF n = 0 THEN Initially ELSE Garble(n, FirstPass[n - 1])]
  BY <1>1 DEF IsPass
<1>3. \A n \in 0 .. Len(gates) :
        FirstPass[n] = IF n = 0 THEN Initially ELSE Garble(n, FirstPass[n - 1])
  <2> DEFINE e(n) == IF n = 0 THEN Initially ELSE Garble(n, FirstPass[n - 1])
  <2>1. FirstPass = [n \in 0 .. Len(gates) |-> e(n)]
    BY <1>2
  <2> HIDE DEF e
  <2>2. \A n \in 0 .. Len(gates) : FirstPass[n] = e(n)
    BY <2>1
  <2> QED BY <2>2 DEF e
<1> QED BY <1>1, <1>3

(* The ciphertext of gate n in the first pass, and all of them up to it.   *)
PassGate(n) ==
  GarbleCiphertext(gates[n].g, FirstPass[n - 1].labels[gates[n].a],
                   FirstPass[n - 1].labels[gates[n].b], seed.delta, n - 1)
Streamed == {PassGate(n) : n \in 1 .. Len(gates)}
Upto(n) == FirstPass[n].cts

(* Ciphertexts are only added, at the end.                                 *)
LEMMA UptoNext ==
  ASSUME gates \in Circuits
  PROVE  /\ Upto(0) = <<>>
         /\ \A n \in 1 .. Len(gates) :
              /\ NeedsCiphertext(gates[n]) => Upto(n) = Append(Upto(n - 1), PassGate(n))
              /\ ~NeedsCiphertext(gates[n]) => Upto(n) = Upto(n - 1)
<1>1. Upto(0) = <<>>
  BY FirstPassStep DEF Upto, Initially
<1>2. ASSUME NEW n \in 1 .. Len(gates)
      PROVE  Upto(n) = IF NeedsCiphertext(gates[n]) THEN Append(Upto(n - 1), PassGate(n))
                                                   ELSE Upto(n - 1)
  <2>1. FirstPass[n] = Garble(n, FirstPass[n - 1])
    BY FirstPassStep
  <2>2. Garble(n, FirstPass[n - 1]).cts =
          IF NeedsCiphertext(gates[n]) THEN Append(FirstPass[n - 1].cts, PassGate(n))
                                       ELSE FirstPass[n - 1].cts
    BY DEF Garble, PassGate
  <2> QED BY <2>1, <2>2 DEF Upto
<1> QED BY <1>1, <1>2

(* They form a sequence.                                                   *)
LEMMA UptoType ==
  ASSUME gates \in Circuits
  PROVE  \A n \in 0 .. Len(gates) : Upto(n) \in Seq(Streamed)
<1> DEFINE S == {k \in Nat : k <= Len(gates) => Upto(k) \in Seq(Streamed)}
<1>1. Len(gates) \in Nat
  BY CircuitSeq
<1>2. 0 \in S
  <2>1. Upto(0) = <<>>
    BY UptoNext
  <2>2. Upto(0) \in Seq(Streamed)
    BY <2>1, EmptySeq
  <2> QED BY <2>2
<1>3. ASSUME NEW k \in Nat, k \in S PROVE k + 1 \in S
  <2>1. SUFFICES ASSUME k + 1 <= Len(gates) PROVE Upto(k + 1) \in Seq(Streamed)
    OBVIOUS
  <2>2. k + 1 \in 1 .. Len(gates) /\ (k + 1) - 1 = k /\ Upto(k) \in Seq(Streamed)
    BY <1>1, <1>3, <2>1
  <2>3. PassGate(k + 1) \in Streamed
    BY <2>2 DEF Streamed
  <2> HIDE DEF S
  <2>4. Upto(k + 1) = Append(Upto(k), PassGate(k + 1)) \/ Upto(k + 1) = Upto(k)
    BY <2>2, UptoNext
  <2> QED BY <2>2, <2>3, <2>4
<1> HIDE DEF S
<1>4. Nat \subseteq S
  BY <1>2, <1>3, SetInduction
<1> QED BY <1>1, <1>4 DEF S

(* The ciphertexts up to some gate are the beginning of those committed to.*)
Begins(s, t) == Len(s) <= Len(t) /\ \A i \in 1 .. Len(s) : s[i] = t[i]

LEMMA UptoBegins ==
  ASSUME gates \in Circuits, NEW n \in 0 .. Len(gates)
  PROVE  Begins(Upto(n), Committed)
<1> DEFINE S == {k \in Nat : n + k <= Len(gates) => Begins(Upto(n), Upto(n + k))}
<1>1. Len(gates) \in Nat /\ n \in Nat /\ Len(Upto(n)) \in Nat
  BY CircuitSeq, UptoType
<1>2. 0 \in S
  BY <1>1 DEF Begins
<1>3. ASSUME NEW k \in Nat, k \in S PROVE k + 1 \in S
  <2>1. SUFFICES ASSUME n + (k + 1) <= Len(gates) PROVE Begins(Upto(n), Upto(n + (k + 1)))
    OBVIOUS
  <2> DEFINE m == n + k
  <2>2. /\ m + 1 \in 1 .. Len(gates) /\ (m + 1) - 1 = m /\ m \in 0 .. Len(gates)
        /\ n + (k + 1) = m + 1 /\ Begins(Upto(n), Upto(m))
    BY <1>1, <1>3, <2>1
  <2> HIDE DEF S, m
  <2>3. Upto(m) \in Seq(Streamed) /\ Upto(n) \in Seq(Streamed)
    BY <2>2, UptoType
  <2>4. Upto(m + 1) = Append(Upto(m), PassGate(m + 1)) \/ Upto(m + 1) = Upto(m)
    BY <2>2, UptoNext
  <2>5. Begins(Upto(n), Upto(m + 1))
    BY SMTT(30), <2>2, <2>3, <2>4 DEF Begins
  <2> QED BY <2>2, <2>5
<1> HIDE DEF S
<1>4. Nat \subseteq S
  BY <1>2, <1>3, SetInduction
<1>5. Len(gates) - n \in Nat /\ n + (Len(gates) - n) = Len(gates)
  BY <1>1
<1>6. Begins(Upto(n), Upto(n + (Len(gates) - n)))
  <2>1. Len(gates) - n \in S
    BY <1>4, <1>5
  <2> QED BY <1>1, <1>5, <2>1 DEF S
<1>7. Committed = Upto(Len(gates))
  BY DEF Committed, Upto
<1> QED BY <1>5, <1>6, <1>7

(* Both garblings are at the same labels, and the ciphertexts of the second*)
(* are hashed or still under way.                                          *)
Sent(s) == [i \in DOMAIN s |-> s[i].ct]
Repeated ==
  /\ FirstPass[gpos - 1].labels = label0
  /\ Upto(gpos - 1) = hashed \o Sent(cts)

(* The ciphertexts of a channel, without the gates they are of, when one is*)
(* sent and when one is forwarded.                                         *)
LEMMA SentSeq ==
  ASSUME NEW T, \A t \in T : t.ct \in Labels, NEW s \in Seq(T)
  PROVE  /\ Sent(s) \in Seq(Labels)
         /\ Len(Sent(s)) = Len(s)
         /\ \A i \in 1 .. Len(s) : Sent(s)[i] = s[i].ct
<1>1. \A i \in DOMAIN s : s[i] \in T
  OBVIOUS
<1>2. DOMAIN s = 1 .. Len(s) /\ Len(s) \in Nat
  OBVIOUS
<1>3. Sent(s) \in [1 .. Len(s) -> Labels]
  BY <1>1, <1>2 DEF Sent
<1>4. Sent(s) \in Seq(Labels)
  BY <1>2, <1>3
<1> QED BY <1>2, <1>3, <1>4 DEF Sent

(* The second garbling starts as the first did ...                         *)
LEMMA RepeatedInit == Init => Repeated
<1> SUFFICES ASSUME Init PROVE Repeated
  OBVIOUS
<1>1. gates \in Circuits /\ gpos = 1 /\ label0 = GivenLabels /\ cts = <<>> /\ hashed = <<>>
  BY DEF Init
<1>2. gpos - 1 = 0
  BY <1>1
<1>3. Sent(<<>>) = <<>>
  BY DEF Sent
<1>4. <<>> \o <<>> = <<>>
  OBVIOUS
<1>5. FirstPass[0] = Initially /\ Upto(0) = <<>>
  BY <1>1, FirstPassStep, UptoNext
<1> QED BY <1>1, <1>2, <1>3, <1>4, <1>5 DEF Repeated, Initially

LEMMA SendsRepeated ==
  ASSUME NEW T, \A t \in T : t.ct \in Labels, NEW h \in Seq(Labels), NEW s \in Seq(T),
         NEW e \in T
  PROVE  h \o Sent(Append(s, e)) = Append(h \o Sent(s), e.ct)
<1>1. Append(s, e) \in Seq(T) /\ e.ct \in Labels /\ Len(Append(s, e)) = Len(s) + 1
      /\ Len(s) \in Nat
      /\ Append(s, e)[Len(s) + 1] = e /\ \A i \in 1 .. Len(s) : Append(s, e)[i] = s[i]
  OBVIOUS
<1>0. \A q \in Seq(T) : /\ Sent(q) \in Seq(Labels) /\ Len(Sent(q)) = Len(q)
                        /\ \A i \in 1 .. Len(q) : Sent(q)[i] = q[i].ct
  BY SentSeq
<1>2. Sent(Append(s, e)) = Append(Sent(s), e.ct)
  <2>1. Sent(Append(s, e)) \in Seq(Labels) /\ Len(Sent(Append(s, e))) = Len(s) + 1
        /\ \A i \in 1 .. Len(s) + 1 : Sent(Append(s, e))[i] = Append(s, e)[i].ct
    BY <1>0, <1>1
  <2>2. Sent(s) \in Seq(Labels) /\ Len(Sent(s)) = Len(s) /\ \A i \in 1 .. Len(s) : Sent(s)[i] = s[i].ct
    BY SentSeq
  <2>3. Append(Sent(s), e.ct) \in Seq(Labels) /\ Len(Append(Sent(s), e.ct)) = Len(s) + 1
        /\ Append(Sent(s), e.ct)[Len(s) + 1] = e.ct
        /\ \A i \in 1 .. Len(s) : Append(Sent(s), e.ct)[i] = Sent(s)[i]
    BY <1>1, <2>2
  <2>4. \A i \in 1 .. Len(s) + 1 : Sent(Append(s, e))[i] = Append(Sent(s), e.ct)[i]
    BY <1>1, <2>1, <2>2, <2>3
  <2> QED BY <1>1, <2>1, <2>3, <2>4, SeqEqual
<1>3. Sent(s) \in Seq(Labels)
  BY SentSeq
<1> QED BY <1>1, <1>2, <1>3

LEMMA ForwardsRepeated ==
  ASSUME NEW T, \A t \in T : t.ct \in Labels, NEW h \in Seq(Labels), NEW s \in Seq(T),
         s # <<>>
  PROVE  Append(h, Head(s).ct) \o Sent(Tail(s)) = h \o Sent(s)
<1>1. Tail(s) \in Seq(T) /\ Head(s) \in T /\ Head(s) = s[1] /\ Len(s) \in Nat /\ Len(s) > 0
      /\ Len(Tail(s)) = Len(s) - 1 /\ \A i \in 1 .. Len(s) - 1 : Tail(s)[i] = s[i + 1]
  OBVIOUS
<1>0. \A q \in Seq(T) : /\ Sent(q) \in Seq(Labels) /\ Len(Sent(q)) = Len(q)
                        /\ \A i \in 1 .. Len(q) : Sent(q)[i] = q[i].ct
  BY SentSeq
<1>2. Head(s).ct \in Labels
  BY <1>1
<1>3. /\ Sent(Tail(s)) \in Seq(Labels) /\ Len(Sent(Tail(s))) = Len(s) - 1
      /\ \A i \in 1 .. Len(s) - 1 : Sent(Tail(s))[i] = s[i + 1].ct
  <2>1. /\ Sent(Tail(s)) \in Seq(Labels) /\ Len(Sent(Tail(s))) = Len(Tail(s))
        /\ \A i \in 1 .. Len(Tail(s)) : Sent(Tail(s))[i] = Tail(s)[i].ct
    BY <1>0, <1>1
  <2>2. \A i \in 1 .. Len(s) - 1 : Tail(s)[i].ct = s[i + 1].ct
    BY <1>1
  <2> QED BY <1>1, <2>1, <2>2
<1>4. Sent(s) \in Seq(Labels) /\ Len(Sent(s)) = Len(s) /\ \A i \in 1 .. Len(s) : Sent(s)[i] = s[i].ct
  BY SentSeq
<1>5. Sent(s) # <<>> /\ Head(Sent(s)) = Head(s).ct
  BY <1>1, <1>4
<1>6. Tail(Sent(s)) = Sent(Tail(s))
  BY <1>1, <1>3, <1>4
<1> QED BY <1>4, <1>5, <1>6, ForwardsSame

(* ... and each of its gates is garbled as in the first.                   *)
LEMMA RepeatedStep == IInv /\ Repeated /\ [Next]_vars => Repeated'
<1> SUFFICES ASSUME IInv, Repeated, [Next]_vars PROVE Repeated'
  OBVIOUS
<1> DEFINE T == [gate : DOMAIN gates, ct : Labels]
<1>1. /\ TypeOK /\ gates \in Circuits /\ Len(gates) \in Nat /\ gpos \in 1 .. Len(gates) + 1
      /\ DOMAIN gates = 1 .. Len(gates)
      /\ hashed \in Seq(Labels) /\ cts \in Seq(T) /\ \A t \in T : t.ct \in Labels
  BY Positions, WayType DEF IInv, TypeOK, Way
<1>2. CASE GarbleGate
  <2>1. /\ gpos \in 1 .. Len(gates) /\ gpos' = gpos + 1 /\ gpos' - 1 = gpos
        /\ UNCHANGED <<gates, seed, hashed>> /\ FirstPass' = FirstPass
    BY <1>1, <1>2, GarblerEffect, SamePass
  <2>2. FirstPass[gpos] = Garble(gpos, FirstPass[gpos - 1])
    BY <1>1, <2>1, FirstPassStep
  <2>3. FirstPass[gpos].labels = label0'
    <3>1. Garble(gpos, FirstPass[gpos - 1]).labels =
            IF IsLive(gates[gpos]) THEN [label0 EXCEPT ![gates[gpos].c] = LabelOf(gpos)] ELSE label0
      BY DEF Repeated, Garble, LabelOf
    <3> QED BY <1>2, <2>2, <3>1, GarblerEffect
  <2>4. PassGate(gpos) = CiphertextOf(gpos)
    BY DEF Repeated, PassGate, CiphertextOf
  <2>5. Upto(gpos) = hashed \o Sent(cts')
    <3>1. CASE NeedsCiphertext(gates[gpos])
      <4> DEFINE e == [gate |-> gpos, ct |-> CiphertextOf(gpos)]
      <4>1. cts' = Append(cts, e)
        BY <1>2, <3>1, GarblerEffect
      <4>2. e \in T /\ e.ct = CiphertextOf(gpos)
        BY <1>1, <2>1, <3>1, GarblerKnows DEF IInv
      <4>3. Upto(gpos) = Append(hashed \o Sent(cts), e.ct)
        BY <1>1, <2>1, <2>4, <3>1, <4>2, UptoNext DEF Repeated
      <4> HIDE DEF e, T
      <4> QED BY <1>1, <4>1, <4>2, <4>3, SendsRepeated
    <3>2. CASE ~NeedsCiphertext(gates[gpos])
      BY <1>1, <1>2, <2>1, <3>2, UptoNext, GarblerEffect DEF Repeated
    <3> QED BY <3>1, <3>2
  <2> QED BY <2>1, <2>3, <2>5 DEF Repeated, Upto
<1>3. CASE Forward
  <2>1. cts # <<>> /\ cts' = Tail(cts) /\ gates' = gates /\ seed' = seed /\ gpos' = gpos /\ label0' = label0
    BY <1>3 DEF Forward, garbler
  <2>2. hashed' = Append(hashed, Head(cts).ct)
    <3>1. panicked' = {}
      BY <1>3, ForwardInv DEF IInv, NoPanic
    <3> QED BY <1>3, <3>1 DEF Forward, Absorb
  <2>3. hashed' \o Sent(cts') = hashed \o Sent(cts)
    <3> HIDE DEF T
    <3> QED BY <1>1, <2>1, <2>2, ForwardsRepeated
  <2> QED BY <2>1, <2>3, SamePass DEF Repeated, Upto
<1>4. ASSUME UNCHANGED <<gates, seed, gpos, label0, cts, hashed>> PROVE Repeated'
  BY <1>4, SamePass DEF Repeated, Upto
<1>5. CASE EndProxy
  BY <1>4, <1>5 DEF EndProxy, garbler
<1>6. CASE EvaluateGate
  BY <1>4, <1>6 DEF EvaluateGate, garbler
<1>7. CASE UNCHANGED vars
  BY <1>4, <1>7 DEF vars
<1> QED BY <1>2, <1>3, <1>5, <1>6, <1>7 DEF Next

(* So it is at every moment.                                               *)
LEMMA AlwaysRepeated == Spec => []Repeated
BY Invariance, RepeatedInit, RepeatedStep, PTL DEF Spec

(* The hash the proxy makes is of a beginning of what the garbler committed*)
(* to, of all of it once the proxy has returned, and the evaluator has then*)
(* used every ciphertext: whatever the circuit and the interleaving.       *)
THEOREM StreamHashesMatch == Spec => []HashesMatch
<1>1. IInv /\ Repeated => HashesMatch
  <2> SUFFICES ASSUME IInv, Repeated PROVE HashesMatch
    OBVIOUS
  <2> DEFINE T == [gate : DOMAIN gates, ct : Labels]
  <2>1. /\ TypeOK /\ gates \in Circuits /\ Len(gates) \in Nat /\ gpos \in 1 .. Len(gates) + 1
        /\ epos \in 1 .. Len(gates) + 1
        /\ hashed \in Seq(Labels) /\ cts \in Seq(T) /\ fwd \in Seq(T)
        /\ \A t \in T : t.ct \in Labels
    BY Positions, WayType DEF IInv, TypeOK, Way
  <2>2. /\ gpos - 1 \in 0 .. Len(gates) /\ Len(gates) \in 0 .. Len(gates)
    BY <2>1
  <2>3. /\ Begins(Upto(gpos - 1), Committed) /\ Committed \in Seq(Streamed)
        /\ Upto(gpos - 1) = hashed \o Sent(cts)
    BY <2>1, <2>2, UptoBegins, UptoType DEF Repeated, Committed, Upto
  <2>4. Sent(cts) \in Seq(Labels)
    <3> HIDE DEF T
    <3> QED BY <2>1, SentSeq
  <2>5. Begins(hashed, Committed)
    BY <2>1, <2>3, <2>4 DEF Begins
  <2>6. hashed = SubSeq(Committed, 1, Len(hashed))
    BY <2>1, <2>3, <2>5 DEF Begins
  <2>7. ASSUME ended, EvaluatorDone PROVE hashed = Committed /\ fwd = <<>>
    <3>1. cts = <<>> /\ gpos - 1 = Len(gates)
      BY <2>1, <2>7 DEF IInv, Ending, GarblerDone
    <3>2. Sent(cts) = <<>>
      BY <3>1 DEF Sent
    <3>3. hashed = Committed
      <4>1. hashed \o <<>> = hashed
        BY <2>1
      <4>2. Committed = Upto(gpos - 1)
        BY <3>1 DEF Committed, Upto
      <4> QED BY <2>3, <3>2, <4>1, <4>2
    <3>4. Needing = {}
      BY <2>1, <2>7 DEF Needing, EvaluatorDone
    <3>5. DOMAIN UnderWay = {}
      BY <3>4, AlignedBoth DEF Aligned
    <3>6. UnderWay = fwd \o <<>>
      BY <3>1 DEF UnderWay
    <3>7. fwd = <<>>
      <4> HIDE DEF T
      <4> QED BY <2>1, <3>5, <3>6
    <3> QED BY <3>3, <3>7
  <2> QED BY <2>5, <2>6, <2>7 DEF HashesMatch, Begins
<1> QED BY <1>1, Invariance, AlwaysRepeated, PTL
=============================================================================
