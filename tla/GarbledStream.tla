---------------------------- MODULE GarbledStream -----------------------------
(***************************************************************************)
(* Garbling and evaluation of one circuit over a stream of ciphertexts, as *)
(* examples/gsv_garble.rs wires them up: the garbler commits to the hash   *)
(* of its ciphertexts, then garbles the circuit again from the same seed   *)
(* into a channel; a proxy thread forwards each ciphertext to the          *)
(* evaluator and hashes it; the evaluator runs the same circuit on active  *)
(* labels.  The gates are those of GarbleMode and EvaluateMode             *)
(* (src/circuit/modes/garble_mode.rs, evaluate_mode.rs).                   *)
(*                                                                         *)
(* The two sides share no gate numbering but their own counters, and the   *)
(* channel carries bare labels: that the ciphertext the evaluator takes is *)
(* the one of the gate it is at is what the modes must get right.          *)
(*                                                                         *)
(* A circuit is the sequence of gates both closures emit, on wires written *)
(* once; slot recycling is StreamingCircuit's.                             *)
(***************************************************************************)
EXTENDS HalfGates, Sequences

CONSTANTS
  Circuits,     \* the circuits to garble, sequences of [g, a, b, c]
  Wires,        \* wire names
  Inputs,       \* those that are inputs
  Seeds,        \* what a seed's RNG draws: [delta, base]
  UNREACHABLE,  \* the output of a gate whose result nobody reads
  Nothing       \* a wire that has not been fed

FALSE_WIRE == 0
TRUE_WIRE == 1
Constants == {FALSE_WIRE, TRUE_WIRE}
Given == Constants \cup Inputs        \* wires that have labels from the start

WrittenBefore(gates, n) == Given \cup {gates[m].c : m \in 1 .. n - 1}

ASSUME StreamAssumption ==
  /\ Given \subseteq Wires
  /\ Inputs \cap Constants = {}
  /\ UNREACHABLE \notin Wires
  /\ Nothing \notin Labels \cup [label : Labels, value : BOOLEAN]
  /\ \A seed \in Seeds : seed.delta \in Labels /\ seed.base \in [Given -> Labels]
  /\ \A gates \in Circuits :
       /\ gates \in Seq([g : GateTypes, a : Wires, b : Wires, c : Wires \cup {UNREACHABLE}])
       /\ Len(gates) <= MaxGates
       /\ \A n \in DOMAIN gates :
            /\ {gates[n].a, gates[n].b} \subseteq WrittenBefore(gates, n)
            /\ gates[n].c \notin WrittenBefore(gates, n) \ {UNREACHABLE}

VARIABLES
  gates,     \* the circuit; never changes
  seed,      \* the garbler's; never changes
  label0,    \* GarbleMode.storage: label 0 of each wire
  gpos,      \* the next gate of the garbler's closure
  gindex,    \* GarbleMode.gate_index
  cts,       \* ciphertexts on their way to the proxy
  fwd,       \* ciphertexts on their way to the evaluator
  hashed,    \* what the proxy's hasher has absorbed
  ended,     \* the proxy has returned its hash and dropped its sender
  active,    \* EvaluateMode.storage: [label, value] of each wire
  epos,      \* the next gate of the evaluator's closure
  eindex,    \* EvaluateMode.gate_index
  panicked   \* the threads that have panicked

vars == <<gates, seed, label0, gpos, gindex, cts, fwd, hashed, ended,
          active, epos, eindex, panicked>>
garbler == <<label0, gpos, gindex>>
evaluator == <<active, epos, eindex>>

IsLive(gate) == gate.c # UNREACHABLE
NeedsCiphertext(gate) == IsLive(gate) /\ gate.g \notin FreeGates

(* Mutant: the entry of a gate is streamed although nobody reads its wire. *)
StreamsUnread(gate) == gate.g \notin FreeGates

(* Mutant: a gate on a constant is folded away, by the garbler only.       *)
SkipsConstants(gate) == NeedsCiphertext(gate) /\ {gate.a, gate.b} \cap Constants = {}

(* `stream_table_entry`, reached by reachable gates only.                  *)
StreamsEntry(gate) == NeedsCiphertext(gate)

GarblerDone == gpos > Len(gates)
EvaluatorDone == epos > Len(gates)

(* The garbler's label 0 of each wire before the first gate.               *)
GivenLabels == [w \in Wires |-> IF w \in Given THEN seed.base[w] ELSE Nothing]

Init ==
  /\ gates \in Circuits
  /\ seed \in Seeds
  /\ label0 = GivenLabels
  /\ \E value \in [Given -> BOOLEAN] :
       /\ value[FALSE_WIRE] = FALSE
       /\ value[TRUE_WIRE] = TRUE
       /\ active = [w \in Wires |->
                      IF w \in Given
                        THEN [label |-> Select(seed.base[w], seed.delta, value[w]),
                              value |-> value[w]]
                        ELSE Nothing]
  /\ gpos = 1 /\ epos = 1
  /\ gindex = 0 /\ eindex = 0
  /\ cts = <<>> /\ fwd = <<>> /\ hashed = <<>>
  /\ ended = FALSE
  /\ panicked = {}

(* Mutant: an unreachable gate does not advance the index, as the comment  *)
(* in GarbleMode has it (EvaluateMode still advances its own).             *)
GarblerSkips(gate) == IF IsLive(gate) THEN gindex + 1 ELSE gindex

(* `next_gate_index`: called for every gate, before C is looked at.        *)
GarblerIndex(gate) == gindex + 1

GarbleGate ==
  /\ ~GarblerDone
  /\ LET gate == gates[gpos]
         a0 == label0[gate.a]
         b0 == label0[gate.b]
     IN  /\ label0' = IF IsLive(gate)
                        THEN [label0 EXCEPT ![gate.c] =
                                GarbleLabel(gate.g, a0, b0, seed.delta, gindex)]
                        ELSE label0
         /\ cts' = IF StreamsEntry(gate)
                     THEN Append(cts, [gate |-> gpos,
                            ct |-> GarbleCiphertext(gate.g, a0, b0, seed.delta, gindex)])
                     ELSE cts
         /\ gindex' = GarblerIndex(gate)
  /\ gpos' = gpos + 1
  /\ UNCHANGED <<gates, seed, fwd, hashed, ended, evaluator, panicked>>

(* Mutant: a forwarded ciphertext is not hashed.                           *)
HashNothing(ct) == hashed

Absorb(ct) == Append(hashed, ct)

(* `proxy_sender.send(..).unwrap()` panics once the evaluator has returned *)
(* and dropped its receiver.                                               *)
Forward ==
  /\ ~ended
  /\ cts # <<>>
  /\ cts' = Tail(cts)
  /\ \/ /\ ~EvaluatorDone
        /\ fwd' = Append(fwd, Head(cts))
        /\ hashed' = Absorb(Head(cts).ct)
        /\ UNCHANGED <<ended, panicked>>
     \/ /\ EvaluatorDone
        /\ panicked' = panicked \cup {"proxy"}
        /\ ended' = TRUE
        /\ UNCHANGED <<fwd, hashed>>
  /\ UNCHANGED <<gates, seed, garbler, evaluator>>

(* The garbler has dropped its sender: `recv` fails and the proxy returns. *)
EndProxy ==
  /\ ~ended
  /\ cts = <<>>
  /\ GarblerDone
  /\ ended' = TRUE
  /\ UNCHANGED <<gates, seed, garbler, cts, fwd, hashed, evaluator, panicked>>

(* One gate of EvaluateMode.  Only a reachable gate that is not free takes *)
(* a ciphertext, and waits for it as long as the proxy holds its sender.   *)
EvaluateGate ==
  /\ ~EvaluatorDone
  /\ "evaluator" \notin panicked
  /\ LET gate == gates[epos]
         a == active[gate.a]
         b == active[gate.b]
         Step(ct) ==
           active' = IF IsLive(gate)
                       THEN [active EXCEPT ![gate.c] =
                               [label |-> Degarble(gate.g, ct, a.label, a.value, b.label, eindex),
                                value |-> Truth(gate.g, a.value, b.value)]]
                       ELSE active
     IN  \/ /\ ~NeedsCiphertext(gate)
            /\ Step(NoCiphertext)
            /\ epos' = epos + 1
            /\ UNCHANGED <<fwd, panicked>>
         \/ /\ NeedsCiphertext(gate)
            /\ fwd # <<>>
            /\ Step(Head(fwd).ct)
            /\ fwd' = Tail(fwd)
            /\ epos' = epos + 1
            /\ UNCHANGED panicked
         \/ /\ NeedsCiphertext(gate)
            /\ fwd = <<>>
            /\ ended
            /\ panicked' = panicked \cup {"evaluator"}
            /\ UNCHANGED <<active, fwd, epos>>
  /\ eindex' = eindex + 1
  /\ UNCHANGED <<gates, seed, garbler, cts, hashed, ended>>

Next == GarbleGate \/ Forward \/ EndProxy \/ EvaluateGate

(* Each side is a thread of its own; the scheduler runs them all.          *)
Spec ==
  /\ Init /\ [][Next]_vars
  /\ WF_vars(GarbleGate)
  /\ WF_vars(Forward \/ EndProxy)
  /\ WF_vars(EvaluateGate)
-----------------------------------------------------------------------------
(* Every variable has its type.                                            *)
TypeOK ==
  /\ gates \in Circuits
  /\ seed \in Seeds
  /\ label0 \in [Wires -> Labels \cup {Nothing}]
  /\ gpos \in 1 .. Len(gates) + 1
  /\ epos \in 1 .. Len(gates) + 1
  /\ gindex = gpos - 1
  /\ eindex = epos - 1 + (IF "evaluator" \in panicked THEN 1 ELSE 0)
  /\ {cts, fwd} \subseteq Seq([gate : DOMAIN gates, ct : Labels])
  /\ hashed \in Seq(Labels)
  /\ ended \in BOOLEAN
  /\ active \in [Wires -> [label : Labels, value : BOOLEAN] \cup {Nothing}]
  /\ panicked \subseteq {"proxy", "evaluator"}

(* The label the evaluator holds for a wire is the garbler's label of the  *)
(* wire's value: of label 0 and label 1 it knows the right one, whichever  *)
(* side is ahead.                                                          *)
LabelsAgree ==
  \A w \in Wires :
    label0[w] # Nothing /\ active[w] # Nothing =>
      active[w].label = Select(label0[w], seed.delta, active[w].value)

(* What is under way, in order, is one ciphertext for each gate that needs *)
(* one and that the garbler has passed and the evaluator has not: the next *)
(* label the evaluator takes belongs to the gate it is at.                 *)
UnderWay == fwd \o cts
StreamAligned ==
  /\ \A i, j \in DOMAIN UnderWay : i < j => UnderWay[i].gate < UnderWay[j].gate
  /\ panicked = {} =>
       {UnderWay[i].gate : i \in DOMAIN UnderWay}
         = {n \in epos .. gpos - 1 : NeedsCiphertext(gates[n])}

(* No thread panics: the source is never exhausted early, and the proxy    *)
(* never sends to an evaluator that has already returned.                  *)
NoPanic == panicked = {}

(* The first garbling, from which the garbler has the hash it commits to:  *)
(* the labels and the ciphertexts after the first n gates.                 *)
Garble(n, pass) ==
  LET gate == gates[n]
      a0 == pass.labels[gate.a]
      b0 == pass.labels[gate.b]
  IN  [labels |-> IF IsLive(gate)
                    THEN [pass.labels EXCEPT ![gate.c] =
                            GarbleLabel(gate.g, a0, b0, seed.delta, n - 1)]
                    ELSE pass.labels,
       cts |-> IF NeedsCiphertext(gate)
                 THEN Append(pass.cts, GarbleCiphertext(gate.g, a0, b0, seed.delta, n - 1))
                 ELSE pass.cts]
FirstPass[n \in 0 .. Len(gates)] ==
  IF n = 0 THEN [labels |-> GivenLabels, cts |-> <<>>] ELSE Garble(n, FirstPass[n - 1])
Committed == FirstPass[Len(gates)].cts

(* What the proxy has hashed is always the beginning of what the garbler   *)
(* committed to, and all of it when the proxy returns: the hashes the      *)
(* evaluator compares are equal, and it has used every ciphertext it has   *)
(* paid for.                                                               *)
HashesMatch ==
  /\ Len(hashed) <= Len(Committed)
  /\ hashed = SubSeq(Committed, 1, Len(hashed))
  /\ ended /\ EvaluatorDone => hashed = Committed /\ fwd = <<>>

(* Every thread gets to its end.                                           *)
Completes == <>(GarblerDone /\ ended /\ EvaluatorDone)

(* The comment in the modes: a gate whose output is unreachable does "not  *)
(* advance gate index".                                                    *)
UnreachableKeepsIndex ==
  [][/\ gpos' # gpos /\ ~IsLive(gates[gpos]) => gindex' = gindex
     /\ epos' # epos /\ ~IsLive(gates[epos]) => eindex' = eindex]_vars
=============================================================================
