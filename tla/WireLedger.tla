----------------------------- MODULE WireLedger ------------------------------
(***************************************************************************)
(* What `Storage` promises its callers, with no slab and no keys: a wire   *)
(* has a budget of reads and a value; a read returns the value last        *)
(* written to that very wire and uses up one read; the wire is forgotten   *)
(* with its last read.                                                     *)
(***************************************************************************)
EXTENDS Integers

CONSTANTS Wires, MaxCredits, Data, NoData

VARIABLES
  budget,   \* reads left of each wire
  value,    \* its value, NoData when it has none
  answer    \* what the last call returned: <<kind, wire value>>

vars == <<budget, value, answer>>

Init ==
  /\ budget = [w \in Wires |-> 0]
  /\ value = [w \in Wires |-> NoData]
  /\ answer = <<"ok", NoData>>

Open(w, n) ==
  /\ budget[w] = 0
  /\ budget' = [budget EXCEPT ![w] = n]
  /\ answer' = <<"ok", NoData>>
  /\ UNCHANGED value

Grant(w, n) ==
  /\ budget[w] > 0
  /\ \/ /\ budget[w] + n <= MaxCredits
        /\ budget' = [budget EXCEPT ![w] = @ + n]
        /\ answer' = <<"ok", NoData>>
     \/ /\ budget[w] + n > MaxCredits
        /\ answer' = <<"OverflowCredits", NoData>>
        /\ UNCHANGED budget
  /\ UNCHANGED value

Read(w) ==
  /\ budget[w] > 0
  /\ budget' = [budget EXCEPT ![w] = @ - 1]
  /\ value' = [value EXCEPT ![w] = IF budget[w] = 1 THEN NoData ELSE @]
  /\ answer' = <<"value", value[w]>>

Write(w, d) ==
  /\ budget[w] > 0
  /\ value' = [value EXCEPT ![w] = d]
  /\ answer' = <<"ok", NoData>>
  /\ UNCHANGED budget

Next ==
  \E w \in Wires :
    \/ \E n \in 0 .. MaxCredits : Open(w, n)
    \/ \E n \in 1 .. MaxCredits : Grant(w, n)
    \/ Read(w)
    \/ \E d \in Data : Write(w, d)

Spec == Init /\ [][Next]_vars
=============================================================================
