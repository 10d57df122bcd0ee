----------------------------- MODULE WireStorage -----------------------------
(***************************************************************************)
(* `Storage` under its callers' discipline.  A caller holds the key of     *)
(* each wire it allocated and knows how many reads of it are still to      *)
(* come; it never touches a wire after the last of them.  Storage cannot   *)
(* check that: the slot of a finished wire belongs to another wire by      *)
(* then, and a stale key would reach that one.  That circuits keep to the  *)
(* discipline is CreditsExact of StreamingCircuit.                         *)
(***************************************************************************)
EXTENDS Storage

CONSTANT Wires   \* the wires of the callers; a finished one is issued anew

VARIABLES
  store,    \* Storage.data
  handle,   \* the key the caller holds for each wire
  left,     \* how many reads of each wire are still to come
  answer    \* what the last call returned: <<kind, wire value>>

vars == <<store, handle, left, answer>>

Init ==
  /\ store = EmptyStore
  /\ handle = [w \in Wires |-> UNREACHABLE]
  /\ left = [w \in Wires |-> 0]
  /\ answer = <<"ok", NoData>>

AllocateCall(w, n) ==
  /\ left[w] = 0
  /\ \/ /\ n = 0
        /\ handle' = [handle EXCEPT ![w] = UNREACHABLE]
        /\ UNCHANGED store
     \/ /\ n > 0
        /\ \E i \in Vacant(store) :
             /\ store' = Insert(store, i, NoData, n)
             /\ handle' = [handle EXCEPT ![w] = ToKey(i)]
  /\ left' = [left EXCEPT ![w] = n]
  /\ answer' = <<"ok", NoData>>

AddCreditsCall(w, n) ==
  /\ left[w] > 0
  /\ \/ /\ ~Found(store, handle[w])
        /\ answer' = <<"NotFound", NoData>>
        /\ UNCHANGED <<store, left>>
     \/ /\ Found(store, handle[w])
        /\ Overflows(store, handle[w], n)
        /\ answer' = <<"OverflowCredits", NoData>>
        /\ UNCHANGED <<store, left>>
     \/ /\ Found(store, handle[w])
        /\ ~Overflows(store, handle[w], n)
        /\ store' = AddCredits(store, handle[w], n)
        /\ left' = [left EXCEPT ![w] = @ + n]
        /\ answer' = <<"ok", NoData>>
  /\ UNCHANGED handle

GetCall(w) ==
  /\ left[w] > 0
  /\ left' = [left EXCEPT ![w] = @ - 1]
  /\ \/ /\ Found(store, handle[w])
        /\ store' = Get(store, handle[w])
        /\ answer' = <<"value", Value(store, handle[w])>>
     \/ /\ ~Found(store, handle[w])
        /\ answer' = <<"NotFound", NoData>>
        /\ UNCHANGED store
  /\ UNCHANGED handle

SetCall(w, d) ==
  /\ left[w] > 0
  /\ \/ /\ Found(store, handle[w])
        /\ store' = Set(store, handle[w], d)
        /\ answer' = <<"ok", NoData>>
     \/ /\ ~Found(store, handle[w])
        /\ answer' = <<"NotFound", NoData>>
        /\ UNCHANGED store
  /\ UNCHANGED <<handle, left>>

Next ==
  \E w \in Wires :
    \/ \E n \in 0 .. MaxCredits : AllocateCall(w, n)
    \/ \E n \in 1 .. MaxCredits : AddCreditsCall(w, n)
    \/ GetCall(w)
    \/ \E d \in Data : SetCall(w, d)

Spec == Init /\ [][Next]_vars
-----------------------------------------------------------------------------
Live == {w \in Wires : left[w] > 0}

(* Every variable has its type, and a vacant slot holds nothing.           *)
TypeOK ==
  /\ store \in [Slots -> Entry]
  /\ \A i \in Slots : store[i].credits = 0 => store[i] = VacantEntry
  /\ handle \in [Wires -> Keys \cup {UNREACHABLE}]
  /\ left \in [Wires -> 0 .. MaxCredits]
  /\ answer \in {"ok", "value", "NotFound", "OverflowCredits"}
                  \X (Data \cup {NoData})

(* A wire with reads to come owns an entry whose credits are exactly those *)
(* reads: neither freed early nor kept for a read that never comes.        *)
CreditsMatch ==
  \A w \in Live :
    handle[w] \in Keys /\ store[ToIndex(handle[w])].credits = left[w]

(* Slots are recycled, yet two wires that are both still to be read never  *)
(* share one.                                                              *)
NoAlias == \A v, w \in Live : handle[v] = handle[w] => v = w

(* Nothing leaks: an occupied slot is one that some wire's last read frees.*)
NoLeak == \A i \in Occupied(store) : \E w \in Live : handle[w] = ToKey(i)

(* The credits of a slot are the reads its one wire has to come, and there *)
(* is no slot without such a wire: each part needs the other two to last.  *)
SlabSafe == CreditsMatch /\ NoAlias /\ NoLeak

(* The value of each wire still to be read, found through its key.         *)
Held == [w \in Wires |-> IF left[w] > 0 THEN store[ToIndex(handle[w])].data
                                        ELSE NoData]

Ledger == INSTANCE WireLedger WITH budget <- left, value <- Held

(* Every answer of `Storage`, over any sequence of calls that keeps to the *)
(* discipline, is the one the ledger gives: a read returns what was last   *)
(* written to that wire, is never NotFound, and OverflowCredits is         *)
(* reported exactly when the budget would pass MaxCredits.                 *)
ImplementsLedger == Ledger!Spec
=============================================================================
