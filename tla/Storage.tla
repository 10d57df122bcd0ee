------------------------------- MODULE Storage -------------------------------
(***************************************************************************)
(* src/storage.rs: `Storage<K, T>`, the slab that holds every live wire    *)
(* value of a streaming run.  An entry carries its value and a counter of  *)
(* remaining reads ("credits"); the last read removes the entry and its    *)
(* slot is given to a later wire.                                          *)
(*                                                                         *)
(* The module has no variables: a storage is a value, and each method of   *)
(* `Storage` is an operator from a storage to its successor.  WireStorage  *)
(* drives it as a state machine, StreamingCircuit runs circuits on it.     *)
(***************************************************************************)
EXTENDS Integers

CONSTANTS
  Slots,        \* indices of the slab that may be used (bounds the model)
  Pick(_),      \* of a set of vacant slots, those the slab may hand out
  MaxCredits,   \* the largest `Credits`, 2^16 - 1 in the code
  Data,         \* wire values
  NoData,       \* an allocated wire that has not been fed: `None`
  UNREACHABLE   \* usize::MAX, the key `allocate` returns for zero credits

ASSUME StorageAssumption ==
  /\ Slots \subseteq Nat
  /\ MaxCredits \in Nat \ {0}
  /\ NoData \notin Data
  /\ UNREACHABLE \notin Nat
  /\ \A S \in SUBSET Slots : Pick(S) \subseteq S

IndexOffset == 2                      \* keys 0 and 1 are FALSE_WIRE and TRUE_WIRE
Keys == {i + IndexOffset : i \in Slots}
ToKey(i) == i + IndexOffset
ToIndex(k) == k - IndexOffset

(* `Entry.credits` is NonZero: zero stands for a vacant slot.              *)
Entry == [credits : 0 .. MaxCredits, data : Data \cup {NoData}]
VacantEntry == [credits |-> 0, data |-> NoData]

EmptyStore == [i \in Slots |-> VacantEntry]
Occupied(store) == {i \in Slots : store[i].credits > 0}

(* Mutant: a slot with one read left counts as free.                       *)
VacantOrLast(store) == Pick({i \in Slots : store[i].credits <= 1})

(* `Slab::insert` picks some slot that is not occupied; which one is the   *)
(* slab's business, and no property may depend on it.                      *)
Vacant(store) == Pick(Slots \ Occupied(store))

Insert(store, i, data, credits) ==
  [store EXCEPT ![i] = [credits |-> credits, data |-> data]]

Found(store, k) == k \in Keys /\ store[ToIndex(k)].credits > 0

Overflows(store, k, n) == store[ToIndex(k)].credits + n > MaxCredits

AddCredits(store, k, n) == [store EXCEPT ![ToIndex(k)].credits = @ + n]

(* Mutant: the entry outlives its last read.                               *)
GetKeepsEntry(store, k) ==
  [store EXCEPT ![ToIndex(k)].credits = @ - 1]

(* `get`: the last credit removes the entry, any other is used up.         *)
Get(store, k) ==
  IF store[ToIndex(k)].credits = 1
    THEN [store EXCEPT ![ToIndex(k)] = VacantEntry]
    ELSE [store EXCEPT ![ToIndex(k)].credits = @ - 1]

Value(store, k) == store[ToIndex(k)].data

(* Mutant: a write that also uses up a credit, as the comment inside `set` *)
(* ("decrement credits") has it.                                           *)
SetDecrements(store, k, data) ==
  Get([store EXCEPT ![ToIndex(k)].data = data], k)

(* `set` mutates in place; credits do not change.                          *)
Set(store, k, data) == [store EXCEPT ![ToIndex(k)].data = data]
=============================================================================
