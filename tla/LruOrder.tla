------------------------------- MODULE LruOrder -------------------------------
(***************************************************************************)
(* What a least-recently-used cache is: a sequence of entries, the most    *)
(* recently used one first, every key at most once.  LruCache makes a      *)
(* state machine of it, StreamingCircuit keeps its templates in one.       *)
(***************************************************************************)
EXTENDS Sequences, SequencesExt

CONSTANT Capacity   \* DEFAULT_CAPACITY, 5000 entries in the code

Has(order, k) == \E i \in DOMAIN order : order[i].key = k

PositionOf(order, k) == CHOOSE i \in DOMAIN order : order[i].key = k

EntryOf(order, k) == order[PositionOf(order, k)]

Promote(order, k) ==
  <<EntryOf(order, k)>> \o RemoveAt(order, PositionOf(order, k))

(* Mutant: the cache gives up an entry only when it is more than full.     *)
MakeRoomLate(order) == IF Len(order) > Capacity THEN Front(order) ELSE order

(* Room for one more: a full cache gives up its last entry.                *)
MakeRoom(order) == IF Len(order) >= Capacity THEN Front(order) ELSE order

AddFirst(order, k, v) == <<[key |-> k, value |-> v]>> \o MakeRoom(order)

(* `get_or_insert_with`: a hit is promoted, a miss is built and added.     *)
GetOrInsert(order, k, v) ==
  IF Has(order, k) THEN Promote(order, k) ELSE AddFirst(order, k, v)
=============================================================================
