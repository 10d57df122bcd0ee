------------------------------- MODULE LruCache -------------------------------
(***************************************************************************)
(* What `ComponentTemplatePool` promises: a cache of at most Capacity      *)
(* entries that gives up the least recently used one, and answers a lookup *)
(* with the value last inserted under that very key.                       *)
(***************************************************************************)
EXTENDS LruOrder, Integers

CONSTANTS CacheKeys, Values, Nothing

VARIABLES
  order,    \* the entries, most recently used first
  answer    \* what the last call returned, Nothing for `None`

vars == <<order, answer>>

Init == order = <<>> /\ answer = Nothing

Get(k) ==
  /\ order' = IF Has(order, k) THEN Promote(order, k) ELSE order
  /\ answer' = IF Has(order, k) THEN EntryOf(order, k).value ELSE Nothing

Insert(k, v) ==
  \/ /\ Has(order, k)
     /\ order' = <<[key |-> k, value |-> v]>> \o Tail(Promote(order, k))
     /\ answer' = EntryOf(order, k).value
  \/ /\ ~Has(order, k)
     /\ order' = AddFirst(order, k, v)
     /\ answer' = Nothing

GetOrInsertWith(k, v) ==
  /\ order' = GetOrInsert(order, k, v)
  /\ answer' = order'[1].value

Clear == order' = <<>> /\ answer' = Nothing

Next ==
  \/ \E k \in CacheKeys : Get(k)
  \/ \E k \in CacheKeys, v \in Values : Insert(k, v) \/ GetOrInsertWith(k, v)
  \/ Clear

Spec == Init /\ [][Next]_vars
=============================================================================
