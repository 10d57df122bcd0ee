----------------------------- MODULE TemplatePool -----------------------------
(***************************************************************************)
(* src/circuit/component_template_pool.rs: the LRU pool of component       *)
(* templates, a hash map from keys to the entries of a slab that are also  *)
(* threaded on a doubly linked list, most recently used first.             *)
(***************************************************************************)
EXTENDS Integers, Sequences, FiniteSets

CONSTANTS
  CacheKeys,   \* component keys, 64-bit hashes in the code
  Values,      \* templates
  Capacity,    \* DEFAULT_CAPACITY
  Indices,     \* indices the slab may hand out (bounds the model)
  Nothing      \* Option::None

Entry == [key : CacheKeys, value : Values,
          prev : Indices \cup {Nothing}, next : Indices \cup {Nothing}]

ASSUME PoolAssumption ==
  /\ Capacity \in Nat \ {0}              \* asserted by `with_capacity`
  /\ Cardinality(Indices) >= Capacity
  /\ Nothing \notin Indices \cup Values \cup Entry

VARIABLES
  pool,     \* the fields of ComponentTemplatePool
  answer    \* what the last call returned

vars == <<pool, answer>>

EmptyPool ==
  [map |-> [k \in CacheKeys |-> Nothing],
   entries |-> [i \in Indices |-> Nothing],
   head |-> Nothing,
   tail |-> Nothing]

Init == pool = EmptyPool /\ answer = Nothing

Used(p) == {i \in Indices : p.entries[i] # Nothing}

(* The neighbour i, if there is one, gets a new link.                      *)
LinkNext(p, i, to) ==
  IF i = Nothing THEN p ELSE [p EXCEPT !.entries[i].next = to]

LinkPrev(p, i, to) ==
  IF i = Nothing THEN p ELSE [p EXCEPT !.entries[i].prev = to]

(* Mutant: the old head keeps no link to the new one.                      *)
AttachOneWay(p, i) ==
  [p EXCEPT !.entries[i].prev = Nothing,
            !.entries[i].next = p.head,
            !.head = i,
            !.tail = IF @ = Nothing THEN i ELSE @]

AttachToFront(p, i) ==
  [LinkPrev(p, p.head, i) EXCEPT
     !.entries[i].prev = Nothing,
     !.entries[i].next = p.head,
     !.head = i,
     !.tail = IF @ = Nothing THEN i ELSE @]

(* Mutant: the tail stays on an entry that was moved to the front.         *)
MoveKeepsTail(p, i) ==
  LET e == p.entries[i]
  IN  IF e.prev = Nothing THEN p
      ELSE AttachToFront(LinkPrev(LinkNext(p, e.prev, e.next), e.next, e.prev), i)

(* The head stays where it is; any other entry is detached and attached.   *)
MoveToFront(p, i) ==
  LET e == p.entries[i]
      detached == LinkPrev(LinkNext(p, e.prev, e.next), e.next, e.prev)
  IN  IF e.prev = Nothing THEN p
      ELSE AttachToFront([detached EXCEPT !.tail = IF e.next = Nothing THEN e.prev ELSE @], i)

EvictLru(p) ==
  LET lru == p.tail
      prev == p.entries[lru].prev
  IN  IF lru = Nothing THEN p
      ELSE [LinkNext(p, prev, Nothing) EXCEPT
              !.head = IF prev = Nothing THEN Nothing ELSE @,
              !.tail = prev,
              !.map[p.entries[lru].key] = Nothing,
              !.entries[lru] = Nothing]

(* Mutant: an entry is evicted only when the pool is more than full.       *)
MakeRoomLate(p) == IF Cardinality(Used(p)) > Capacity THEN EvictLru(p) ELSE p

MakeRoom(p) == IF Cardinality(Used(p)) >= Capacity THEN EvictLru(p) ELSE p

(* The miss path of `insert` and of `get_or_insert_with`, at slab index i. *)
Added(p, i, k, v) ==
  [AttachToFront([p EXCEPT !.entries[i] =
                    [key |-> k, value |-> v, prev |-> Nothing, next |-> Nothing]], i)
     EXCEPT !.map[k] = i]

Get(k) ==
  LET i == pool.map[k]
  IN  \/ /\ i = Nothing
         /\ answer' = Nothing
         /\ UNCHANGED pool
      \/ /\ i # Nothing
         /\ pool' = MoveToFront(pool, i)
         /\ answer' = pool'.entries[i].value

Add(k, v) ==
  /\ pool.map[k] = Nothing
  /\ \E i \in Indices \ Used(MakeRoom(pool)) : pool' = Added(MakeRoom(pool), i, k, v)

Insert(k, v) ==
  LET i == pool.map[k]
  IN  \/ /\ i # Nothing
         /\ pool' = MoveToFront([pool EXCEPT !.entries[i].value = v], i)
         /\ answer' = pool.entries[i].value
      \/ /\ Add(k, v)
         /\ answer' = Nothing

GetOrInsertWith(k, v) ==
  LET i == pool.map[k]
  IN  \/ /\ i # Nothing
         /\ pool' = MoveToFront(pool, i)
         /\ answer' = pool.entries[i].value
      \/ /\ Add(k, v)
         /\ answer' = v

Clear == pool' = EmptyPool /\ answer' = Nothing

Next ==
  \/ \E k \in CacheKeys : Get(k)
  \/ \E k \in CacheKeys, v \in Values : Insert(k, v) \/ GetOrInsertWith(k, v)
  \/ Clear

Spec == Init /\ [][Next]_vars
-----------------------------------------------------------------------------
(* Every field has its type and the pool its capacity.                     *)
TypeOK ==
  /\ pool.map \in [CacheKeys -> Indices \cup {Nothing}]
  /\ \A i \in Used(pool) : pool.entries[i] \in Entry
  /\ Cardinality(Used(pool)) <= Capacity
  /\ {pool.head, pool.tail} \subseteq Indices \cup {Nothing}
  /\ answer \in Values \cup {Nothing}

(* Map and slab agree: each key leads to the entry that carries it, and    *)
(* each entry of the slab is the one its key leads to.  A key left behind  *)
(* by an eviction would lead to another component's template, once its     *)
(* slab index is handed out again.                                         *)
MapExact ==
  /\ \A k \in CacheKeys : pool.map[k] # Nothing =>
       pool.map[k] \in Used(pool) /\ pool.entries[pool.map[k]].key = k
  /\ \A i \in Used(pool) : pool.map[pool.entries[i].key] = i

(* The links are those of one list over every used entry: both directions  *)
(* agree, only the head has no predecessor and only the tail no successor. *)
ListSound ==
  /\ \A i, j \in Used(pool) : pool.entries[i].next = j <=> pool.entries[j].prev = i
  /\ \A i \in Used(pool) : pool.entries[i].prev = Nothing <=> pool.head = i
  /\ \A i \in Used(pool) : pool.entries[i].next = Nothing <=> pool.tail = i
  /\ pool.head = Nothing <=> Used(pool) = {}

(* Promotions, evictions and reuse of slab entries, in any order, leave the*)
(* map and the list on the same entries.                                   *)
PoolSound == MapExact /\ ListSound

Seen(p, i) ==
  IF i = Nothing THEN Nothing ELSE [key |-> p.entries[i].key, value |-> p.entries[i].value]

(* The keys and values of the used entries, from the head on.              *)
InOrder(p) ==
  LET Walk[n \in 1 .. Cardinality(Used(p))] ==
        IF n = 1 THEN p.head
        ELSE IF Walk[n - 1] = Nothing THEN Nothing ELSE p.entries[Walk[n - 1]].next
  IN  [n \in 1 .. Cardinality(Used(p)) |-> Seen(p, Walk[n])]

Listed == InOrder(pool)

Lru == INSTANCE LruCache WITH order <- Listed

(* Whatever is called in whatever order, the pool answers, orders and      *)
(* evicts as an LRU cache of its capacity does.                            *)
ImplementsLru == Lru!Spec
=============================================================================
