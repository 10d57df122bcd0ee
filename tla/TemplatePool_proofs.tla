------------------------- MODULE TemplatePool_proofs -------------------------
(***************************************************************************)
(* For every capacity, every set of keys and of templates and every slab:  *)
(* the pool's map, its slab and its list stay on the same entries.         *)
(*                                                                         *)
(* The links of PoolSound alone are not inductive.  They allow a ring      *)
(* beside the list, or a head that is no part of it, and then the tail     *)
(* that is evicted may be the head of a list that is not empty.  List says *)
(* also that whatever is followed from a used entry ends at the tail: a    *)
(* set of used entries closed under `next` has the tail in it.  So the     *)
(* tail has no predecessor only when it is the last entry.                 *)
(*                                                                         *)
(* What the pool's methods do to the links is told in two steps: which     *)
(* functions PrevOf and NextOf they leave (...Effect), and that these are  *)
(* again a list (Push, Unlink, DropLast).                                  *)
(*                                                                         *)
(* From there it is shown that the pool implements LruCache: the list is a *)
(* sequence of indices, and every call does to the keys and values it      *)
(* leads to what the cache does to its order.                              *)
(***************************************************************************)
EXTENDS TemplatePool, TLAPS, FiniteSetTheorems, SequenceTheorems, WellFoundedInduction

(* What a doubly linked list over the indices U is.                        *)
List(U, prev, next, head, tail) ==
  /\ Nothing \notin U
  /\ prev \in [U -> U \cup {Nothing}] /\ next \in [U -> U \cup {Nothing}]
  /\ {head, tail} \subseteq U \cup {Nothing}
  /\ \A i, j \in U : next[i] = j <=> prev[j] = i
  /\ \A i \in U : prev[i] = Nothing <=> head = i
  /\ \A i \in U : next[i] = Nothing <=> tail = i
  /\ head = Nothing <=> U = {}
  /\ \A S \in SUBSET U :   \* everything leads to the tail
       S # {} /\ (\A i \in S : next[i] # Nothing => next[i] \in S) => tail \in S

(* A list that is not empty has a tail.                                    *)
LEMMA ListHasTail ==
  ASSUME NEW U, NEW prev, NEW next, NEW head, NEW tail, List(U, prev, next, head, tail)
  PROVE  tail = Nothing <=> U = {}
<1>1. CASE U # {}
  <2>1. U \in SUBSET U /\ \A i \in U : next[i] # Nothing => next[i] \in U
    BY DEF List
  <2> QED
    BY <1>1, <2>1 DEF List
<1> QED
  BY <1>1 DEF List

(* What attach_to_front makes of the links: i before the old head.         *)
LEMMA Push ==
  ASSUME NEW U, NEW prev, NEW next, NEW head, NEW tail, List(U, prev, next, head, tail),
         NEW i, i \notin U, i # Nothing
  PROVE  List(U \cup {i},
              [j \in U \cup {i} |-> IF j = i THEN Nothing ELSE IF j = head THEN i ELSE prev[j]],
              [j \in U \cup {i} |-> IF j = i THEN head ELSE next[j]],
              i, IF tail = Nothing THEN i ELSE tail)
<1> DEFINE U2 == U \cup {i}
           p2 == [j \in U2 |-> IF j = i THEN Nothing ELSE IF j = head THEN i ELSE prev[j]]
           n2 == [j \in U2 |-> IF j = i THEN head ELSE next[j]]
           t2 == IF tail = Nothing THEN i ELSE tail
<1>1. tail = Nothing <=> U = {}
  BY ListHasTail
<1>2. Nothing \notin U2 /\ p2 \in [U2 -> U2 \cup {Nothing}] /\ n2 \in [U2 -> U2 \cup {Nothing}]
  BY DEF List
<1>3. {i, t2} \subseteq U2 \cup {Nothing} /\ (i = Nothing <=> U2 = {})
  BY DEF List
<1>4. ASSUME NEW j \in U2, NEW k \in U2 PROVE n2[j] = k <=> p2[k] = j
  <2>1. CASE j = i /\ k = i
    BY <2>1 DEF List
  <2>2. CASE j = i /\ k # i
    BY <2>2 DEF List
  <2>3. CASE j # i /\ k = i
    BY <2>3 DEF List
  <2>4. CASE j # i /\ k # i
    BY <2>4 DEF List
  <2> QED
    BY <2>1, <2>2, <2>3, <2>4
<1>5. \A j \in U2 : p2[j] = Nothing <=> i = j
  BY DEF List
<1>6. \A j \in U2 : n2[j] = Nothing <=> t2 = j
  BY <1>1 DEF List
<1>7. ASSUME NEW S \in SUBSET U2, S # {}, \A j \in S : n2[j] # Nothing => n2[j] \in S
      PROVE  t2 \in S
  <2>1. CASE S = {i}
    <3>1. n2[i] = head /\ head # i
      BY DEF List
    <3> QED
      BY <1>1, <1>7, <2>1, <3>1 DEF List
  <2>2. CASE S # {i}
    <3>1. S \ {i} \in SUBSET U /\ S \ {i} # {}
      BY <1>7, <2>2
    <3>2. \A j \in S \ {i} : next[j] # Nothing => next[j] \in S \ {i}
      <4> SUFFICES ASSUME NEW j \in S \ {i}, next[j] # Nothing PROVE next[j] \in S \ {i}
        OBVIOUS
      <4>1. j \in U /\ next[j] \in U /\ n2[j] = next[j]
        BY <3>1 DEF List
      <4> QED
        BY <1>7, <4>1
    <3>3. tail \in S \ {i}
      BY <3>1, <3>2 DEF List
    <3> QED
      BY <3>1, <3>3 DEF List
  <2> QED
    BY <2>1, <2>2
<1> HIDE DEF p2, n2, t2
<1>8. List(U2, p2, n2, i, t2)
  BY <1>2, <1>3, <1>4, <1>5, <1>6, <1>7 DEF List
<1> QED
  BY <1>8 DEF p2, n2, t2

(* What move_to_front does first: the neighbours of i are linked with      *)
(* each other, and the tail moves back when i was the last.                *)
LEMMA Unlink ==
  ASSUME NEW U, NEW prev, NEW next, NEW head, NEW tail, List(U, prev, next, head, tail),
         NEW i \in U, prev[i] # Nothing
  PROVE  List(U \ {i},
              [j \in U \ {i} |-> IF j = next[i] THEN prev[i] ELSE prev[j]],
              [j \in U \ {i} |-> IF j = prev[i] THEN next[i] ELSE next[j]],
              head, IF next[i] = Nothing THEN prev[i] ELSE tail)
<1> DEFINE U2 == U \ {i}
           p2 == [j \in U2 |-> IF j = next[i] THEN prev[i] ELSE prev[j]]
           n2 == [j \in U2 |-> IF j = prev[i] THEN next[i] ELSE next[j]]
           t2 == IF next[i] = Nothing THEN prev[i] ELSE tail
<1>1. prev[i] \in U /\ next[prev[i]] = i /\ next[i] \in U \cup {Nothing} /\ head # i /\ head \in U
  BY DEF List
<1>2. prev[i] # i /\ next[i] # i
  <2>1. prev[i] = i => next[i] = i
    BY <1>1
  <2>2. next[i] = i => tail \in {i}
    <3>1. {i} \in SUBSET U /\ {i} # {}
      OBVIOUS
    <3>2. next[i] = i => \A j \in {i} : next[j] # Nothing => next[j] \in {i}
      OBVIOUS
    <3>3. \A S \in SUBSET U :
            S # {} /\ (\A j \in S : next[j] # Nothing => next[j] \in S) => tail \in S
      BY DEF List
    <3> QED
      BY <3>1, <3>2, <3>3
  <2>3. tail = i => next[i] = Nothing
    BY DEF List
  <2> QED
    BY <1>1, <2>1, <2>2, <2>3 DEF List
<1>3. Nothing \notin U2 /\ p2 \in [U2 -> U2 \cup {Nothing}] /\ n2 \in [U2 -> U2 \cup {Nothing}]
  <2>1. \A j \in U2 : j # next[i] => prev[j] # i
    BY DEF List
  <2>2. \A j \in U2 : j # prev[i] => next[j] # i
    BY DEF List
  <2> QED
    BY <1>1, <1>2, <2>1, <2>2 DEF List
<1>4. {head, t2} \subseteq U2 \cup {Nothing} /\ (head = Nothing <=> U2 = {})
  BY <1>1, <1>2 DEF List
<1>5. ASSUME NEW j \in U2, NEW k \in U2 PROVE n2[j] = k <=> p2[k] = j
  BY <1>1, <1>2 DEF List
<1>6. \A j \in U2 : p2[j] = Nothing <=> head = j
  BY <1>1, <1>2 DEF List
<1>7. \A j \in U2 : n2[j] = Nothing <=> t2 = j
  BY <1>1, <1>2 DEF List
<1>8. ASSUME NEW S \in SUBSET U2, S # {}, \A j \in S : n2[j] # Nothing => n2[j] \in S
      PROVE  t2 \in S
  <2>1. CASE prev[i] \in S
    <3>1. S \cup {i} \in SUBSET U
      OBVIOUS
    <3>2. \A j \in S \cup {i} : next[j] # Nothing => next[j] \in S \cup {i}
      BY <1>1, <1>2, <1>8, <2>1 DEF List
    <3>3. tail \in S \cup {i}
      BY <3>1, <3>2 DEF List
    <3> QED
      BY <2>1, <3>3 DEF List
  <2>2. CASE prev[i] \notin S
    <3>1. \A j \in S : next[j] # Nothing => next[j] \in S
      BY <1>8, <2>2
    <3>2. tail \in S
      BY <1>8, <3>1 DEF List
    <3>3. next[i] # Nothing
      BY <3>2 DEF List
    <3> QED
      BY <3>2, <3>3
  <2> QED
    BY <2>1, <2>2
<1> HIDE DEF p2, n2, t2
<1>9. List(U2, p2, n2, head, t2)
  BY <1>3, <1>4, <1>5, <1>6, <1>7, <1>8 DEF List
<1> QED
  BY <1>9 DEF p2, n2, t2

(* What evict_lru makes of the links: the tail goes, its predecessor is    *)
(* the new tail; with no predecessor nothing is left.                      *)
LEMMA DropLast ==
  ASSUME NEW U, NEW prev, NEW next, NEW head, NEW tail, List(U, prev, next, head, tail), U # {}
  PROVE  /\ tail \in U
         /\ List(U \ {tail},
                 [j \in U \ {tail} |-> prev[j]],
                 [j \in U \ {tail} |-> IF j = prev[tail] THEN Nothing ELSE next[j]],
                 IF prev[tail] = Nothing THEN Nothing ELSE head, prev[tail])
<1>1. tail \in U /\ next[tail] = Nothing
  BY ListHasTail DEF List
<1>2. CASE prev[tail] # Nothing
  <2>1. List(U \ {tail},
             [j \in U \ {tail} |-> IF j = next[tail] THEN prev[tail] ELSE prev[j]],
             [j \in U \ {tail} |-> IF j = prev[tail] THEN next[tail] ELSE next[j]],
             head, IF next[tail] = Nothing THEN prev[tail] ELSE tail)
    BY <1>1, <1>2, Unlink
  <2>2. [j \in U \ {tail} |-> IF j = next[tail] THEN prev[tail] ELSE prev[j]]
          = [j \in U \ {tail} |-> prev[j]]
    BY <1>1 DEF List
  <2>3. [j \in U \ {tail} |-> IF j = prev[tail] THEN next[tail] ELSE next[j]]
          = [j \in U \ {tail} |-> IF j = prev[tail] THEN Nothing ELSE next[j]]
    BY <1>1
  <2> QED
    BY <1>1, <1>2, <2>1, <2>2, <2>3
<1>3. CASE prev[tail] = Nothing
  <2>1. U = {tail}
    <3>1. SUFFICES ASSUME U \ {tail} # {} PROVE FALSE
      BY <1>1
    <3>2. \A j \in U \ {tail} : next[j] # tail /\ next[j] # Nothing
      BY <1>1, <1>3 DEF List
    <3>3. \A j \in U \ {tail} : next[j] \in U \ {tail}
      BY <3>2 DEF List
    <3>4. U \ {tail} \in SUBSET U
      OBVIOUS
    <3> QED
      BY <3>1, <3>3, <3>4 DEF List
  <2>2. U \ {tail} = {}
    BY <2>1
  <2> DEFINE p2 == [j \in U \ {tail} |-> prev[j]]
             n2 == [j \in U \ {tail} |-> IF j = prev[tail] THEN Nothing ELSE next[j]]
  <2>3. p2 \in [{} -> {} \cup {Nothing}] /\ n2 \in [{} -> {} \cup {Nothing}]
    BY <2>2
  <2> HIDE DEF p2, n2
  <2>4. List({}, p2, n2, Nothing, Nothing)
    BY <2>3 DEF List
  <2>5. List(U \ {tail}, p2, n2, IF prev[tail] = Nothing THEN Nothing ELSE head, prev[tail])
    BY <1>3, <2>2, <2>4
  <2> QED
    BY <1>1, <2>5 DEF p2, n2
<1> QED
  BY <1>2, <1>3
-----------------------------------------------------------------------------
Pools ==
  [map : [CacheKeys -> Indices \cup {Nothing}], entries : [Indices -> Entry \cup {Nothing}],
   head : Indices \cup {Nothing}, tail : Indices \cup {Nothing}]

PrevOf(p) == [i \in Used(p) |-> p.entries[i].prev]
NextOf(p) == [i \in Used(p) |-> p.entries[i].next]

Linked(p) == List(Used(p), PrevOf(p), NextOf(p), p.head, p.tail)
Mapped(p) ==
  /\ \A k \in CacheKeys : p.map[k] # Nothing =>
       p.map[k] \in Used(p) /\ p.entries[p.map[k]].key = k
  /\ \A i \in Used(p) : p.map[p.entries[i].key] = i
Sized(p, n) == IsFiniteSet(Used(p)) /\ Cardinality(Used(p)) <= n

(* The entries carry the same keys and values, at the same indices.        *)
SameContent(p, q) ==
  /\ q \in Pools
  /\ q.map = p.map /\ Used(q) = Used(p)
  /\ \A i \in Used(p) : /\ q.entries[i].key = p.entries[i].key
                        /\ q.entries[i].value = p.entries[i].value

(* What the types say of the slab's used entries.                          *)
LEMMA UsedEntries ==
  ASSUME NEW p \in Pools
  PROVE  /\ Used(p) \subseteq Indices
         /\ \A i \in Indices : i \in Used(p) <=> p.entries[i] \in Entry
         /\ PrevOf(p) \in [Used(p) -> Indices \cup {Nothing}]
         /\ NextOf(p) \in [Used(p) -> Indices \cup {Nothing}]
<1>1. \A i \in Indices : i \in Used(p) <=> p.entries[i] \in Entry
  BY PoolAssumption DEF Pools, Used
<1>2. Used(p) \subseteq Indices
  BY DEF Used
<1>3. \A e \in Entry : e.prev \in Indices \cup {Nothing} /\ e.next \in Indices \cup {Nothing}
  BY DEF Entry
<1> QED
  BY <1>1, <1>2, <1>3 DEF PrevOf, NextOf

(* One link of the entry i is set, and nothing else changes.               *)
WithNext(p, i, to) == [p EXCEPT !.entries[i].next = to]
WithPrev(p, i, to) == [p EXCEPT !.entries[i].prev = to]
NextSet(p, q, i, to) ==
  /\ SameContent(p, q) /\ q.head = p.head /\ q.tail = p.tail
  /\ PrevOf(q) = PrevOf(p)
  /\ NextOf(q) = [j \in Used(p) |-> IF j = i THEN to ELSE NextOf(p)[j]]
PrevSet(p, q, i, to) ==
  /\ SameContent(p, q) /\ q.head = p.head /\ q.tail = p.tail
  /\ NextOf(q) = NextOf(p)
  /\ PrevOf(q) = [j \in Used(p) |-> IF j = i THEN to ELSE PrevOf(p)[j]]

(* The entry i is replaced by f, of the same key and value.                *)
WithEntry(p, i, f) == [p EXCEPT !.entries = [p.entries EXCEPT ![i] = f]]
EntrySet(p, q, i, f) ==
  /\ SameContent(p, q) /\ q.head = p.head /\ q.tail = p.tail
  /\ PrevOf(q) = [j \in Used(p) |-> IF j = i THEN f.prev ELSE PrevOf(p)[j]]
  /\ NextOf(q) = [j \in Used(p) |-> IF j = i THEN f.next ELSE NextOf(p)[j]]

(* Replacing the links of one entry changes PrevOf and NextOf there only.  *)
LEMMA SetEntry ==
  ASSUME NEW p \in Pools, NEW i \in Used(p), NEW f \in Entry,
         f.key = p.entries[i].key, f.value = p.entries[i].value
  PROVE  EntrySet(p, WithEntry(p, i, f), i, f)
<1> DEFINE q == WithEntry(p, i, f)
<1>1. i \in Indices /\ p.entries[i] \in Entry /\ p.entries \in [Indices -> Entry \cup {Nothing}]
  BY UsedEntries DEF Pools
<1>2. /\ q \in Pools /\ q.map = p.map /\ q.head = p.head /\ q.tail = p.tail
      /\ q.entries = [p.entries EXCEPT ![i] = f]
  BY <1>1 DEF Pools, WithEntry
<1> HIDE DEF q
<1>3. \A j \in Indices : q.entries[j] = IF j = i THEN f ELSE p.entries[j]
  BY <1>1, <1>2
<1>4. Used(q) = Used(p)
  BY <1>1, <1>3, PoolAssumption DEF Used
<1>5. SameContent(p, q)
  BY <1>1, <1>2, <1>3, <1>4, UsedEntries DEF SameContent
<1>6. /\ PrevOf(q) = [j \in Used(p) |-> IF j = i THEN f.prev ELSE PrevOf(p)[j]]
      /\ NextOf(q) = [j \in Used(p) |-> IF j = i THEN f.next ELSE NextOf(p)[j]]
  BY <1>3, <1>4, UsedEntries DEF PrevOf, NextOf
<1> QED
  BY <1>2, <1>5, <1>6 DEF q, EntrySet

(* So it is when one link is set.                                          *)
LEMMA SetLink ==
  ASSUME NEW p \in Pools, NEW i \in Used(p), NEW to \in Indices \cup {Nothing}
  PROVE  NextSet(p, WithNext(p, i, to), i, to) /\ PrevSet(p, WithPrev(p, i, to), i, to)
<1> DEFINE e == p.entries[i]
           f == [e EXCEPT !.next = to]
           g == [e EXCEPT !.prev = to]
<1>1. i \in Indices /\ e \in Entry /\ p.entries \in [Indices -> Entry \cup {Nothing}]
  BY UsedEntries DEF Pools
<1>2. /\ f \in Entry /\ f.key = e.key /\ f.value = e.value /\ f.prev = e.prev /\ f.next = to
      /\ g \in Entry /\ g.key = e.key /\ g.value = e.value /\ g.prev = to /\ g.next = e.next
  BY <1>1 DEF Entry
<1>3. WithNext(p, i, to) = WithEntry(p, i, f) /\ WithPrev(p, i, to) = WithEntry(p, i, g)
  BY <1>1 DEF Pools, WithNext, WithPrev, WithEntry
<1>4. /\ PrevOf(p) = [j \in Used(p) |-> IF j = i THEN e.prev ELSE PrevOf(p)[j]]
      /\ NextOf(p) = [j \in Used(p) |-> IF j = i THEN e.next ELSE NextOf(p)[j]]
  BY DEF PrevOf, NextOf
<1> HIDE DEF f, g
<1>5. EntrySet(p, WithNext(p, i, to), i, f) /\ EntrySet(p, WithPrev(p, i, to), i, g)
  BY <1>2, <1>3, SetEntry
<1>6. NextSet(p, WithNext(p, i, to), i, to)
  BY <1>5, <1>2, <1>4 DEF EntrySet, NextSet
<1>7. PrevSet(p, WithPrev(p, i, to), i, to)
  BY <1>5, <1>2, <1>4 DEF EntrySet, PrevSet
<1> QED
  BY <1>6, <1>7

(* And when the link of a neighbour is set that may not exist.             *)
LEMMA LinkEffect ==
  ASSUME NEW p \in Pools, NEW i \in Used(p) \cup {Nothing}, NEW to \in Indices \cup {Nothing}
  PROVE  NextSet(p, LinkNext(p, i, to), i, to) /\ PrevSet(p, LinkPrev(p, i, to), i, to)
<1>1. CASE i = Nothing
  <2>1. LinkNext(p, i, to) = p /\ LinkPrev(p, i, to) = p
    BY <1>1 DEF LinkNext, LinkPrev
  <2>2. \A j \in Used(p) : j # Nothing
    BY UsedEntries, PoolAssumption
  <2>3. /\ NextOf(p) = [j \in Used(p) |-> IF j = i THEN to ELSE NextOf(p)[j]]
        /\ PrevOf(p) = [j \in Used(p) |-> IF j = i THEN to ELSE PrevOf(p)[j]]
    BY <1>1, <2>2 DEF NextOf, PrevOf
  <2>4. SameContent(p, p)
    BY DEF SameContent
  <2> QED
    BY <2>1, <2>3, <2>4 DEF NextSet, PrevSet
<1>2. CASE i # Nothing
  <2>1. LinkNext(p, i, to) = WithNext(p, i, to) /\ LinkPrev(p, i, to) = WithPrev(p, i, to)
    BY <1>2 DEF LinkNext, LinkPrev, WithNext, WithPrev
  <2> QED
    BY <1>2, <2>1, SetLink
<1> QED
  BY <1>1, <1>2

(* What AttachToFront makes of a pool.                                     *)
Attached(p, q, i) ==
  /\ SameContent(p, q)
  /\ q.head = i /\ q.tail = (IF p.tail = Nothing THEN i ELSE p.tail)
  /\ PrevOf(q) = [j \in Used(p) |-> IF j = i THEN Nothing
                                    ELSE IF j = p.head THEN i ELSE PrevOf(p)[j]]
  /\ NextOf(q) = [j \in Used(p) |-> IF j = i THEN p.head ELSE NextOf(p)[j]]

(* The four assignments of attach_to_front, the neighbour's included.      *)
LEMMA AttachEffect ==
  ASSUME NEW p \in Pools, NEW i \in Used(p), p.head \in Used(p) \cup {Nothing}
  PROVE  Attached(p, AttachToFront(p, i), i)
<1> DEFINE p1 == LinkPrev(p, p.head, i)
           p2 == WithPrev(p1, i, Nothing)
           p3 == WithNext(p2, i, p.head)
           q == AttachToFront(p, i)
<1>1. i \in Indices /\ p.head \in Indices \cup {Nothing}
  BY UsedEntries
<1>2. PrevSet(p, p1, p.head, i)
  BY <1>1, LinkEffect
<1>3. p1 \in Pools /\ i \in Used(p1)
  BY <1>2 DEF SameContent, PrevSet
<1>4. PrevSet(p1, p2, i, Nothing)
  BY <1>3, SetLink
<1>5. p2 \in Pools /\ i \in Used(p2)
  BY <1>3, <1>4 DEF SameContent, PrevSet
<1>6. NextSet(p2, p3, i, p.head)
  BY <1>1, <1>5, SetLink
<1>7. q = [p3 EXCEPT !.head = i, !.tail = IF p.tail = Nothing THEN i ELSE p.tail]
  <2>1. p1.tail = p.tail
    BY <1>2 DEF PrevSet
  <2> QED
    BY <1>1, <1>3, <2>1 DEF AttachToFront, WithPrev, WithNext, Pools
<1> HIDE DEF p1, p2, p3, q
<1>8. p3 \in Pools /\ p.tail \in Indices \cup {Nothing}
  BY <1>6 DEF SameContent, NextSet, Pools
<1>9. /\ q \in Pools /\ q.map = p3.map /\ q.entries = p3.entries
      /\ q.head = i /\ q.tail = IF p.tail = Nothing THEN i ELSE p.tail
  BY <1>1, <1>7, <1>8 DEF Pools
<1>10. Used(q) = Used(p3) /\ PrevOf(q) = PrevOf(p3) /\ NextOf(q) = NextOf(p3)
  BY <1>9 DEF Used, PrevOf, NextOf
<1>11. SameContent(p, q)
  BY <1>2, <1>4, <1>6, <1>9, <1>10 DEF SameContent, PrevSet, NextSet
<1>12. Used(p1) = Used(p) /\ Used(p2) = Used(p)
  BY <1>2, <1>4 DEF SameContent, PrevSet
<1>13. PrevOf(q) = [j \in Used(p) |-> IF j = i THEN Nothing
                                      ELSE IF j = p.head THEN i ELSE PrevOf(p)[j]]
  BY <1>2, <1>4, <1>6, <1>10, <1>12 DEF PrevSet, NextSet
<1>14. NextOf(q) = [j \in Used(p) |-> IF j = i THEN p.head ELSE NextOf(p)[j]]
  BY <1>2, <1>4, <1>6, <1>10, <1>12 DEF PrevSet, NextSet
<1> QED
  BY <1>9, <1>11, <1>13, <1>14 DEF q, Attached

(* Ends and neighbours are used entries.                                   *)
LEMMA LinkedHead ==
  ASSUME NEW p \in Pools, Linked(p)
  PROVE  /\ {p.head, p.tail} \subseteq Used(p) \cup {Nothing}
         /\ PrevOf(p) \in [Used(p) -> Used(p) \cup {Nothing}]
         /\ NextOf(p) \in [Used(p) -> Used(p) \cup {Nothing}]
         /\ p.tail = Nothing <=> Used(p) = {}
<1>1. p.tail = Nothing <=> Used(p) = {}
  BY ListHasTail DEF Linked
<1> QED
  BY <1>1 DEF Linked, List

(* The entry i out of the list, its own links left as they were.           *)
Detached(p, q, i) ==
  /\ SameContent(p, q) /\ q.head = p.head
  /\ q.tail = IF NextOf(p)[i] = Nothing THEN PrevOf(p)[i] ELSE p.tail
  /\ PrevOf(q) = [j \in Used(p) |-> IF j = NextOf(p)[i] THEN PrevOf(p)[i] ELSE PrevOf(p)[j]]
  /\ NextOf(q) = [j \in Used(p) |-> IF j = PrevOf(p)[i] THEN NextOf(p)[i] ELSE NextOf(p)[j]]

Detach(p, i) ==
  LET e == p.entries[i]
  IN  [LinkPrev(LinkNext(p, e.prev, e.next), e.next, e.prev)
         EXCEPT !.tail = IF e.next = Nothing THEN e.prev ELSE @]

(* The first half of move_to_front.                                        *)
LEMMA DetachEffect ==
  ASSUME NEW p \in Pools, NEW i \in Used(p), Linked(p)
  PROVE  Detached(p, Detach(p, i), i)
<1> DEFINE prev == p.entries[i].prev
           next == p.entries[i].next
           p1 == LinkNext(p, prev, next)
           p2 == LinkPrev(p1, next, prev)
           q == Detach(p, i)
<1>1. prev = PrevOf(p)[i] /\ next = NextOf(p)[i]
  BY DEF PrevOf, NextOf
<1>2. /\ prev \in Used(p) \cup {Nothing} /\ next \in Used(p) \cup {Nothing}
      /\ prev \in Indices \cup {Nothing} /\ next \in Indices \cup {Nothing}
  BY <1>1, LinkedHead, UsedEntries
<1>3. q = [p2 EXCEPT !.tail = IF next = Nothing THEN prev ELSE @]
  BY DEF Detach
<1> HIDE DEF prev, next, q
<1>4. NextSet(p, p1, prev, next)
  BY <1>2, LinkEffect
<1>5. p1 \in Pools /\ Used(p1) = Used(p)
  BY <1>4 DEF NextSet, SameContent
<1>6. PrevSet(p1, p2, next, prev)
  BY <1>2, <1>5, LinkEffect
<1> HIDE DEF p1, p2
<1>7. p2 \in Pools /\ p2.tail = p.tail /\ p2.head = p.head
  BY <1>4, <1>6 DEF NextSet, PrevSet, SameContent
<1>8. /\ q \in Pools /\ q.map = p2.map /\ q.entries = p2.entries /\ q.head = p2.head
      /\ q.tail = IF next = Nothing THEN prev ELSE p2.tail
  BY <1>2, <1>3, <1>7 DEF Pools
<1>9. Used(q) = Used(p2) /\ PrevOf(q) = PrevOf(p2) /\ NextOf(q) = NextOf(p2)
  BY <1>8 DEF Used, PrevOf, NextOf
<1>10. SameContent(p, q)
  BY <1>4, <1>6, <1>8, <1>9 DEF SameContent, PrevSet, NextSet
<1>11. /\ PrevOf(q) = [j \in Used(p) |-> IF j = next THEN prev ELSE PrevOf(p)[j]]
       /\ NextOf(q) = [j \in Used(p) |-> IF j = prev THEN next ELSE NextOf(p)[j]]
  BY <1>4, <1>5, <1>6, <1>9 DEF PrevSet, NextSet
<1> QED
  BY <1>1, <1>7, <1>8, <1>10, <1>11 DEF Detached, q

(* What move_to_front makes of an entry that is not the head.              *)
Moved(p, q, i) ==
  LET U == Used(p)
      prev == PrevOf(p)
      next == NextOf(p)
  IN  /\ SameContent(p, q) /\ q.head = i
      /\ q.tail = IF next[i] # Nothing THEN p.tail ELSE prev[i]
      /\ PrevOf(q) = [j \in U |-> IF j = i THEN Nothing
                                  ELSE IF j = p.head THEN i
                                  ELSE IF j = next[i] THEN prev[i] ELSE prev[j]]
      /\ NextOf(q) = [j \in U |-> IF j = i THEN p.head
                                  ELSE IF j = prev[i] THEN next[i] ELSE next[j]]

LEMMA MoveToFrontEffect ==
  ASSUME NEW p \in Pools, NEW i \in Used(p), Linked(p), p.entries[i].prev # Nothing
  PROVE  Moved(p, MoveToFront(p, i), i)
<1> DEFINE U == Used(p)
           prev == PrevOf(p)
           next == NextOf(p)
           d == Detach(p, i)
           q == MoveToFront(p, i)
<1>1. q = AttachToFront(d, i)
  BY DEF MoveToFront, Detach
<1>2. Detached(p, d, i)
  BY DetachEffect
<1>3. /\ d \in Pools /\ Used(d) = U /\ d.head = p.head
      /\ d.tail = IF next[i] = Nothing THEN prev[i] ELSE p.tail
  BY <1>2 DEF Detached, SameContent
<1>4. d.head \in Used(d) \cup {Nothing}
  BY <1>3, LinkedHead
<1> HIDE DEF d, q
<1>5. Attached(d, q, i)
  BY <1>1, <1>3, <1>4, AttachEffect
<1>6. SameContent(p, q)
  BY <1>2, <1>5 DEF Detached, Attached, SameContent
<1>7. d.tail # Nothing
  <2>1. prev[i] # Nothing /\ Used(p) # {} /\ p.tail # Nothing
    BY LinkedHead DEF PrevOf
  <2> QED
    BY <1>3, <2>1
<1>8. q.head = i /\ q.tail = d.tail
  BY <1>5, <1>7 DEF Attached
<1>9. PrevOf(q) = [j \in U |-> IF j = i THEN Nothing
                               ELSE IF j = p.head THEN i
                               ELSE IF j = next[i] THEN prev[i] ELSE prev[j]]
  BY <1>2, <1>3, <1>5 DEF Detached, Attached
<1>10. NextOf(q) = [j \in U |-> IF j = i THEN p.head
                                ELSE IF j = prev[i] THEN next[i] ELSE next[j]]
  BY <1>2, <1>3, <1>5 DEF Detached, Attached
<1>11. q.tail = IF next[i] # Nothing THEN p.tail ELSE prev[i]
  BY <1>3, <1>8
<1> QED
  BY <1>6, <1>8, <1>9, <1>10, <1>11 DEF Moved, q

(* move_to_front keeps the entries and leaves a list, wherever i was.      *)
LEMMA MoveToFrontSound ==
  ASSUME NEW p \in Pools, NEW i \in Used(p), Linked(p)
  PROVE  SameContent(p, MoveToFront(p, i)) /\ Linked(MoveToFront(p, i))
<1>1. CASE p.entries[i].prev = Nothing
  <2>1. MoveToFront(p, i) = p
    BY <1>1 DEF MoveToFront
  <2> QED
    BY <2>1 DEF SameContent
<1>2. CASE p.entries[i].prev # Nothing
  <2> DEFINE U == Used(p)
             prev == PrevOf(p)
             next == NextOf(p)
             q == MoveToFront(p, i)
             dprev == [j \in U \ {i} |-> IF j = next[i] THEN prev[i] ELSE prev[j]]
             dnext == [j \in U \ {i} |-> IF j = prev[i] THEN next[i] ELSE next[j]]
             dtail == IF next[i] = Nothing THEN prev[i] ELSE p.tail
  <2>1. Moved(p, q, i)
    BY <1>2, MoveToFrontEffect
  <2> HIDE DEF q
  <2>2. prev[i] # Nothing /\ Used(p) # {} /\ p.tail # Nothing
    BY <1>2, LinkedHead DEF PrevOf
  <2>3. List(U \ {i}, dprev, dnext, p.head, dtail)
    <3>1. List(U, prev, next, p.head, p.tail)
      BY DEF Linked
    <3> QED
      BY <2>2, <3>1, Unlink
  <2>4. U = (U \ {i}) \cup {i} /\ i # Nothing /\ dtail # Nothing
    BY <2>2, UsedEntries, PoolAssumption
  <2> DEFINE aprev == [j \in U |-> IF j = i THEN Nothing ELSE IF j = p.head THEN i ELSE dprev[j]]
             anext == [j \in U |-> IF j = i THEN p.head ELSE dnext[j]]
  <2>5. List(U, aprev, anext, i, dtail)
    <3> HIDE DEF dprev, dnext, dtail, U
    <3>1. i \notin U \ {i}
      OBVIOUS
    <3>2. List((U \ {i}) \cup {i},
               [j \in (U \ {i}) \cup {i} |-> IF j = i THEN Nothing
                                             ELSE IF j = p.head THEN i ELSE dprev[j]],
               [j \in (U \ {i}) \cup {i} |-> IF j = i THEN p.head ELSE dnext[j]],
               i, IF dtail = Nothing THEN i ELSE dtail)
      BY <2>3, <2>4, <3>1, Push
    <3> QED
      BY <2>4, <3>2
  <2>6. PrevOf(q) = aprev /\ NextOf(q) = anext
    BY <2>1 DEF Moved
  <2>7. Used(q) = U /\ q.head = i /\ q.tail = dtail /\ SameContent(p, q)
    BY <2>1 DEF Moved, SameContent
  <2> HIDE DEF aprev, anext, dtail, U
  <2>8. Linked(q)
    BY <2>5, <2>6, <2>7 DEF Linked
  <2> QED
    BY <2>7, <2>8 DEF q
<1> QED
  BY <1>1, <1>2

(* A pool as every call finds it, with at most n entries.                  *)
Good(p, n) == p \in Pools /\ Mapped(p) /\ Linked(p) /\ Sized(p, n)

(* Relinking changes nothing that the map or the capacity sees.            *)
LEMMA SameContentGood ==
  ASSUME NEW p, NEW q, NEW n, Good(p, n), SameContent(p, q), Linked(q)
  PROVE  Good(q, n)
<1>1. q \in Pools /\ Sized(q, n)
  BY DEF Good, Sized, SameContent
<1>2. Mapped(q)
  BY DEF Good, Mapped, SameContent
<1> QED
  BY <1>1, <1>2 DEF Good

(* A promotion keeps everything but the order.                             *)
LEMMA Promoted ==
  ASSUME NEW p, NEW n, Good(p, n), NEW i \in Used(p)
  PROVE  /\ Good(MoveToFront(p, i), n)
         /\ MoveToFront(p, i).entries[i].value = p.entries[i].value
         /\ p.entries[i].value \in Values
<1>1. p \in Pools /\ Linked(p)
  BY DEF Good
<1>2. SameContent(p, MoveToFront(p, i)) /\ Linked(MoveToFront(p, i))
  BY <1>1, MoveToFrontSound
<1>3. MoveToFront(p, i).entries[i].value = p.entries[i].value
  BY <1>2 DEF SameContent
<1>4. p.entries[i].value \in Values
  BY <1>1, UsedEntries DEF Entry
<1> QED
  BY <1>2, <1>3, <1>4, SameContentGood

(* What evict_lru makes of the order and of the entries left.              *)
Evicted(p, q) ==
  LET U == Used(p) \ {p.tail}
  IN  /\ Used(q) = U
      /\ q.head = IF PrevOf(p)[p.tail] = Nothing THEN Nothing ELSE p.head
      /\ NextOf(q) = [j \in U |-> IF j = PrevOf(p)[p.tail] THEN Nothing ELSE NextOf(p)[j]]
      /\ \A j \in U : Seen(q, j) = Seen(p, j)

(* evict_lru: one entry less, and its key leads nowhere.                   *)
LEMMA EvictionSound ==
  ASSUME NEW p, NEW n \in Nat, Good(p, n), p.tail # Nothing
  PROVE  /\ Good(EvictLru(p), n - 1)
         /\ \A k \in CacheKeys : p.map[k] = Nothing => EvictLru(p).map[k] = Nothing
         /\ Evicted(p, EvictLru(p))
<1> DEFINE U == Used(p)
           lru == p.tail
           prev == p.entries[lru].prev
           p1 == LinkNext(p, prev, Nothing)
           key == p.entries[lru].key
           q == EvictLru(p)
<1>1. p \in Pools /\ Mapped(p) /\ Linked(p) /\ Sized(p, n) /\ lru \in U /\ lru \in Indices
  BY LinkedHead, UsedEntries DEF Good
<1>2. prev = PrevOf(p)[lru] /\ prev \in U \cup {Nothing} /\ prev \in Indices \cup {Nothing}
  BY <1>1, LinkedHead, UsedEntries DEF PrevOf
<1>3. key \in CacheKeys
  BY <1>1, UsedEntries DEF Entry
<1>4. NextSet(p, p1, prev, Nothing)
  BY <1>1, <1>2, LinkEffect
<1>5. q = [p1 EXCEPT !.head = IF prev = Nothing THEN Nothing ELSE @, !.tail = prev,
                     !.map[key] = Nothing, !.entries[lru] = Nothing]
  BY DEF EvictLru
<1> HIDE DEF p1, key, q, prev
<1>6. /\ p1 \in Pools /\ p1.map = p.map /\ p1.head = p.head /\ Used(p1) = U
      /\ p1.map \in [CacheKeys -> Indices \cup {Nothing}]
      /\ p1.entries \in [Indices -> Entry \cup {Nothing}] /\ p1.head \in Indices \cup {Nothing}
  BY <1>4 DEF NextSet, SameContent, Pools
<1>7. /\ q \in Pools /\ q.head = (IF prev = Nothing THEN Nothing ELSE p.head) /\ q.tail = prev
      /\ q.map = [p.map EXCEPT ![key] = Nothing]
      /\ q.entries = [p1.entries EXCEPT ![lru] = Nothing]
  BY <1>1, <1>2, <1>3, <1>5, <1>6 DEF Pools
<1>8. Used(q) = U \ {lru} /\ \A j \in U \ {lru} : q.entries[j] = p1.entries[j]
  BY <1>6, <1>7 DEF Used
<1>9. Linked(q) /\ Evicted(p, q)
  <2>1. /\ U # {}
        /\ List(U, PrevOf(p), NextOf(p), p.head, lru)
    BY <1>1 DEF Linked
  <2>2. List(U \ {lru}, [j \in U \ {lru} |-> PrevOf(p)[j]],
             [j \in U \ {lru} |-> IF j = prev THEN Nothing ELSE NextOf(p)[j]],
             IF prev = Nothing THEN Nothing ELSE p.head, prev)
    BY <1>2, <2>1, DropLast
  <2>3. \A j \in U : /\ p1.entries[j].prev = PrevOf(p)[j]
                     /\ p1.entries[j].next = IF j = prev THEN Nothing ELSE NextOf(p)[j]
    <3>1. /\ PrevOf(p1) = PrevOf(p)
          /\ NextOf(p1) = [j \in U |-> IF j = prev THEN Nothing ELSE NextOf(p)[j]]
      BY <1>4 DEF NextSet
    <3>2. \A j \in U : p1.entries[j].prev = PrevOf(p1)[j] /\ p1.entries[j].next = NextOf(p1)[j]
      BY <1>6 DEF PrevOf, NextOf
    <3> QED
      BY <3>1, <3>2
  <2>4. /\ PrevOf(q) = [j \in U \ {lru} |-> PrevOf(p)[j]]
        /\ NextOf(q) = [j \in U \ {lru} |-> IF j = prev THEN Nothing ELSE NextOf(p)[j]]
    BY <1>8, <2>3 DEF PrevOf, NextOf
  <2>5. \A j \in U \ {lru} : Seen(q, j) = Seen(p, j)
    BY <1>4, <1>8 DEF NextSet, SameContent, Seen
  <2>6. Linked(q)
    BY <1>7, <1>8, <2>2, <2>4 DEF Linked
  <2>7. Evicted(p, q)
    BY <1>2, <1>7, <1>8, <2>4, <2>5 DEF Evicted
  <2> QED
    BY <2>6, <2>7
<1>10. Mapped(q)
  <2>1. \A j \in U : p1.entries[j].key = p.entries[j].key
    BY <1>4 DEF NextSet, SameContent
  <2>2. p.map \in [CacheKeys -> Indices \cup {Nothing}] /\ Nothing \notin U
    BY <1>1, UsedEntries, PoolAssumption DEF Pools
  <2>3. /\ \A k \in CacheKeys : p.map[k] # Nothing => p.map[k] \in U /\ p.entries[p.map[k]].key = k
        /\ \A j \in U : p.map[p.entries[j].key] = j /\ p.entries[j].key \in CacheKeys
    BY <1>1, UsedEntries DEF Mapped, Entry
  <2>4. \A k \in CacheKeys : q.map[k] = IF k = key THEN Nothing ELSE p.map[k]
    BY <1>3, <1>7, <2>2
  <2>5. \A k \in CacheKeys : p.map[k] = lru => k = key
    BY <1>1, <2>3, PoolAssumption DEF key
  <2>6. \A j \in U \ {lru} : q.entries[j].key = p.entries[j].key /\ p.entries[j].key # key
    BY <1>1, <1>8, <2>1, <2>3 DEF key
  <2>7. ASSUME NEW k \in CacheKeys, q.map[k] # Nothing
        PROVE  q.map[k] \in U \ {lru} /\ q.entries[q.map[k]].key = k
    <3>1. k # key /\ q.map[k] = p.map[k] /\ p.map[k] \in U /\ p.map[k] # lru
      BY <2>3, <2>4, <2>5, <2>7
    <3>2. q.entries[p.map[k]].key = p.entries[p.map[k]].key
      BY <2>6, <3>1
    <3>3. p.entries[p.map[k]].key = k
      BY <2>3, <2>7, <3>1
    <3> QED
      BY <3>1, <3>2, <3>3
  <2>8. \A j \in U \ {lru} : q.map[q.entries[j].key] = j
    BY <2>3, <2>4, <2>6
  <2> QED
    BY <1>8, <2>7, <2>8 DEF Mapped
<1>11. Sized(q, n - 1)
  <2>1. IsFiniteSet(U) /\ Cardinality(U) <= n
    BY <1>1 DEF Sized
  <2>2. /\ IsFiniteSet(U \ {lru}) /\ Cardinality(U \ {lru}) = Cardinality(U) - 1
        /\ Cardinality(U) \in Nat
    BY <1>1, <2>1, FS_RemoveElement, FS_CardinalityType
  <2> HIDE DEF U
  <2>3. Cardinality(U \ {lru}) <= n - 1
    BY <2>1, <2>2
  <2> QED
    BY <1>8, <2>2, <2>3 DEF Sized
<1>12. \A k \in CacheKeys : p.map[k] = Nothing => q.map[k] = Nothing
  BY <1>3, <1>7, <1>1 DEF Pools
<1> QED
  BY <1>7, <1>9, <1>10, <1>11, <1>12 DEF Good, q

(* After the capacity check of a miss there is room for one entry more.    *)
LEMMA RoomMade ==
  ASSUME NEW p, Good(p, Capacity)
  PROVE  /\ Good(MakeRoom(p), Capacity - 1)
         /\ \A k \in CacheKeys : p.map[k] = Nothing => MakeRoom(p).map[k] = Nothing
<1>1. /\ Capacity \in Nat \ {0} /\ Sized(p, Capacity) /\ Linked(p) /\ p \in Pools
      /\ Cardinality(Used(p)) \in Nat
  BY PoolAssumption, FS_CardinalityType DEF Good, Sized
<1>2. CASE Cardinality(Used(p)) >= Capacity
  <2>1. Used(p) # {}
    BY <1>1, <1>2, FS_EmptySet
  <2>2. p.tail # Nothing
    BY <1>1, <2>1, LinkedHead
  <2>3. MakeRoom(p) = EvictLru(p)
    BY <1>2 DEF MakeRoom
  <2> QED
    BY <1>1, <2>2, <2>3, EvictionSound
<1>3. CASE ~(Cardinality(Used(p)) >= Capacity)
  <2>1. MakeRoom(p) = p
    BY <1>3 DEF MakeRoom
  <2>2. Sized(p, Capacity - 1)
    BY <1>1, <1>3 DEF Sized
  <2> QED
    BY <2>1, <2>2 DEF Good
<1> QED
  BY <1>2, <1>3

(* What a miss makes of the order: a new entry before all others.          *)
Pushed(p, q, i, k, v) ==
  LET U == Used(p) \cup {i}
  IN  /\ Used(q) = U /\ q.head = i
      /\ NextOf(q) = [j \in U |-> IF j = i THEN p.head ELSE NextOf(p)[j]]
      /\ Seen(q, i) = [key |-> k, value |-> v]
      /\ \A j \in Used(p) : Seen(q, j) = Seen(p, j)

(* The miss path at any free index of the slab, also one just freed.       *)
LEMMA AdditionSound ==
  ASSUME NEW p, Good(p, Capacity - 1), NEW k \in CacheKeys, NEW v \in Values,
         p.map[k] = Nothing, NEW i \in Indices \ Used(p)
  PROVE  Good(Added(p, i, k, v), Capacity) /\ Pushed(p, Added(p, i, k, v), i, k, v)
<1> DEFINE U == Used(p)
           new == [key |-> k, value |-> v, prev |-> Nothing, next |-> Nothing]
           p1 == [p EXCEPT !.entries[i] = new]
           p2 == AttachToFront(p1, i)
           q == Added(p, i, k, v)
<1>1. p \in Pools /\ Mapped(p) /\ Linked(p) /\ Sized(p, Capacity - 1) /\ Capacity \in Nat \ {0}
  BY PoolAssumption DEF Good
<1>2. new \in Entry /\ new # Nothing /\ new.key = k /\ new.prev = Nothing /\ new.next = Nothing
  BY PoolAssumption DEF Entry
<1>3. q = [p2 EXCEPT !.map[k] = i]
  BY DEF Added
<1> HIDE DEF new
<1>4. /\ p1 \in Pools /\ p1.map = p.map /\ p1.head = p.head /\ p1.tail = p.tail
      /\ p1.entries = [p.entries EXCEPT ![i] = new]
      /\ p.entries \in [Indices -> Entry \cup {Nothing}]
  BY <1>1, <1>2 DEF Pools
<1> HIDE DEF p1, q
<1>5. /\ Used(p1) = U \cup {i}
      /\ \A j \in U : j # i /\ p1.entries[j] = p.entries[j]
      /\ p1.entries[i] = new
  BY <1>2, <1>4 DEF Used
<1>6. p1.head \in Used(p1) \cup {Nothing}
  BY <1>1, <1>4, <1>5, LinkedHead
<1>7. Attached(p1, p2, i)
  BY <1>4, <1>5, <1>6, AttachEffect
<1> HIDE DEF p2
<1>8. /\ p2 \in Pools /\ p2.map = p.map /\ Used(p2) = U \cup {i}
      /\ p2.map \in [CacheKeys -> Indices \cup {Nothing}]
  BY <1>4, <1>5, <1>7 DEF Attached, SameContent, Pools
<1>9. /\ q \in Pools /\ q.entries = p2.entries /\ q.head = p2.head /\ q.tail = p2.tail
      /\ q.map = [p.map EXCEPT ![k] = i]
  BY <1>3, <1>8 DEF Pools
<1>10. Used(q) = U \cup {i} /\ PrevOf(q) = PrevOf(p2) /\ NextOf(q) = NextOf(p2)
  BY <1>8, <1>9 DEF Used, PrevOf, NextOf
<1>11. Linked(q) /\ Pushed(p, q, i, k, v)
  <2>1. i \notin U /\ i # Nothing /\ List(U, PrevOf(p), NextOf(p), p.head, p.tail)
    BY <1>1, PoolAssumption DEF Linked
  <2>2. List(U \cup {i},
             [j \in U \cup {i} |-> IF j = i THEN Nothing
                                   ELSE IF j = p.head THEN i ELSE PrevOf(p)[j]],
             [j \in U \cup {i} |-> IF j = i THEN p.head ELSE NextOf(p)[j]],
             i, IF p.tail = Nothing THEN i ELSE p.tail)
    <3> HIDE DEF U
    <3> QED
      BY <2>1, Push
  <2>3. \A j \in U : PrevOf(p1)[j] = PrevOf(p)[j] /\ NextOf(p1)[j] = NextOf(p)[j]
    BY <1>5 DEF PrevOf, NextOf
  <2>4. PrevOf(p2) = [j \in U \cup {i} |-> IF j = i THEN Nothing
                                           ELSE IF j = p.head THEN i ELSE PrevOf(p)[j]]
    BY <1>4, <1>5, <1>7, <2>3 DEF Attached
  <2>5. NextOf(p2) = [j \in U \cup {i} |-> IF j = i THEN p.head ELSE NextOf(p)[j]]
    BY <1>4, <1>5, <1>7, <2>3 DEF Attached
  <2>6. q.head = i /\ q.tail = IF p.tail = Nothing THEN i ELSE p.tail
    BY <1>4, <1>7, <1>9 DEF Attached
  <2>7. Linked(q)
    BY <1>10, <2>2, <2>4, <2>5, <2>6 DEF Linked
  <2>8. \A j \in U : Seen(q, j) = Seen(p, j)
    BY <1>5, <1>7, <1>9 DEF Attached, SameContent, Seen
  <2>9. Seen(q, i) = [key |-> k, value |-> v]
    <3>1. new.key = k /\ new.value = v
      BY DEF new
    <3> QED
      BY <1>5, <1>7, <1>9, <2>1, <3>1 DEF Attached, SameContent, Seen
  <2>10. NextOf(q) = [j \in U \cup {i} |-> IF j = i THEN p.head ELSE NextOf(p)[j]]
    BY <1>10, <2>5
  <2> QED
    BY <1>10, <2>6, <2>7, <2>8, <2>9, <2>10 DEF Pushed
<1>12. Mapped(q)
  <2>1. q.entries[i].key = k /\ \A j \in U : q.entries[j].key = p.entries[j].key
    BY <1>2, <1>5, <1>7, <1>9 DEF Attached, SameContent
  <2>2. p.map \in [CacheKeys -> Indices \cup {Nothing}] /\ Nothing \notin U
    BY <1>1, UsedEntries, PoolAssumption DEF Pools
  <2>3. /\ \A l \in CacheKeys : p.map[l] # Nothing => p.map[l] \in U /\ p.entries[p.map[l]].key = l
        /\ \A j \in U : p.map[p.entries[j].key] = j /\ p.entries[j].key \in CacheKeys
    BY <1>1, UsedEntries DEF Mapped, Entry
  <2>4. \A l \in CacheKeys : q.map[l] = IF l = k THEN i ELSE p.map[l]
    BY <1>9, <2>2
  <2>5. \A l \in CacheKeys : q.map[l] # Nothing =>
          q.map[l] \in U \cup {i} /\ q.entries[q.map[l]].key = l
    BY <2>1, <2>3, <2>4
  <2>6. ASSUME NEW j \in U PROVE q.map[q.entries[j].key] = j
    <3>1. p.entries[j].key # k
      BY <2>2, <2>3, <2>6
    <3> QED
      BY <2>1, <2>3, <2>4, <3>1
  <2>7. q.map[q.entries[i].key] = i
    BY <2>1, <2>4
  <2> QED
    BY <1>10, <2>5, <2>6, <2>7 DEF Mapped
<1>13. Sized(q, Capacity)
  <2>1. IsFiniteSet(U) /\ Cardinality(U) <= Capacity - 1 /\ i \notin U
    BY <1>1 DEF Sized
  <2>2. /\ IsFiniteSet(U \cup {i}) /\ Cardinality(U \cup {i}) = Cardinality(U) + 1
        /\ Cardinality(U) \in Nat
    BY <2>1, FS_AddElement, FS_CardinalityType
  <2> HIDE DEF U
  <2>3. Cardinality(U \cup {i}) <= Capacity
    BY <1>1, <2>1, <2>2
  <2> QED
    BY <1>10, <2>2, <2>3 DEF Sized
<1> QED
  BY <1>9, <1>11, <1>12, <1>13 DEF Good, q

(* What it makes of the order and of the entries to give one another value.*)
Updated(p, q, i, v) ==
  /\ Used(q) = Used(p) /\ q.head = p.head /\ NextOf(q) = NextOf(p) /\ q.map = p.map
  /\ \A j \in Used(p) :
       Seen(q, j) = [key |-> p.entries[j].key, value |-> IF j = i THEN v ELSE p.entries[j].value]

(* The value of an entry is replaced: keys and links are as they were.     *)
LEMMA UpdateSound ==
  ASSUME NEW p, NEW n, Good(p, n), NEW i \in Used(p), NEW v \in Values
  PROVE  /\ Good([p EXCEPT !.entries[i].value = v], n)
         /\ Updated(p, [p EXCEPT !.entries[i].value = v], i, v)
<1> DEFINE f == [p.entries[i] EXCEPT !.value = v]
           q == [p EXCEPT !.entries[i].value = v]
<1>1. p \in Pools /\ i \in Indices /\ p.entries[i] \in Entry
  BY UsedEntries DEF Good
<1>2. /\ f \in Entry /\ f # Nothing /\ f.key = p.entries[i].key
      /\ f.prev = p.entries[i].prev /\ f.next = p.entries[i].next
  BY <1>1, PoolAssumption DEF Entry
<1>3. q = [p EXCEPT !.entries = [p.entries EXCEPT ![i] = f]]
  BY <1>1 DEF Pools
<1> HIDE DEF f, q
<1>4. /\ q \in Pools /\ q.map = p.map /\ q.head = p.head /\ q.tail = p.tail
      /\ \A j \in Indices : q.entries[j] = IF j = i THEN f ELSE p.entries[j]
  BY <1>1, <1>2, <1>3 DEF Pools
<1>5. /\ Used(q) = Used(p)
      /\ \A j \in Used(p) : /\ q.entries[j].key = p.entries[j].key
                            /\ q.entries[j].prev = p.entries[j].prev
                            /\ q.entries[j].next = p.entries[j].next
  BY <1>1, <1>2, <1>4, PoolAssumption DEF Used
<1>6. PrevOf(q) = PrevOf(p) /\ NextOf(q) = NextOf(p)
  BY <1>5 DEF PrevOf, NextOf
<1>7. Linked(q) /\ Sized(q, n)
  BY <1>4, <1>5, <1>6 DEF Good, Linked, Sized
<1>8. Mapped(q)
  BY <1>4, <1>5 DEF Good, Mapped
<1>9. \A j \in Used(p) :
        Seen(q, j) = [key |-> p.entries[j].key, value |-> IF j = i THEN v ELSE p.entries[j].value]
  <2>1. f.value = v /\ f.key = p.entries[i].key
    BY <1>1 DEF f, Entry
  <2> QED
    BY <1>1, <1>4, <2>1, UsedEntries, PoolAssumption DEF Seen
<1>10. Updated(p, q, i, v)
  BY <1>4, <1>5, <1>6, <1>9 DEF Updated
<1> QED
  BY <1>4, <1>7, <1>8, <1>10 DEF Good, q

(* The pool of with_capacity and of clear.                                 *)
LEMMA EmptyPoolGood == Good(EmptyPool, Capacity)
<1>1. EmptyPool \in Pools
  BY DEF EmptyPool, Pools
<1>2. Used(EmptyPool) = {} /\ EmptyPool.head = Nothing /\ EmptyPool.tail = Nothing
  BY DEF EmptyPool, Used
<1>3. Mapped(EmptyPool)
  <2>1. \A k \in CacheKeys : EmptyPool.map[k] = Nothing
    BY DEF EmptyPool
  <2> QED
    BY <1>2, <2>1 DEF Mapped
<1>4. Linked(EmptyPool)
  <2>1. /\ PrevOf(EmptyPool) \in [{} -> {} \cup {Nothing}]
        /\ NextOf(EmptyPool) \in [{} -> {} \cup {Nothing}]
    BY <1>2 DEF PrevOf, NextOf
  <2>2. List({}, PrevOf(EmptyPool), NextOf(EmptyPool), Nothing, Nothing)
    BY <2>1 DEF List
  <2> QED
    BY <1>2, <2>2 DEF Linked
<1>5. Sized(EmptyPool, Capacity)
  BY <1>2, FS_EmptySet, PoolAssumption DEF Sized
<1> QED
  BY <1>1, <1>3, <1>4, <1>5 DEF Good
-----------------------------------------------------------------------------
(* The inductive invariant.                                                *)
IInv == Good(pool, Capacity) /\ answer \in Values \cup {Nothing}

(* A key of the map is at its entry: `entries[idx]` does not panic.        *)
LEMMA KeyLeadsToEntry ==
  ASSUME NEW p, NEW n, Good(p, n), NEW k \in CacheKeys, p.map[k] # Nothing
  PROVE  p.map[k] \in Used(p)
BY DEF Good, Mapped

(* The miss path of insert and of get_or_insert_with.                      *)
LEMMA AddSound ==
  ASSUME IInv, NEW k \in CacheKeys, NEW v \in Values, Add(k, v)
  PROVE  Good(pool', Capacity)
<1>1. /\ Good(MakeRoom(pool), Capacity - 1)
      /\ MakeRoom(pool).map[k] = Nothing
  BY RoomMade DEF IInv, Add
<1>2. PICK i \in Indices \ Used(MakeRoom(pool)) : pool' = Added(MakeRoom(pool), i, k, v)
  BY DEF Add
<1> QED
  BY <1>1, <1>2, AdditionSound

(* Every call, at any capacity, finds and leaves a pool whose map, slab    *)
(* and list are of the same entries.                                       *)
THEOREM Invariance == Spec => []IInv
<1>1. Init => IInv
  BY EmptyPoolGood DEF Init, IInv
<1>2. IInv /\ [Next]_vars => IInv'
  <2> SUFFICES ASSUME IInv, [Next]_vars PROVE IInv'
    OBVIOUS
  <2>1. ASSUME NEW k \in CacheKeys, Get(k) PROVE IInv'
    <3>1. CASE pool.map[k] = Nothing
      BY <2>1, <3>1 DEF Get, IInv
    <3>2. CASE pool.map[k] # Nothing
      <4>1. pool.map[k] \in Used(pool)
        BY <3>2, KeyLeadsToEntry DEF IInv
      <4>2. /\ pool' = MoveToFront(pool, pool.map[k])
            /\ answer' = pool'.entries[pool.map[k]].value
        BY <2>1, <3>2 DEF Get
      <4>3. Good(pool', Capacity) /\ answer' \in Values
        BY <4>1, <4>2, Promoted DEF IInv
      <4> QED
        BY <4>3 DEF IInv
    <3> QED
      BY <3>1, <3>2
  <2>2. ASSUME NEW k \in CacheKeys, NEW v \in Values, Insert(k, v) PROVE IInv'
    <3>1. CASE pool.map[k] # Nothing /\ answer' = pool.entries[pool.map[k]].value
               /\ pool' = MoveToFront([pool EXCEPT !.entries[pool.map[k]].value = v], pool.map[k])
      <4>1. pool.map[k] \in Used(pool)
        BY <3>1, KeyLeadsToEntry DEF IInv
      <4>2. /\ Good([pool EXCEPT !.entries[pool.map[k]].value = v], Capacity)
            /\ pool.map[k] \in Used([pool EXCEPT !.entries[pool.map[k]].value = v])
        BY <4>1, UpdateSound DEF IInv, Updated
      <4>3. Good(pool', Capacity)
        BY <3>1, <4>2, Promoted
      <4>4. answer' \in Values
        BY <3>1, <4>1, Promoted DEF IInv
      <4> QED
        BY <4>3, <4>4 DEF IInv
    <3>2. CASE Add(k, v) /\ answer' = Nothing
      BY <3>2, AddSound DEF IInv
    <3> QED
      BY <2>2, <3>1, <3>2 DEF Insert
  <2>3. ASSUME NEW k \in CacheKeys, NEW v \in Values, GetOrInsertWith(k, v) PROVE IInv'
    <3>1. CASE pool.map[k] # Nothing /\ answer' = pool.entries[pool.map[k]].value
               /\ pool' = MoveToFront(pool, pool.map[k])
      <4>1. pool.map[k] \in Used(pool)
        BY <3>1, KeyLeadsToEntry DEF IInv
      <4>2. Good(pool', Capacity) /\ answer' \in Values
        BY <3>1, <4>1, Promoted DEF IInv
      <4> QED
        BY <4>2 DEF IInv
    <3>2. CASE Add(k, v) /\ answer' = v
      BY <3>2, AddSound DEF IInv
    <3> QED
      BY <2>3, <3>1, <3>2 DEF GetOrInsertWith
  <2>4. CASE Clear
    BY <2>4, EmptyPoolGood DEF Clear, IInv
  <2>5. CASE UNCHANGED vars
    BY <2>5 DEF vars, IInv
  <2> QED
    BY <2>1, <2>2, <2>3, <2>4, <2>5 DEF Next
<1> QED
  BY <1>1, <1>2, PTL DEF Spec

(* Fields keep their types and the pool its capacity.                      *)
THEOREM TypeCorrect == Spec => []TypeOK
<1>1. IInv => TypeOK
  <2> SUFFICES ASSUME IInv PROVE TypeOK
    OBVIOUS
  <2>1. pool \in Pools /\ Sized(pool, Capacity)
    BY DEF IInv, Good
  <2>2. \A i \in Used(pool) : pool.entries[i] \in Entry
    BY <2>1, UsedEntries
  <2> QED
    BY <2>1, <2>2 DEF Pools, Sized, IInv, TypeOK
<1> QED
  BY <1>1, Invariance, PTL

(* However calls promote, evict and reuse slab entries, the map and the    *)
(* list stay on the same entries.                                          *)
THEOREM Soundness == Spec => []PoolSound
<1>1. IInv => PoolSound
  <2> SUFFICES ASSUME IInv PROVE PoolSound
    OBVIOUS
  <2>1. Mapped(pool) /\ List(Used(pool), PrevOf(pool), NextOf(pool), pool.head, pool.tail)
    BY DEF IInv, Good, Linked
  <2>2. MapExact
    BY <2>1 DEF Mapped, MapExact
  <2>3. \A i \in Used(pool) : PrevOf(pool)[i] = pool.entries[i].prev
                           /\ NextOf(pool)[i] = pool.entries[i].next
    BY DEF PrevOf, NextOf
  <2>4. ListSound
    BY <2>1, <2>3 DEF List, ListSound
  <2> QED
    BY <2>2, <2>4 DEF PoolSound
<1> QED
  BY <1>1, Invariance, PTL
-----------------------------------------------------------------------------
(* The refinement.  A list in the sense of List is a ring-free chain of    *)
(* links; Chain names the sequence that it is.  Each method has its lemma  *)
(* on how that sequence changes (...Chained), and one that LruCache does   *)
(* the same to the sequence of keys and values (...Matches).               *)

(* The sequence s is what is found from the head on.                       *)
Chain(U, next, head, s) ==
  /\ s \in Seq(U)
  /\ \A i \in U : \E m \in 1 .. Len(s) : s[m] = i
  /\ \A m, n \in 1 .. Len(s) : s[m] = s[n] => m = n
  /\ head = IF Len(s) = 0 THEN Nothing ELSE s[1]
  /\ \A m \in 1 .. Len(s) : next[s[m]] = IF m = Len(s) THEN Nothing ELSE s[m + 1]

(* t is s with i before it, and s without its m-th element.                *)
Before(i, s, t) ==
  /\ Len(t) = Len(s) + 1 /\ t[1] = i
  /\ \A m \in 2 .. Len(t) : t[m] = s[m - 1]
Without(m, s, t) ==
  /\ Len(t) = Len(s) - 1
  /\ \A n \in 1 .. Len(t) : t[n] = IF n < m THEN s[n] ELSE s[n + 1]

(* Both exist.                                                             *)
LEMMA BeforeExists ==
  ASSUME NEW T, NEW s \in Seq(T), NEW i \in T
  PROVE  <<i>> \o s \in Seq(T) /\ Before(i, s, <<i>> \o s)
BY DEF Before

LEMMA WithoutExists ==
  ASSUME NEW T, NEW s \in Seq(T), NEW m \in 1 .. Len(s)
  PROVE  Lru!RemoveAt(s, m) \in Seq(T) /\ Without(m, s, Lru!RemoveAt(s, m))
<1> DEFINE a == SubSeq(s, 1, m - 1)
           b == SubSeq(s, m + 1, Len(s))
<1>1. a \in Seq(T) /\ Len(a) = m - 1 /\ \A n \in 1 .. m - 1 : a[n] = s[n]
  OBVIOUS
<1>2. b \in Seq(T) /\ Len(b) = Len(s) - m /\ \A n \in 1 .. Len(s) - m : b[n] = s[m + n]
  OBVIOUS
<1>3. Lru!RemoveAt(s, m) = a \o b
  BY DEF Lru!RemoveAt
<1> HIDE DEF a, b
<1>4. /\ a \o b \in Seq(T) /\ Len(a \o b) = Len(a) + Len(b)
      /\ \A n \in 1 .. Len(a) + Len(b) : (a \o b)[n] = IF n <= Len(a) THEN a[n] ELSE b[n - Len(a)]
  BY <1>1, <1>2, ConcatProperties
<1>5. Len(a \o b) = Len(s) - 1
  BY <1>1, <1>2, <1>4
<1>6. \A n \in 1 .. Len(a \o b) : (a \o b)[n] = IF n < m THEN s[n] ELSE s[n + 1]
  <2> TAKE n \in 1 .. Len(a \o b)
  <2>1. CASE n < m
    BY <1>1, <1>2, <1>4, <2>1
  <2>2. CASE ~(n < m)
    <3>1. n - Len(a) \in 1 .. Len(s) - m /\ m + (n - Len(a)) = n + 1
      BY <1>1, <1>2, <1>4, <2>2
    <3>2. (a \o b)[n] = b[n - Len(a)] /\ b[n - Len(a)] = s[m + (n - Len(a))]
      BY <1>1, <1>2, <1>4, <2>2, <3>1
    <3> QED
      BY <2>2, <3>1, <3>2
  <2> QED
    BY <2>1, <2>2
<1> QED
  BY <1>3, <1>4, <1>5, <1>6 DEF Without

LEMMA FrontIsWithout ==
  ASSUME NEW T, NEW s \in Seq(T), Len(s) # 0
  PROVE  Lru!Front(s) \in Seq(T) /\ Without(Len(s), s, Lru!Front(s))
<1> DEFINE n == Len(s) - 1
           f == SubSeq(s, 1, n)
<1>1. Lru!Front(s) = f
  BY DEF Lru!Front
<1>2. n \in Nat /\ \A i \in 1 .. n : s[i] \in T
  OBVIOUS
<1> HIDE DEF n
<1>3. /\ f \in Seq(T) /\ Len(f) = IF 1 <= n THEN n - 1 + 1 ELSE 0
      /\ \A i \in 1 .. n - 1 + 1 : f[i] = s[1 + i - 1]
  BY <1>2, SubSeqProperties
<1> HIDE DEF f
<1>4. Len(f) = n /\ \A i \in 1 .. n : f[i] = s[i]
  BY <1>2, <1>3
<1>5. n = Len(s) - 1 /\ Len(s) \in Nat
  BY DEF n
<1> QED
  BY <1>1, <1>3, <1>4, <1>5 DEF Without

(* A new head.                                                             *)
LEMMA ChainPush ==
  ASSUME NEW U, NEW next, NEW head, NEW s, Chain(U, next, head, s),
         NEW i, i \notin U, NEW t \in Seq(U \cup {i}), Before(i, s, t),
         NEW n2, \A j \in U \cup {i} : n2[j] = IF j = i THEN head ELSE next[j]
  PROVE  Chain(U \cup {i}, n2, i, t)
<1> DEFINE U2 == U \cup {i}
<1>0. s \in Seq(U) /\ Len(s) \in Nat /\ \A m \in 1 .. Len(s) : s[m] \in U
  BY DEF Chain
<1>1. Len(t) = Len(s) + 1 /\ t[1] = i /\ \A m \in 2 .. Len(t) : t[m] = s[m - 1] /\ t[m] \in U
  BY <1>0 DEF Before
<1>2. \A j \in U2 : \E m \in 1 .. Len(t) : t[m] = j
  <2> TAKE j \in U2
  <2>1. CASE j = i
    BY <1>0, <1>1, <2>1
  <2>2. CASE j # i
    <3>1. PICK m \in 1 .. Len(s) : s[m] = j
      BY <2>2 DEF Chain
    <3>2. m + 1 \in 2 .. Len(t) /\ t[m + 1] = s[(m + 1) - 1] /\ (m + 1) - 1 = m
      BY <1>0, <1>1
    <3>3. m + 1 \in 1 .. Len(t) /\ t[m + 1] = j
      BY <1>0, <3>1, <3>2
    <3> QED
      BY <3>3
  <2> QED
    BY <2>1, <2>2
<1>3. \A m, n \in 1 .. Len(t) : t[m] = t[n] => m = n
  <2> SUFFICES ASSUME NEW m \in 1 .. Len(t), NEW n \in 1 .. Len(t), t[m] = t[n] PROVE m = n
    OBVIOUS
  <2>1. CASE m = 1 \/ n = 1
    BY <1>0, <1>1, <2>1
  <2>2. CASE m # 1 /\ n # 1
    <3>1. m - 1 \in 1 .. Len(s) /\ n - 1 \in 1 .. Len(s) /\ s[m - 1] = s[n - 1]
      BY <1>0, <1>1, <2>2
    <3>2. m - 1 = n - 1
      BY <3>1 DEF Chain
    <3> QED
      BY <3>2
  <2> QED
    BY <2>1, <2>2
<1>4. i = IF Len(t) = 0 THEN Nothing ELSE t[1]
  BY <1>0, <1>1
<1>5. \A m \in 1 .. Len(t) : n2[t[m]] = IF m = Len(t) THEN Nothing ELSE t[m + 1]
  <2> TAKE m \in 1 .. Len(t)
  <2>1. CASE m = 1
    <3>1. n2[t[m]] = head
      BY <1>1, <2>1
    <3>2. head = IF Len(s) = 0 THEN Nothing ELSE s[1]
      BY DEF Chain
    <3>3. CASE Len(s) = 0
      BY <1>1, <2>1, <3>1, <3>2, <3>3
    <3>4. CASE Len(s) # 0
      <4>1. 2 \in 2 .. Len(t) /\ t[2] = s[2 - 1] /\ m # Len(t)
        BY <1>0, <1>1, <2>1, <3>4
      <4> QED
        BY <2>1, <3>1, <3>2, <3>4, <4>1
    <3> QED
      BY <3>3, <3>4
  <2>2. CASE m # 1
    <3>0. m \in 2 .. Len(t) /\ m - 1 \in 1 .. Len(s)
      BY <1>0, <1>1, <2>2
    <3>1. m - 1 \in 1 .. Len(s) /\ t[m] = s[m - 1] /\ t[m] \in U
      BY <1>1, <3>0
    <3>2. n2[t[m]] = next[s[m - 1]]
      BY <3>1
    <3>3. next[s[m - 1]] = IF m - 1 = Len(s) THEN Nothing ELSE s[(m - 1) + 1]
      BY <3>1 DEF Chain
    <3>4. m # Len(t) => t[m + 1] = s[m]
      <4>1. m # Len(t) => m + 1 \in 2 .. Len(t) /\ (m + 1) - 1 = m
        BY <1>0, <1>1
      <4> QED
        BY <1>1, <4>1
    <3> QED
      BY <1>0, <1>1, <3>2, <3>3, <3>4
  <2> QED
    BY <2>1, <2>2
<1> QED
  BY <1>2, <1>3, <1>4, <1>5 DEF Chain

(* An element goes that is not the head.                                   *)
LEMMA ChainUnlink ==
  ASSUME NEW U, NEW next, NEW head, NEW s, Chain(U, next, head, s),
         NEW m \in 2 .. Len(s), NEW t \in Seq(U), Without(m, s, t),
         NEW n2, \A j \in U \ {s[m]} : n2[j] = IF j = s[m - 1] THEN next[s[m]] ELSE next[j]
  PROVE  Chain(U \ {s[m]}, n2, head, t)
<1> DEFINE U2 == U \ {s[m]}
           At(n) == IF n < m THEN n ELSE n + 1
<1>0. s \in Seq(U) /\ Len(s) \in Nat /\ (\A n \in 1 .. Len(s) : s[n] \in U) /\ m \in Nat /\ m > 1
      /\ m <= Len(s)
  BY DEF Chain
<1>1. Len(t) = Len(s) - 1 /\ \A n \in 1 .. Len(t) : t[n] = s[At(n)]
  BY DEF Without
<1>2. \A n \in 1 .. Len(t) : At(n) \in 1 .. Len(s) /\ At(n) # m
  BY <1>0, <1>1
<1>3. \A k, n \in 1 .. Len(s) : s[k] = s[n] => k = n
  BY DEF Chain
<1>4. \A n \in 1 .. Len(t) : t[n] \in U2
  <2> TAKE n \in 1 .. Len(t)
  <2>1. s[At(n)] \in U /\ s[At(n)] # s[m]
    BY <1>0, <1>2, <1>3
  <2> QED
    BY <1>1, <2>1
<1>5. t \in Seq(U2)
  <2>1. t = [n \in 1 .. Len(t) |-> t[n]] /\ Len(t) \in Nat
    OBVIOUS
  <2> QED
    BY <1>4, <2>1
<1>6. \A j \in U2 : \E n \in 1 .. Len(t) : t[n] = j
  <2> TAKE j \in U2
  <2>1. PICK k \in 1 .. Len(s) : s[k] = j
    BY DEF Chain
  <2>2. k # m
    BY <2>1
  <2>3. CASE k < m
    <3>1. k \in 1 .. Len(t) /\ At(k) = k
      BY <1>0, <1>1, <2>3
    <3> QED
      BY <1>1, <2>1, <3>1
  <2>4. CASE k > m
    <3>1. k - 1 \in 1 .. Len(t) /\ At(k - 1) = k
      BY <1>0, <1>1, <2>4
    <3> QED
      BY <1>1, <2>1, <3>1
  <2> QED
    BY <1>0, <2>2, <2>3, <2>4
<1>7. \A k, n \in 1 .. Len(t) : t[k] = t[n] => k = n
  <2> SUFFICES ASSUME NEW k \in 1 .. Len(t), NEW n \in 1 .. Len(t), t[k] = t[n] PROVE k = n
    OBVIOUS
  <2>1. At(k) = At(n)
    <3> HIDE DEF At
    <3> QED
      BY <1>1, <1>2, <1>3
  <2> QED
    BY <1>0, <2>1
<1>8. head = IF Len(t) = 0 THEN Nothing ELSE t[1]
  <2>1. Len(t) # 0 /\ 1 \in 1 .. Len(t) /\ At(1) = 1 /\ Len(s) # 0
    BY <1>0, <1>1
  <2>2. head = s[1]
    BY <2>1 DEF Chain
  <2> QED
    BY <1>1, <2>1, <2>2
<1>9. \A n \in 1 .. Len(t) : n2[t[n]] = IF n = Len(t) THEN Nothing ELSE t[n + 1]
  <2> TAKE n \in 1 .. Len(t)
  <2>0. \A k \in 1 .. Len(s) : next[s[k]] = IF k = Len(s) THEN Nothing ELSE s[k + 1]
    BY DEF Chain
  <2>1. n # Len(t) => t[n + 1] = s[At(n + 1)]
    <3>1. n # Len(t) => n + 1 \in 1 .. Len(t)
      BY <1>0, <1>1
    <3> HIDE DEF At
    <3> QED
      BY <1>1, <3>1
  <2>2. CASE n = m - 1
    <3>1. t[n] = s[m - 1] /\ t[n] \in U2
      BY <1>0, <1>1, <1>4, <2>2
    <3>2. n2[t[n]] = next[s[m]]
      BY <3>1
    <3>3. next[s[m]] = IF m = Len(s) THEN Nothing ELSE s[m + 1]
      BY <2>0, <1>0
    <3>4. At(n + 1) = m + 1 /\ (n = Len(t) <=> m = Len(s))
      BY <1>0, <1>1, <2>2
    <3> QED
      BY <2>1, <3>2, <3>3, <3>4
  <2>3. CASE n # m - 1
    <3>1. At(n) # m - 1 /\ At(n) \in 1 .. Len(s) /\ m - 1 \in 1 .. Len(s)
      BY <1>0, <1>1, <2>3
    <3>2. t[n] # s[m - 1] /\ t[n] \in U2 /\ t[n] = s[At(n)]
      <4> HIDE DEF At
      <4> QED
        BY <1>1, <1>3, <1>4, <3>1
    <3>3. n2[t[n]] = next[s[At(n)]]
      BY <3>2
    <3>4. next[s[At(n)]] = IF At(n) = Len(s) THEN Nothing ELSE s[At(n) + 1]
      <4> HIDE DEF At
      <4> QED
        BY <2>0, <3>1
    <3>5. (n = Len(t) <=> At(n) = Len(s)) /\ (n # Len(t) => At(n) + 1 = At(n + 1))
      BY <1>0, <1>1, <2>3
    <3> QED
      <4> HIDE DEF At
      <4> QED
        BY <2>1, <3>3, <3>4, <3>5
  <2> QED
    BY <2>2, <2>3
<1> HIDE DEF U2
<1>10. Chain(U2, n2, head, t)
  BY <1>5, <1>6, <1>7, <1>8, <1>9 DEF Chain
<1> QED
  BY <1>10 DEF U2

(* Neighbours in the chain are neighbours in the list.                     *)
LEMMA ChainEnds ==
  ASSUME NEW U, NEW prev, NEW next, NEW head, NEW tail, List(U, prev, next, head, tail),
         NEW s, Chain(U, next, head, s), NEW m \in 1 .. Len(s)
  PROVE  /\ s[m] \in U
         /\ prev[s[m]] = IF m = 1 THEN Nothing ELSE s[m - 1]
         /\ s[m] = tail <=> m = Len(s)
<1>0. s \in Seq(U) /\ Len(s) \in Nat /\ \A n \in 1 .. Len(s) : s[n] \in U
  BY DEF Chain
<1>1. s[m] \in U /\ Nothing \notin U
  BY <1>0 DEF List
<1>2. ASSUME m = 1 PROVE prev[s[m]] = Nothing
  <2>1. head = s[1]
    BY <1>0, <1>2 DEF Chain
  <2> QED
    BY <1>1, <1>2, <2>1 DEF List
<1>3. ASSUME m # 1 PROVE prev[s[m]] = s[m - 1]
  <2>1. m - 1 \in 1 .. Len(s) /\ m - 1 # Len(s) /\ (m - 1) + 1 = m
    BY <1>0, <1>3
  <2>2. next[s[m - 1]] = s[m] /\ s[m - 1] \in U
    BY <1>0, <2>1 DEF Chain
  <2> QED
    BY <1>1, <2>2 DEF List
<1>4. s[m] = tail <=> m = Len(s)
  <2>1. s[m] = tail <=> next[s[m]] = Nothing
    BY <1>1 DEF List
  <2>2. next[s[m]] = IF m = Len(s) THEN Nothing ELSE s[m + 1]
    BY DEF Chain
  <2>3. m # Len(s) => s[m + 1] \in U
    BY <1>0
  <2> QED
    BY <1>1, <2>1, <2>2, <2>3
<1> QED
  BY <1>1, <1>2, <1>3, <1>4
-----------------------------------------------------------------------------
(* Induction, for a set in place of a predicate.                           *)
LEMMA SetInduction ==
  ASSUME NEW S, 0 \in S, \A n \in Nat : n \in S => n + 1 \in S
  PROVE  Nat \subseteq S
<1> DEFINE T == Nat \ S
<1> SUFFICES ASSUME T # {} PROVE FALSE
  OBVIOUS
<1>1. PICK x \in T : \A y \in T : ~ (<<y, x>> \in OpToRel(<, Nat))
  BY NatLessThanWellFounded, WFMin, T \subseteq Nat
<1>2. x # 0 /\ x - 1 \in Nat /\ x - 1 < x /\ (x - 1) + 1 = x
  OBVIOUS
<1>3. x - 1 \in T
  BY <1>2
<1> QED
  BY <1>1, <1>2, <1>3 DEF OpToRel

Chained(p, s) == Chain(Used(p), NextOf(p), p.head, s)

(* What a caller sees of the entries of the sequence s.                    *)
Content(p, s) == [m \in 1 .. Len(s) |-> Seen(p, s[m])]

(* The chain has as many elements as the slab.                             *)
LEMMA ChainLength ==
  ASSUME NEW p, NEW s, Chained(p, s)
  PROVE  s \in Seq(Used(p)) /\ Len(s) \in Nat /\ Len(s) = Cardinality(Used(p))
<1>1. s \in Seq(Used(p)) /\ Len(s) \in Nat
  BY DEF Chained, Chain
<1>2. s \in [1 .. Len(s) -> Used(p)]
  BY <1>1
<1>3. s \in Bijection(1 .. Len(s), Used(p))
  BY <1>2 DEF Chained, Chain, Bijection, Injection, Surjection, IsInjective
<1>4. ExistsBijection(1 .. Len(s), Used(p))
  BY <1>3 DEF ExistsBijection
<1> QED
  BY <1>1, <1>4, FS_CountingElements

(* What the recursion of InOrder says of a function.                       *)
IsWalk(p, f) ==
  f = [n \in 1 .. Cardinality(Used(p)) |->
         IF n = 1 THEN p.head
         ELSE IF f[n - 1] = Nothing THEN Nothing ELSE p.entries[f[n - 1]].next]

(* The chain is such a function ...                                        *)
LEMMA ChainIsWalk ==
  ASSUME NEW p \in Pools, NEW s, Chained(p, s)
  PROVE  IsWalk(p, s)
<1> DEFINE N == Cardinality(Used(p))
           e(n) == IF n = 1 THEN p.head
                   ELSE IF s[n - 1] = Nothing THEN Nothing ELSE p.entries[s[n - 1]].next
<1>1. Len(s) = N /\ N \in Nat /\ s \in Seq(Used(p))
  BY ChainLength
<1>2. \A n \in 1 .. N : s[n] \in Used(p) /\ s[n] # Nothing
  BY <1>1, UsedEntries, PoolAssumption
<1>3. \A n \in 1 .. N : s[n] = e(n)
  <2> TAKE n \in 1 .. N
  <2>1. CASE n = 1
    BY <1>1, <2>1 DEF Chained, Chain
  <2>2. CASE n # 1
    <3>1. n - 1 \in 1 .. Len(s) /\ n - 1 # Len(s) /\ (n - 1) + 1 = n /\ n - 1 \in 1 .. N
      BY <1>1, <2>2
    <3>2. NextOf(p)[s[n - 1]] = s[n]
      BY <3>1 DEF Chained, Chain
    <3> QED
      BY <1>2, <2>2, <3>1, <3>2 DEF NextOf
  <2> QED
    BY <2>1, <2>2
<1> HIDE DEF N, e
<1>4. s = [n \in 1 .. N |-> s[n]]
  BY <1>1
<1>5. s = [n \in 1 .. N |-> e(n)]
  BY <1>3, <1>4
<1> QED
  BY <1>5 DEF N, e, IsWalk

(* ... and the only one.                                                   *)
LEMMA WalkUnique ==
  ASSUME NEW p, NEW f, IsWalk(p, f), NEW g, IsWalk(p, g), Cardinality(Used(p)) \in Nat
  PROVE  f = g
<1> DEFINE N == Cardinality(Used(p))
           e(h, n) == IF n = 1 THEN p.head
                      ELSE IF h[n - 1] = Nothing THEN Nothing ELSE p.entries[h[n - 1]].next
           S == {n \in Nat : n + 1 \in 1 .. N => f[n + 1] = g[n + 1]}
<1>1. f = [n \in 1 .. N |-> e(f, n)] /\ g = [n \in 1 .. N |-> e(g, n)]
  BY DEF IsWalk
<1>2. \A n \in 1 .. N : f[n] = e(f, n) /\ g[n] = e(g, n)
  <2> DEFINE ef(n) == e(f, n)
             eg(n) == e(g, n)
  <2>1. f = [n \in 1 .. N |-> ef(n)] /\ g = [n \in 1 .. N |-> eg(n)]
    BY <1>1
  <2> HIDE DEF ef, eg
  <2>2. \A n \in 1 .. N : f[n] = ef(n) /\ g[n] = eg(n)
    BY <2>1
  <2> QED
    BY <2>2 DEF ef, eg
<1>3. 0 \in S
  BY <1>2
<1>4. ASSUME NEW n \in Nat, n \in S PROVE n + 1 \in S
  <2>1. SUFFICES ASSUME (n + 1) + 1 \in 1 .. N PROVE f[(n + 1) + 1] = g[(n + 1) + 1]
    OBVIOUS
  <2>2. n + 1 \in 1 .. N /\ ((n + 1) + 1) - 1 = n + 1 /\ (n + 1) + 1 # 1
    BY <2>1
  <2>3. f[n + 1] = g[n + 1]
    BY <1>4, <2>2
  <2>4. e(f, (n + 1) + 1) = e(g, (n + 1) + 1)
    BY <2>2, <2>3
  <2> HIDE DEF e
  <2> QED
    BY <1>2, <2>1, <2>4
<1>5. Nat \subseteq S
  <2> HIDE DEF S
  <2> QED
    BY <1>3, <1>4, SetInduction
<1>6. \A n \in 1 .. N : f[n] = g[n]
  <2> TAKE n \in 1 .. N
  <2>1. n - 1 \in Nat /\ (n - 1) + 1 = n
    OBVIOUS
  <2> QED
    BY <1>5, <2>1
<1>7. f = [n \in 1 .. N |-> f[n]] /\ g = [n \in 1 .. N |-> g[n]]
  BY DEF IsWalk
<1> QED
  BY <1>6, <1>7

(* So what the refinement mapping lists is what the chain holds.           *)
LEMMA InOrderIs ==
  ASSUME NEW p \in Pools, NEW s, Chained(p, s)
  PROVE  InOrder(p) = Content(p, s)
<1> DEFINE W == CHOOSE f : IsWalk(p, f)
<1>1. Len(s) = Cardinality(Used(p)) /\ Len(s) \in Nat /\ s \in Seq(Used(p))
  BY ChainLength
<1>2. W = s
  BY <1>1, ChainIsWalk, WalkUnique
<1>3. InOrder(p) = [n \in 1 .. Cardinality(Used(p)) |-> Seen(p, W[n])]
  BY DEF InOrder, IsWalk
<1> QED
  BY <1>1, <1>2, <1>3 DEF Content
-----------------------------------------------------------------------------
(* The m-th element before all others.                                     *)
Raised(s, m) == <<s[m]>> \o Lru!RemoveAt(s, m)

LEMMA RaisedElements ==
  ASSUME NEW T, NEW s \in Seq(T), NEW m \in 1 .. Len(s)
  PROVE  /\ Raised(s, m) \in Seq(T) /\ Len(Raised(s, m)) = Len(s)
         /\ \A n \in 1 .. Len(s) :
              Raised(s, m)[n] = IF n = 1 THEN s[m] ELSE IF n <= m THEN s[n - 1] ELSE s[n]
<1> DEFINE r == Lru!RemoveAt(s, m)
<1>1. r \in Seq(T) /\ Without(m, s, r) /\ s[m] \in T
  BY WithoutExists
<1> HIDE DEF r
<1>2. <<s[m]>> \o r \in Seq(T) /\ Before(s[m], r, <<s[m]>> \o r)
  BY <1>1, BeforeExists
<1>3. Raised(s, m) = <<s[m]>> \o r
  BY DEF Raised, r
<1>4. Len(Raised(s, m)) = Len(s)
  BY <1>1, <1>2, <1>3 DEF Before, Without
<1>5. ASSUME NEW n \in 1 .. Len(s)
      PROVE  Raised(s, m)[n] = IF n = 1 THEN s[m] ELSE IF n <= m THEN s[n - 1] ELSE s[n]
  <2>1. CASE n = 1
    BY <1>2, <1>3, <2>1 DEF Before
  <2>2. CASE n # 1
    <3>1. n \in 2 .. Len(s) /\ n - 1 \in 1 .. Len(r) /\ (n - 1) + 1 = n /\ (n - 1 < m <=> n <= m)
      BY <1>1, <2>2 DEF Without
    <3>2. Raised(s, m)[n] = r[n - 1]
      BY <1>2, <1>3, <1>4, <3>1 DEF Before
    <3>3. r[n - 1] = IF n - 1 < m THEN s[n - 1] ELSE s[(n - 1) + 1]
      BY <1>1, <3>1 DEF Without
    <3> QED
      BY <2>2, <3>1, <3>2, <3>3
  <2> QED
    BY <2>1, <2>2
<1> QED
  BY <1>2, <1>3, <1>4, <1>5

(* What the chain is after move_to_front.                                  *)
LEMMA MoveChained ==
  ASSUME NEW p \in Pools, Linked(p), NEW s, Chained(p, s), NEW m \in 1 .. Len(s)
  PROVE  /\ s[m] \in Used(p)
         /\ Chained(MoveToFront(p, s[m]), Raised(s, m))
<1> DEFINE U == Used(p)
           i == s[m]
           q == MoveToFront(p, i)
           r == Lru!RemoveAt(s, m)
           t == Raised(s, m)
<1>1. List(U, PrevOf(p), NextOf(p), p.head, p.tail) /\ Chain(U, NextOf(p), p.head, s)
  BY DEF Linked, Chained
<1>2. s \in Seq(U) /\ Len(s) \in Nat
  BY <1>1 DEF Chain
<1>3. /\ i \in U /\ PrevOf(p)[i] = (IF m = 1 THEN Nothing ELSE s[m - 1])
      /\ PrevOf(p)[i] = p.entries[i].prev
  <2>1. i \in U /\ PrevOf(p)[i] = IF m = 1 THEN Nothing ELSE s[m - 1]
    <3> HIDE DEF U
    <3> QED
      BY <1>1, ChainEnds
  <2> QED
    BY <2>1 DEF PrevOf
<1>4. t \in Seq(U) /\ Len(t) = Len(s)
  <2> HIDE DEF U
  <2> QED
    BY <1>2, RaisedElements
<1>5. CASE m = 1
  <2>1. q = p
    BY <1>3, <1>5 DEF MoveToFront
  <2>2. \A n \in 1 .. Len(s) : t[n] = IF n = 1 THEN s[m] ELSE IF n <= m THEN s[n - 1] ELSE s[n]
    <3> HIDE DEF U
    <3> QED
      BY <1>2, RaisedElements
  <2>3. \A n \in 1 .. Len(s) : t[n] = s[n]
    BY <1>2, <1>5, <2>2
  <2>4. t = s
    <3> HIDE DEF t, U
    <3> QED
      BY <1>2, <1>4, <2>3, SeqEqual
  <2> QED
    BY <1>3, <2>1, <2>4
<1>6. CASE m # 1
  <2>1. m \in 2 .. Len(s) /\ m - 1 \in 1 .. Len(s)
    BY <1>2, <1>6
  <2>2. p.entries[i].prev = s[m - 1] /\ s[m - 1] \in U /\ s[m - 1] # Nothing
    BY <1>2, <1>3, <1>6, <2>1, UsedEntries, PoolAssumption
  <2> HIDE DEF i, q
  <2>3. Moved(p, q, i)
    BY <1>3, <2>2, MoveToFrontEffect DEF i, q
  <2>4. Used(q) = U /\ q.head = i
    BY <2>3 DEF Moved, SameContent
  <2>5. r \in Seq(U) /\ Without(m, s, r)
    <3> HIDE DEF U
    <3> QED
      BY <1>2, WithoutExists
  <2> DEFINE n1 == [j \in U \ {i} |-> IF j = s[m - 1] THEN NextOf(p)[i] ELSE NextOf(p)[j]]
             n2 == NextOf(q)
  <2>6. Chain(U \ {i}, n1, p.head, r)
    <3>1. \A j \in U \ {i} : n1[j] = IF j = s[m - 1] THEN NextOf(p)[i] ELSE NextOf(p)[j]
      OBVIOUS
    <3> HIDE DEF U, r, n1
    <3> QED
      BY <1>1, <2>1, <2>5, <3>1, ChainUnlink DEF i
  <2>7. t = <<i>> \o r
    BY DEF Raised, i
  <2>8. Before(i, r, t)
    <3> HIDE DEF r, t, U
    <3> QED
      BY <1>3, <2>5, <2>7, BeforeExists
  <2>9. Chain(U, n2, i, t)
    <3> DEFINE V == U \ {i}
    <3>1. U = V \cup {i} /\ i \notin V
      BY <1>3 DEF i
    <3>2. \A j \in V \cup {i} : n2[j] = IF j = i THEN p.head ELSE n1[j]
      <4>1. PrevOf(p)[i] = s[m - 1]
        BY <1>3, <1>6 DEF i
      <4> QED
        BY <2>3, <3>1, <4>1 DEF Moved
    <3>3. Chain(V, n1, p.head, r)
      BY <2>6
    <3> HIDE DEF U, V, r, t, n1, n2
    <3>4. t \in Seq(V \cup {i})
      BY <1>4, <3>1
    <3>5. Chain(V \cup {i}, n2, i, t)
      BY <2>8, <3>1, <3>2, <3>3, <3>4, ChainPush
    <3> QED
      BY <3>1, <3>5
  <2> HIDE DEF U, t
  <2>10. Chained(q, t)
    BY <2>4, <2>9 DEF Chained
  <2> QED
    BY <1>3, <2>10 DEF t, i, q, U
<1> QED
  BY <1>5, <1>6

(* After evict_lru.                                                        *)
LEMMA EvictChained ==
  ASSUME NEW p \in Pools, Linked(p), NEW s, Chained(p, s), Len(s) # 0,
         NEW q, Evicted(p, q)
  PROVE  Chained(q, Lru!Front(s))
<1> DEFINE U == Used(p)
           i == p.tail
           t == Lru!Front(s)
           m == Len(s)
<1>1. List(U, PrevOf(p), NextOf(p), p.head, p.tail) /\ Chain(U, NextOf(p), p.head, s)
  BY DEF Linked, Chained
<1>2. s \in Seq(U) /\ Len(s) \in Nat /\ m \in 1 .. Len(s)
  BY <1>1 DEF Chain
<1>3. /\ s[m] = i /\ i \in U /\ PrevOf(p)[i] = IF m = 1 THEN Nothing ELSE s[m - 1]
  <2> HIDE DEF U, i, m
  <2>1. /\ s[m] \in U /\ (s[m] = p.tail <=> m = Len(s))
        /\ PrevOf(p)[s[m]] = IF m = 1 THEN Nothing ELSE s[m - 1]
    BY <1>1, <1>2, ChainEnds
  <2> QED
    BY <2>1 DEF i, m
<1>4. t \in Seq(U) /\ Without(m, s, t)
  <2> HIDE DEF U
  <2> QED
    BY <1>2, FrontIsWithout
<1>5. NextOf(p)[i] = Nothing
  BY <1>1, <1>2, <1>3 DEF Chain
<1> DEFINE n1 == [j \in U \ {i} |-> IF j = PrevOf(p)[i] THEN Nothing ELSE NextOf(p)[j]]
<1>6. Used(q) = U \ {i} /\ NextOf(q) = n1
      /\ q.head = IF PrevOf(p)[i] = Nothing THEN Nothing ELSE p.head
  BY DEF Evicted
<1>7. CASE m = 1
  <2>1. U \ {i} = {}
    <3>1. \A j \in U : \E n \in 1 .. Len(s) : s[n] = j
      BY <1>1 DEF Chain
    <3> QED
      BY <1>3, <1>7, <3>1
  <2>2. Len(t) = 0 /\ t = <<>>
    BY <1>2, <1>4, <1>7 DEF Without
  <2>3. t \in Seq({})
    BY <2>2
  <2>4. q.head = Nothing
    BY <1>3, <1>6, <1>7
  <2> HIDE DEF t, n1, U, i
  <2>5. Chain({}, n1, Nothing, t)
    BY <2>2, <2>3 DEF Chain
  <2> QED
    BY <1>6, <2>1, <2>4, <2>5 DEF Chained, t
<1>8. CASE m # 1
  <2>1. m \in 2 .. Len(s) /\ m - 1 \in 1 .. Len(s)
    <3>1. \A n \in Nat : n # 0 /\ n # 1 => n \in 2 .. n /\ n - 1 \in 1 .. n
      OBVIOUS
    <3> HIDE DEF U
    <3>2. m \in Nat /\ m # 0 /\ m # 1
      BY <1>2, <1>8
    <3> HIDE DEF m
    <3>3. m \in 2 .. m /\ m - 1 \in 1 .. m
      BY <3>1, <3>2
    <3> QED
      BY <3>3 DEF m
  <2>0. s[m - 1] \in U
    BY <1>2, <2>1
  <2>2. PrevOf(p)[i] = s[m - 1] /\ s[m - 1] # Nothing
    BY <1>3, <1>8, <2>0, UsedEntries, PoolAssumption
  <2>3. q.head = p.head
    BY <1>6, <2>2
  <2>4. \A j \in U \ {i} : NextOf(q)[j] = IF j = s[m - 1] THEN NextOf(p)[i] ELSE NextOf(p)[j]
    BY <1>5, <1>6, <2>2
  <2> HIDE DEF U, t, i, m, n1
  <2>5. m \in 2 .. Len(s)
    BY <2>1
  <2>6. Chain(U \ {i}, NextOf(q), p.head, t)
    BY <1>1, <1>3, <1>4, <2>4, <2>5, ChainUnlink
  <2> QED
    BY <1>6, <2>3, <2>6 DEF Chained, t
<1> QED
  BY <1>7, <1>8

(* And after a miss.                                                       *)
LEMMA PushChained ==
  ASSUME NEW p, NEW s, Chained(p, s), NEW q, NEW i, NEW k, NEW v,
         i \notin Used(p), Pushed(p, q, i, k, v)
  PROVE  Chained(q, <<i>> \o s)
<1> DEFINE U == Used(p)
           t == <<i>> \o s
<1>1. Chain(U, NextOf(p), p.head, s) /\ s \in Seq(U)
  BY DEF Chained, Chain
<1>2. s \in Seq(U \cup {i})
  BY <1>1
<1>3. t \in Seq(U \cup {i}) /\ Before(i, s, t)
  <2> HIDE DEF U
  <2> QED
    BY <1>2, BeforeExists
<1>4. Chain(U \cup {i}, NextOf(q), i, t)
  <2>1. i \notin U /\ \A j \in U \cup {i} : NextOf(q)[j] = IF j = i THEN p.head ELSE NextOf(p)[j]
    BY DEF Pushed
  <2> HIDE DEF U, t
  <2> QED
    BY <1>1, <1>3, <2>1, ChainPush
<1> QED
  BY <1>4 DEF Chained, Pushed
-----------------------------------------------------------------------------
Records == [key : CacheKeys, value : Values]

(* The entries of a chain, as the cache sees them.                         *)
LEMMA ContentIs ==
  ASSUME NEW p \in Pools, NEW s, Chained(p, s)
  PROVE  /\ s \in Seq(Used(p)) /\ Len(s) \in Nat
         /\ Content(p, s) \in Seq(Records) /\ Len(Content(p, s)) = Len(s)
         /\ \A m \in 1 .. Len(s) :
              /\ s[m] \in Used(p)
              /\ Content(p, s)[m] = Seen(p, s[m])
              /\ Seen(p, s[m]) = [key |-> p.entries[s[m]].key, value |-> p.entries[s[m]].value]
<1>1. s \in Seq(Used(p)) /\ Len(s) \in Nat
  BY DEF Chained, Chain
<1>2. \A m \in 1 .. Len(s) : s[m] \in Used(p)
  BY <1>1
<1>3. \A m \in 1 .. Len(s) :
        /\ Seen(p, s[m]) = [key |-> p.entries[s[m]].key, value |-> p.entries[s[m]].value]
        /\ Seen(p, s[m]) \in Records
  <2> TAKE m \in 1 .. Len(s)
  <2>1. s[m] # Nothing /\ p.entries[s[m]] \in Entry
    BY <1>2, UsedEntries, PoolAssumption
  <2> QED
    BY <2>1 DEF Seen, Entry, Records
<1>4. Content(p, s) \in Seq(Records) /\ Len(Content(p, s)) = Len(s)
  <2> DEFINE e(m) == Seen(p, s[m])
  <2>1. \A m \in 1 .. Len(s) : e(m) \in Records
    BY <1>3
  <2> HIDE DEF e
  <2>2. [m \in 1 .. Len(s) |-> e(m)] \in Seq(Records) /\ Len([m \in 1 .. Len(s) |-> e(m)]) = Len(s)
    BY <1>1, <2>1
  <2> QED
    BY <2>2 DEF e, Content
<1> QED
  BY <1>1, <1>2, <1>3, <1>4 DEF Content

(* The map finds what a search of the cache's order finds.                 *)
LEMMA FoundAt ==
  ASSUME NEW p, NEW n, Good(p, n), NEW s, Chained(p, s), NEW k \in CacheKeys
  PROVE  /\ Lru!Has(Content(p, s), k) <=> p.map[k] # Nothing
         /\ p.map[k] # Nothing => /\ Lru!PositionOf(Content(p, s), k) \in 1 .. Len(s)
                                  /\ s[Lru!PositionOf(Content(p, s), k)] = p.map[k]
<1> DEFINE o == Content(p, s)
<1>1. p \in Pools /\ Mapped(p)
  BY DEF Good
<1>2. DOMAIN o = 1 .. Len(s)
  BY DEF Content
<1>3. \A m \in 1 .. Len(s) : o[m].key = k <=> p.map[k] # Nothing /\ s[m] = p.map[k]
  <2> TAKE m \in 1 .. Len(s)
  <2>1. s[m] \in Used(p) /\ o[m].key = p.entries[s[m]].key
    <3>1. /\ s[m] \in Used(p)
          /\ o[m] = [key |-> p.entries[s[m]].key, value |-> p.entries[s[m]].value]
      BY <1>1, ContentIs
    <3> HIDE DEF o
    <3> QED
      BY <3>1
  <2>2. s[m] # Nothing
    BY <1>1, <2>1, UsedEntries, PoolAssumption
  <2> HIDE DEF o
  <2> QED
    BY <1>1, <2>1, <2>2 DEF Mapped
<1>4. p.map[k] # Nothing => \E m \in 1 .. Len(s) : s[m] = p.map[k]
  BY <1>1 DEF Mapped, Chained, Chain
<1> HIDE DEF o
<1>5. Lru!Has(o, k) <=> p.map[k] # Nothing
  BY <1>2, <1>3, <1>4 DEF Lru!Has
<1>6. ASSUME p.map[k] # Nothing
      PROVE  Lru!PositionOf(o, k) \in 1 .. Len(s) /\ s[Lru!PositionOf(o, k)] = p.map[k]
  <2>1. \E m \in DOMAIN o : o[m].key = k
    BY <1>2, <1>3, <1>4, <1>6
  <2>2. Lru!PositionOf(o, k) \in DOMAIN o /\ o[Lru!PositionOf(o, k)].key = k
    BY <2>1 DEF Lru!PositionOf
  <2> QED
    BY <1>2, <1>3, <2>2
<1> QED
  BY <1>5, <1>6 DEF o

(* The pool p holds its entries in this order.                             *)
Follows(p, order) == \E s : Chained(p, s) /\ Content(p, s) = order

(* A hit: the cache promotes what move_to_front moves.                     *)
LEMMA HitMatches ==
  ASSUME NEW p, NEW n, Good(p, n), NEW o, Follows(p, o), NEW k \in CacheKeys, p.map[k] # Nothing
  PROVE  /\ Lru!Has(o, k)
         /\ Lru!EntryOf(o, k) = [key |-> k, value |-> p.entries[p.map[k]].value]
         /\ Follows(MoveToFront(p, p.map[k]), Lru!Promote(o, k))
         /\ o \in Seq(Records) /\ Lru!PositionOf(o, k) \in 1 .. Len(o)
         /\ Lru!Promote(o, k) = Raised(o, Lru!PositionOf(o, k))
<1>1. PICK s : Chained(p, s) /\ Content(p, s) = o
  BY DEF Follows
<1> DEFINE m == Lru!PositionOf(o, k)
           q == MoveToFront(p, s[m])
           t == Raised(s, m)
<1>2. Lru!Has(o, k) /\ m \in 1 .. Len(s) /\ s[m] = p.map[k]
  BY <1>1, FoundAt
<1>3. /\ p \in Pools /\ Linked(p) /\ Mapped(p)
      /\ s \in Seq(Used(p)) /\ Len(s) \in Nat /\ o \in Seq(Records) /\ Len(o) = Len(s)
      /\ \A j \in 1 .. Len(s) :
           /\ s[j] \in Used(p) /\ o[j] = Seen(p, s[j])
           /\ Seen(p, s[j]) = [key |-> p.entries[s[j]].key, value |-> p.entries[s[j]].value]
  <2>1. p \in Pools /\ Linked(p) /\ Mapped(p)
    BY DEF Good
  <2> QED
    BY <1>1, <2>1, ContentIs
<1>4. p.entries[s[m]].key = k
  BY <1>2, <1>3 DEF Mapped
<1>5. Lru!EntryOf(o, k) = [key |-> k, value |-> p.entries[p.map[k]].value]
  BY <1>2, <1>3, <1>4 DEF Lru!EntryOf
<1>6. Lru!Promote(o, k) = Raised(o, m)
  BY DEF Lru!Promote, Lru!EntryOf, Raised
<1> HIDE DEF m, q, t
<1>7. s[m] \in Used(p) /\ Chained(q, t)
  BY <1>1, <1>2, <1>3, MoveChained DEF q, t
<1>8. SameContent(p, q)
  BY <1>3, <1>7, MoveToFrontSound DEF q
<1>9. /\ t \in Seq(Used(p)) /\ Len(t) = Len(s)
      /\ \A j \in 1 .. Len(s) : t[j] = IF j = 1 THEN s[m] ELSE IF j <= m THEN s[j - 1] ELSE s[j]
  BY <1>2, <1>3, RaisedElements DEF t
<1>10. /\ Raised(o, m) \in Seq(Records) /\ Len(Raised(o, m)) = Len(s)
       /\ \A j \in 1 .. Len(s) :
            Raised(o, m)[j] = IF j = 1 THEN o[m] ELSE IF j <= m THEN o[j - 1] ELSE o[j]
  BY <1>2, <1>3, RaisedElements
<1>11. q \in Pools /\ \A j \in Used(p) : Seen(q, j) = Seen(p, j)
  BY <1>8 DEF SameContent, Seen
<1>12. /\ Content(q, t) \in Seq(Records) /\ Len(Content(q, t)) = Len(s)
       /\ \A j \in 1 .. Len(s) : Content(q, t)[j] = Seen(q, t[j]) /\ t[j] \in Used(p)
  <2>1. /\ Content(q, t) \in Seq(Records) /\ Len(Content(q, t)) = Len(t)
        /\ \A j \in 1 .. Len(t) : Content(q, t)[j] = Seen(q, t[j])
    BY <1>7, <1>11, ContentIs
  <2>2. \A j \in 1 .. Len(t) : t[j] \in Used(p)
    BY <1>9
  <2> QED
    BY <1>9, <2>1, <2>2
<1>13. \A j \in 1 .. Len(s) : Content(q, t)[j] = Raised(o, m)[j]
  <2> TAKE j \in 1 .. Len(s)
  <2>1. Content(q, t)[j] = Seen(p, t[j])
    BY <1>11, <1>12
  <2>2. j # 1 => j - 1 \in 1 .. Len(s)
    BY <1>3
  <2>3. Seen(p, t[j]) = IF j = 1 THEN o[m] ELSE IF j <= m THEN o[j - 1] ELSE o[j]
    BY <1>2, <1>3, <1>9, <2>2
  <2> QED
    BY <1>10, <2>1, <2>3
<1>14. Content(q, t) = Raised(o, m)
  BY <1>10, <1>12, <1>13, SeqEqual
<1>15. Follows(MoveToFront(p, p.map[k]), Lru!Promote(o, k))
  BY <1>2, <1>6, <1>7, <1>14 DEF Follows, q
<1> QED
  BY <1>2, <1>3, <1>5, <1>6, <1>15 DEF m

(* Insert gives the entry another value before it moves it: the cache puts *)
(* a new entry in the place of the old one.                                *)
LEMMA InsertMatches ==
  ASSUME NEW p, NEW n, Good(p, n), NEW o, Follows(p, o), NEW k \in CacheKeys, p.map[k] # Nothing,
         NEW v \in Values
  PROVE  Follows(MoveToFront([p EXCEPT !.entries[p.map[k]].value = v], p.map[k]),
                 <<[key |-> k, value |-> v]>> \o Tail(Lru!Promote(o, k)))
<1>1. PICK s : Chained(p, s) /\ Content(p, s) = o
  BY DEF Follows
<1> DEFINE i == p.map[k]
           u == [p EXCEPT !.entries[i].value = v]
           w == Content(u, s)
           m == Lru!PositionOf(o, k)
           e == [key |-> k, value |-> v]
           r == <<e>> \o Tail(Lru!Promote(o, k))
<1>2. p \in Pools /\ i \in Used(p) /\ p.entries[i].key = k
  BY DEF Good, Mapped
<1>3. Good(u, n) /\ Updated(p, u, i, v)
  BY <1>2, UpdateSound
<1> HIDE DEF u
<1>4. u \in Pools /\ Chained(u, s) /\ u.map[k] = i /\ Follows(u, w)
  BY <1>1, <1>3 DEF Chained, Updated, Good, Follows
<1>5. /\ s \in Seq(Used(p)) /\ Len(s) \in Nat /\ o \in Seq(Records) /\ Len(o) = Len(s)
      /\ \A j \in 1 .. Len(s) :
           /\ s[j] \in Used(p) /\ o[j] = Seen(p, s[j])
           /\ Seen(p, s[j]) = [key |-> p.entries[s[j]].key, value |-> p.entries[s[j]].value]
  BY <1>1, <1>2, ContentIs
<1>6. /\ w \in Seq(Records) /\ Len(w) = Len(s)
      /\ \A j \in 1 .. Len(s) : w[j] = Seen(u, s[j])
  BY <1>4, ContentIs
<1>7. m \in 1 .. Len(s) /\ s[m] = i
  BY <1>1, FoundAt
<1>8. Lru!PositionOf(w, k) \in 1 .. Len(s) /\ s[Lru!PositionOf(w, k)] = i
  BY <1>3, <1>4, FoundAt
<1>9. Lru!PositionOf(w, k) = m
  BY <1>1, <1>7, <1>8 DEF Chained, Chain
<1> HIDE DEF w, i, m
<1>10. \A j \in 1 .. Len(s) : w[j] = IF j = m THEN e ELSE o[j]
  <2> TAKE j \in 1 .. Len(s)
  <2>1. Seen(u, s[j]) = [key |-> p.entries[s[j]].key,
                         value |-> IF s[j] = i THEN v ELSE p.entries[s[j]].value]
    BY <1>3, <1>5 DEF Updated
  <2>2. s[j] = i <=> j = m
    BY <1>1, <1>7 DEF Chained, Chain
  <2> QED
    BY <1>2, <1>5, <1>6, <2>1, <2>2
<1>11. /\ Follows(MoveToFront(u, i), Raised(w, m))
       /\ Lru!Promote(o, k) = Raised(o, m)
  <2>1. u.map[k] # Nothing
    BY <1>4 DEF i
  <2>2. Follows(MoveToFront(u, u.map[k]), Lru!Promote(w, k)) /\ Lru!Promote(w, k) = Raised(w, m)
    BY <1>3, <1>4, <1>9, <2>1, HitMatches
  <2>3. Lru!Promote(o, k) = Raised(o, m)
    BY HitMatches DEF m
  <2> QED
    BY <1>4, <2>2, <2>3
<1>12. /\ Raised(w, m) \in Seq(Records) /\ Len(Raised(w, m)) = Len(s)
       /\ \A j \in 1 .. Len(s) :
            Raised(w, m)[j] = IF j = 1 THEN w[m] ELSE IF j <= m THEN w[j - 1] ELSE w[j]
  <2>1. w \in Seq(Records) /\ m \in 1 .. Len(w) /\ Len(w) = Len(s)
    BY <1>6, <1>7
  <2> QED
    BY ZenonT(40), <2>1, RaisedElements
<1>13. /\ Raised(o, m) \in Seq(Records) /\ Len(Raised(o, m)) = Len(s)
       /\ \A j \in 1 .. Len(s) :
            Raised(o, m)[j] = IF j = 1 THEN o[m] ELSE IF j <= m THEN o[j - 1] ELSE o[j]
  BY <1>5, <1>7, RaisedElements
<1>14. e \in Records
  BY DEF Records
<1> HIDE DEF e
<1>15. /\ r \in Seq(Records) /\ Len(r) = Len(s) /\ r[1] = e
       /\ \A j \in 2 .. Len(s) : r[j] = Raised(o, m)[j]
  <2> DEFINE a == Raised(o, m)
             b == Tail(a)
  <2>1. a \in Seq(Records) /\ Len(a) # 0 /\ Len(a) = Len(s)
    BY <1>7, <1>13
  <2> HIDE DEF a
  <2>2. b \in Seq(Records) /\ Len(b) = Len(a) - 1 /\ \A j \in 1 .. Len(b) : b[j] = a[j + 1]
    BY <2>1
  <2> HIDE DEF b
  <2>3. <<e>> \o b \in Seq(Records) /\ Before(e, b, <<e>> \o b)
    BY <1>14, <2>2, BeforeExists
  <2>4. r = <<e>> \o b
    BY <1>11 DEF a, b
  <2>5. \A j \in 2 .. Len(s) : r[j] = a[j]
    <3> TAKE j \in 2 .. Len(s)
    <3>1. j - 1 \in 1 .. Len(b) /\ (j - 1) + 1 = j /\ j \in 2 .. Len(r)
      BY <1>5, <2>1, <2>2, <2>3, <2>4 DEF Before
    <3> HIDE DEF r
    <3> QED
      BY <2>2, <2>3, <2>4, <3>1 DEF Before
  <2> HIDE DEF r
  <2> QED
    BY <2>1, <2>2, <2>3, <2>4, <2>5 DEF Before, a
<1> HIDE DEF r
<1>16. \A j \in 1 .. Len(s) : r[j] = Raised(w, m)[j]
  <2> TAKE j \in 1 .. Len(s)
  <2>1. CASE j = 1
    BY <1>7, <1>10, <1>12, <1>15, <2>1
  <2>2. CASE j # 1
    <3>1. j \in 2 .. Len(s) /\ j - 1 \in 1 .. Len(s) /\ (j <= m => j - 1 # m) /\ (~(j <= m) => j # m)
      BY <1>5, <1>7, <2>2
    <3> QED
      BY <1>10, <1>12, <1>13, <1>15, <2>2, <3>1
  <2> QED
    BY <2>1, <2>2
<1>17. r = Raised(w, m)
  BY <1>12, <1>15, <1>16, SeqEqual
<1> QED
  BY <1>11, <1>17 DEF r, u, i, e

(* A full cache gives up its last entry: it is the one evict_lru frees.    *)
LEMMA RoomMatches ==
  ASSUME NEW p, Good(p, Capacity), NEW o, Follows(p, o)
  PROVE  Follows(MakeRoom(p), Lru!MakeRoom(o))
<1>1. PICK s : Chained(p, s) /\ Content(p, s) = o
  BY DEF Follows
<1>2. /\ p \in Pools /\ Linked(p) /\ Capacity \in Nat \ {0}
      /\ s \in Seq(Used(p)) /\ Len(s) \in Nat /\ o \in Seq(Records) /\ Len(o) = Len(s)
      /\ \A j \in 1 .. Len(s) : o[j] = Seen(p, s[j])
  <2>1. p \in Pools /\ Linked(p) /\ Capacity \in Nat \ {0}
    BY PoolAssumption DEF Good
  <2> QED
    BY <1>1, <2>1, ContentIs
<1>3. Len(o) = Cardinality(Used(p))
  BY <1>1, <1>2, ChainLength
<1>4. CASE ~(Len(o) >= Capacity)
  BY <1>3, <1>4 DEF MakeRoom, Lru!MakeRoom
<1>5. CASE Len(o) >= Capacity
  <2> DEFINE q == EvictLru(p)
             t == Lru!Front(s)
             f == Lru!Front(o)
  <2>1. MakeRoom(p) = q /\ Lru!MakeRoom(o) = f
    BY <1>3, <1>5 DEF MakeRoom, Lru!MakeRoom
  <2>2. Len(s) # 0
    BY <1>2, <1>5
  <2>3. p.tail # Nothing
    <3>1. 1 \in 1 .. Len(s)
      BY <1>2, <2>2
    <3>2. s[1] \in Used(p)
      BY <1>2, <3>1
    <3> QED
      BY <1>2, <3>2, LinkedHead
  <2>4. Evicted(p, q) /\ q \in Pools
    BY <1>2, <2>3, EvictionSound DEF Good
  <2> HIDE DEF q
  <2>5. Chained(q, t)
    BY <1>1, <1>2, <2>2, <2>4, EvictChained
  <2>6. t \in Seq(Used(p)) /\ Without(Len(s), s, t)
    BY <1>2, <2>2, FrontIsWithout
  <2>7. f \in Seq(Records) /\ Without(Len(o), o, f)
    BY <1>2, <2>2, FrontIsWithout
  <2> HIDE DEF t, f
  <2>8. /\ Content(q, t) \in Seq(Records) /\ Len(Content(q, t)) = Len(t)
        /\ \A j \in 1 .. Len(t) : Content(q, t)[j] = Seen(q, t[j]) /\ t[j] \in Used(q)
    BY <2>4, <2>5, ContentIs
  <2>9. /\ Len(t) = Len(s) - 1 /\ Len(f) = Len(s) - 1
        /\ \A j \in 1 .. Len(s) - 1 : t[j] = s[j] /\ f[j] = o[j]
    BY <1>2, <2>6, <2>7 DEF Without
  <2>10. \A j \in 1 .. Len(t) : Content(q, t)[j] = f[j]
    <3> TAKE j \in 1 .. Len(t)
    <3>1. t[j] = s[j] /\ f[j] = o[j] /\ j \in 1 .. Len(s)
      BY <1>2, <2>9
    <3>2. Seen(q, t[j]) = Seen(p, t[j])
      BY <2>4, <2>8 DEF Evicted
    <3> QED
      BY <1>2, <2>8, <3>1, <3>2
  <2>11. Content(q, t) = f
    BY <2>7, <2>8, <2>9, <2>10, SeqEqual
  <2> QED
    BY <2>1, <2>5, <2>11 DEF Follows
<1> QED
  BY <1>4, <1>5

(* A miss: the new entry is the first.                                     *)
LEMMA PushMatches ==
  ASSUME NEW p, Good(p, Capacity - 1), NEW o, Follows(p, o), NEW k \in CacheKeys, NEW v \in Values,
         p.map[k] = Nothing, NEW i \in Indices \ Used(p)
  PROVE  Follows(Added(p, i, k, v), <<[key |-> k, value |-> v]>> \o o)
<1>1. PICK s : Chained(p, s) /\ Content(p, s) = o
  BY DEF Follows
<1> DEFINE q == Added(p, i, k, v)
           t == <<i>> \o s
           e == [key |-> k, value |-> v]
           r == <<e>> \o o
<1>2. /\ p \in Pools /\ s \in Seq(Used(p)) /\ Len(s) \in Nat
      /\ o \in Seq(Records) /\ Len(o) = Len(s)
      /\ \A j \in 1 .. Len(s) : s[j] \in Used(p) /\ o[j] = Seen(p, s[j])
  <2>1. p \in Pools
    BY DEF Good
  <2> QED
    BY <1>1, <2>1, ContentIs
<1>3. Pushed(p, q, i, k, v) /\ q \in Pools
  BY AdditionSound DEF Good
<1> HIDE DEF q
<1>4. Chained(q, t)
  BY <1>1, <1>3, PushChained
<1>5. Before(i, s, t)
  <2>1. s \in Seq(Indices)
    BY <1>2 DEF Used
  <2> QED
    BY <2>1, BeforeExists
<1>6. r \in Seq(Records) /\ Before(e, o, r)
  <2>1. e \in Records
    BY DEF Records
  <2> HIDE DEF e
  <2> QED
    BY <1>2, <2>1, BeforeExists
<1>7. Seen(q, i) = e /\ \A j \in Used(p) : Seen(q, j) = Seen(p, j)
  BY <1>3 DEF Pushed
<1> HIDE DEF t, r, e
<1>8. /\ Content(q, t) \in Seq(Records) /\ Len(Content(q, t)) = Len(t)
      /\ \A j \in 1 .. Len(t) : Content(q, t)[j] = Seen(q, t[j])
  BY <1>3, <1>4, ContentIs
<1>9. \A j \in 1 .. Len(t) : Content(q, t)[j] = r[j]
  <2> TAKE j \in 1 .. Len(t)
  <2>1. CASE j = 1
    BY <1>5, <1>6, <1>7, <1>8, <2>1 DEF Before
  <2>2. CASE j # 1
    <3>1. j \in 2 .. Len(t) /\ j - 1 \in 1 .. Len(s) /\ j \in 2 .. Len(r)
      BY <1>2, <1>5, <1>6, <2>2 DEF Before
    <3>2. t[j] = s[j - 1] /\ r[j] = o[j - 1]
      BY <1>5, <1>6, <3>1 DEF Before
    <3> QED
      BY <1>2, <1>7, <1>8, <3>1, <3>2
  <2> QED
    BY <2>1, <2>2
<1>10. Len(r) = Len(t)
  BY <1>2, <1>5, <1>6 DEF Before
<1>11. Content(q, t) = r
  BY <1>6, <1>8, <1>9, <1>10, SeqEqual
<1> QED
  BY <1>4, <1>11 DEF Follows, q, r, e
-----------------------------------------------------------------------------
(* The invariant: the pool's list is a sequence, the one that is mapped.   *)
Ordered == Follows(pool, Listed)

(* The order that a pool holds is the one InOrder gives.                   *)
LEMMA ListedFollows ==
  ASSUME NEW p, NEW n, Good(p, n), NEW o, Follows(p, o)
  PROVE  InOrder(p) = o
BY InOrderIs DEF Follows, Good

(* A new or cleared pool is an empty cache.                                *)
LEMMA EmptyFollows == Follows(EmptyPool, <<>>)
<1>1. Used(EmptyPool) = {} /\ EmptyPool.head = Nothing
  BY DEF EmptyPool, Used
<1>2. <<>> \in Seq({}) /\ Len(<<>>) = 0
  OBVIOUS
<1>3. Chained(EmptyPool, <<>>)
  BY <1>1, <1>2 DEF Chained, Chain
<1>4. Content(EmptyPool, <<>>) = <<>>
  BY <1>2 DEF Content
<1> QED
  BY <1>3, <1>4 DEF Follows

(* A miss of the pool is a miss of the cache.                              *)
LEMMA AddMatches ==
  ASSUME IInv, Ordered, NEW k \in CacheKeys, NEW v \in Values, Add(k, v)
  PROVE  /\ ~Lru!Has(Listed, k)
         /\ Follows(pool', Lru!AddFirst(Listed, k, v))
<1>1. Good(pool, Capacity) /\ Follows(pool, Listed) /\ pool.map[k] = Nothing
  BY DEF IInv, Ordered, Add
<1> DEFINE p == MakeRoom(pool)
<1>2. Good(p, Capacity - 1) /\ p.map[k] = Nothing
  BY <1>1, RoomMade
<1>3. Follows(p, Lru!MakeRoom(Listed))
  BY <1>1, RoomMatches
<1>4. PICK i \in Indices \ Used(p) : pool' = Added(p, i, k, v)
  BY DEF Add
<1> HIDE DEF p
<1>5. Follows(pool', <<[key |-> k, value |-> v]>> \o Lru!MakeRoom(Listed))
  BY <1>2, <1>3, <1>4, PushMatches
<1>6. ~Lru!Has(Listed, k)
  BY <1>1, FoundAt DEF Follows
<1> QED
  BY <1>5, <1>6 DEF Lru!AddFirst

(* Every call does to the list what the cache does to its order.           *)
LEMMA StepMatches ==
  ASSUME IInv, IInv', Ordered, [Next]_vars
  PROVE  Ordered' /\ [Lru!Next]_(Lru!vars)
<1>0. Good(pool, Capacity) /\ Good(pool', Capacity) /\ Follows(pool, Listed)
  BY DEF IInv, Ordered
<1>1. ASSUME NEW o, Follows(pool', o) PROVE Listed' = o /\ Ordered'
  <2>1. InOrder(pool') = o
    BY <1>0, <1>1, ListedFollows
  <2>2. Listed' = o
    BY <2>1 DEF Listed
  <2> QED
    BY <1>1, <2>2 DEF Ordered
<1>2. ASSUME NEW k \in CacheKeys, Get(k) PROVE Ordered' /\ Lru!Get(k)
  <2>1. CASE pool.map[k] = Nothing
    <3>1. ~Lru!Has(Listed, k)
      BY <1>0, <2>1, FoundAt DEF Follows
    <3>2. pool' = pool /\ answer' = Nothing
      BY <1>2, <2>1 DEF Get
    <3>3. Ordered' /\ Listed' = Listed
      BY <1>0, <1>1, <3>2
    <3> QED
      BY <3>1, <3>2, <3>3 DEF Lru!Get
  <2>2. CASE pool.map[k] # Nothing
    <3>1. /\ Lru!Has(Listed, k)
          /\ Lru!EntryOf(Listed, k) = [key |-> k, value |-> pool.entries[pool.map[k]].value]
          /\ Follows(MoveToFront(pool, pool.map[k]), Lru!Promote(Listed, k))
      BY <1>0, <2>2, HitMatches
    <3>2. pool' = MoveToFront(pool, pool.map[k]) /\ answer' = pool'.entries[pool.map[k]].value
      BY <1>2, <2>2 DEF Get
    <3>3. answer' = pool.entries[pool.map[k]].value
      <4>1. pool.map[k] \in Used(pool)
        BY <1>0, <2>2, KeyLeadsToEntry
      <4> QED
        BY <1>0, <3>2, <4>1, Promoted
    <3>4. Ordered' /\ Listed' = Lru!Promote(Listed, k)
      BY <1>1, <3>1, <3>2
    <3>5. Lru!EntryOf(Listed, k).value = answer'
      BY <3>1, <3>3
    <3> QED
      BY <3>1, <3>4, <3>5 DEF Lru!Get
  <2> QED
    BY <2>1, <2>2
<1>3. ASSUME NEW k \in CacheKeys, NEW v \in Values, Insert(k, v) PROVE Ordered' /\ Lru!Insert(k, v)
  <2>1. CASE pool.map[k] # Nothing /\ answer' = pool.entries[pool.map[k]].value
             /\ pool' = MoveToFront([pool EXCEPT !.entries[pool.map[k]].value = v], pool.map[k])
    <3>1. /\ Lru!Has(Listed, k)
          /\ Lru!EntryOf(Listed, k) = [key |-> k, value |-> pool.entries[pool.map[k]].value]
      BY <1>0, <2>1, HitMatches
    <3>2. Follows(pool', <<[key |-> k, value |-> v]>> \o Tail(Lru!Promote(Listed, k)))
      BY <1>0, <2>1, InsertMatches
    <3>3. Ordered' /\ Listed' = <<[key |-> k, value |-> v]>> \o Tail(Lru!Promote(Listed, k))
      BY <1>1, <3>2
    <3>4. Lru!EntryOf(Listed, k).value = answer'
      BY <2>1, <3>1
    <3> QED
      BY <3>1, <3>3, <3>4 DEF Lru!Insert
  <2>2. CASE Add(k, v) /\ answer' = Nothing
    <3>1. ~Lru!Has(Listed, k) /\ Follows(pool', Lru!AddFirst(Listed, k, v))
      BY <2>2, AddMatches
    <3>2. Ordered' /\ Listed' = Lru!AddFirst(Listed, k, v)
      BY <1>1, <3>1
    <3> QED
      BY <2>2, <3>1, <3>2 DEF Lru!Insert
  <2> QED
    BY <1>3, <2>1, <2>2 DEF Insert
<1>4. ASSUME NEW k \in CacheKeys, NEW v \in Values, GetOrInsertWith(k, v)
      PROVE  Ordered' /\ Lru!GetOrInsertWith(k, v)
  <2>1. CASE pool.map[k] # Nothing /\ answer' = pool.entries[pool.map[k]].value
             /\ pool' = MoveToFront(pool, pool.map[k])
    <3> DEFINE m == Lru!PositionOf(Listed, k)
    <3>1. /\ Lru!Has(Listed, k)
          /\ Lru!EntryOf(Listed, k) = [key |-> k, value |-> pool.entries[pool.map[k]].value]
          /\ Follows(pool', Lru!Promote(Listed, k))
          /\ Listed \in Seq(Records) /\ m \in 1 .. Len(Listed)
          /\ Lru!Promote(Listed, k) = Raised(Listed, m)
      BY <1>0, <2>1, HitMatches
    <3>2. Ordered' /\ Listed' = Lru!Promote(Listed, k)
      BY <1>1, <3>1
    <3>3. Lru!Promote(Listed, k)[1] = Lru!EntryOf(Listed, k)
      <4>1. Lru!EntryOf(Listed, k) = Listed[m]
        BY DEF Lru!EntryOf
      <4>2. 1 \in 1 .. Len(Listed)
        BY <3>1
      <4> HIDE DEF m
      <4> QED
        BY <3>1, <4>1, <4>2, RaisedElements
    <3>4. Listed'[1].value = answer'
      BY <2>1, <3>1, <3>2, <3>3
    <3> QED
      BY <3>1, <3>2, <3>4 DEF Lru!GetOrInsertWith, Lru!GetOrInsert
  <2>2. CASE Add(k, v) /\ answer' = v
    <3>1. ~Lru!Has(Listed, k) /\ Follows(pool', Lru!AddFirst(Listed, k, v))
      BY <2>2, AddMatches
    <3>2. Ordered' /\ Listed' = Lru!AddFirst(Listed, k, v)
      BY <1>1, <3>1
    <3>3. Lru!AddFirst(Listed, k, v)[1] = [key |-> k, value |-> v]
      <4>1. Listed \in Seq(Records)
        BY <1>0, ContentIs DEF Follows, Good
      <4>2. Lru!MakeRoom(Listed) \in Seq(Records)
        <5>1. Capacity \in Nat \ {0}
          BY PoolAssumption
        <5>2. Len(Listed) # 0 => Lru!Front(Listed) \in Seq(Records)
          BY <4>1, FrontIsWithout
        <5>3. Len(Listed) >= Capacity => Len(Listed) # 0
          BY <4>1, <5>1
        <5> QED
          BY <4>1, <5>2, <5>3 DEF Lru!MakeRoom
      <4>3. [key |-> k, value |-> v] \in Records
        BY DEF Records
      <4> QED
        BY <4>2, <4>3, BeforeExists DEF Lru!AddFirst, Before
    <3>4. Listed'[1].value = answer'
      BY <2>2, <3>2, <3>3
    <3> QED
      BY <3>1, <3>2, <3>4 DEF Lru!GetOrInsertWith, Lru!GetOrInsert
  <2> QED
    BY <1>4, <2>1, <2>2 DEF GetOrInsertWith
<1>5. ASSUME Clear PROVE Ordered' /\ Lru!Clear
  <2>1. Ordered' /\ Listed' = <<>>
    BY <1>1, <1>5, EmptyFollows DEF Clear
  <2> QED
    BY <1>5, <2>1 DEF Clear, Lru!Clear
<1>6. CASE UNCHANGED vars
  <2>1. pool' = pool /\ answer' = answer
    BY <1>6 DEF vars
  <2>2. Ordered' /\ Listed' = Listed
    BY <1>0, <1>1, <2>1
  <2> QED
    BY <2>1, <2>2 DEF Lru!vars
<1> QED
  BY <1>2, <1>3, <1>4, <1>5, <1>6 DEF Next, Lru!Next

(* Whatever is called in whatever order, at any capacity: the map, the     *)
(* slab and the links answer, order and evict as the LRU cache does.       *)
THEOREM PoolIsLru == Spec => ImplementsLru
<1>1. Init => Ordered /\ Lru!Init
  <2> SUFFICES ASSUME Init PROVE Ordered /\ Lru!Init
    OBVIOUS
  <2>1. Good(pool, Capacity) /\ Follows(pool, <<>>) /\ answer = Nothing
    BY EmptyPoolGood, EmptyFollows DEF Init
  <2>2. Listed = <<>>
    BY <2>1, ListedFollows DEF Listed
  <2> QED
    BY <2>1, <2>2 DEF Ordered, Lru!Init
<1>2. IInv /\ IInv' /\ Ordered /\ [Next]_vars => Ordered' /\ [Lru!Next]_(Lru!vars)
  BY StepMatches
<1>3. Spec => []IInv
  BY Invariance
<1> QED
  BY <1>1, <1>2, <1>3, PTL DEF Spec, ImplementsLru, Lru!Spec
=============================================================================
