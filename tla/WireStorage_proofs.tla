-------------------------- MODULE WireStorage_proofs --------------------------
(***************************************************************************)
(* `Storage` implements the ledger of wires, for every number of wires,    *)
(* slots, credits and values.  The inductive invariant is the conjunction  *)
(* of the four invariants the run checks: CreditsMatch needs NoAlias (a    *)
(* call on one wire must not touch the entry of another), and NoAlias      *)
(* needs CreditsMatch (the slot of a live wire is occupied, so it is not   *)
(* given away).                                                            *)
(***************************************************************************)
EXTENDS WireStorage, TLAPS

IInv == TypeOK /\ CreditsMatch /\ NoAlias /\ NoLeak

USE StorageAssumption

(* The index of a key is a slot, and a key names one slot only.            *)
LEMMA KeyIndex ==
  /\ \A i \in Slots : ToKey(i) \in Keys /\ ToIndex(ToKey(i)) = i
  /\ \A k \in Keys : ToIndex(k) \in Slots /\ ToKey(ToIndex(k)) = k
  /\ \A j, k \in Keys : ToIndex(j) = ToIndex(k) => j = k
  /\ UNREACHABLE \notin Keys
BY DEF Keys, ToKey, ToIndex, IndexOffset

(* Each method rewrites the entry of its own key and no other: what entry  *)
(* it leaves there.                                                        *)
LEMMA InsertEffect ==
  ASSUME NEW st \in [Slots -> Entry], NEW i \in Slots, NEW n \in 0 .. MaxCredits
  PROVE  LET new == Insert(st, i, NoData, n)
         IN  /\ new \in [Slots -> Entry]
             /\ new[i].credits = n
             /\ \A j \in Slots \ {i} : new[j] = st[j]
BY DEF Entry, Insert

LEMMA GetEffect ==
  ASSUME NEW st \in [Slots -> Entry], NEW k \in Keys, Found(st, k)
  PROVE  LET new == Get(st, k)
             i == ToIndex(k)
         IN  /\ new \in [Slots -> Entry]
             /\ new[i].credits = st[i].credits - 1
             /\ new[i].credits = 0 => new[i] = VacantEntry
             /\ new[i].credits > 0 => new[i].data = st[i].data
             /\ \A j \in Slots \ {i} : new[j] = st[j]
<1> DEFINE i == ToIndex(k)
<1>1. i \in Slots /\ st[i] \in Entry /\ st[i].credits > 0
  BY KeyIndex DEF Found
<1>2. CASE st[i].credits = 1
  <2>1. Get(st, k) = [st EXCEPT ![i] = VacantEntry]
    BY <1>2 DEF Get
  <2>2. VacantEntry \in Entry /\ VacantEntry.credits = 0
    BY DEF VacantEntry, Entry
  <2> QED BY <1>1, <1>2, <2>1, <2>2
<1>3. CASE st[i].credits # 1
  <2>1. Get(st, k) = [st EXCEPT ![i].credits = @ - 1]
    BY <1>3 DEF Get
  <2> QED BY <1>1, <1>3, <2>1 DEF Entry
<1> QED BY <1>2, <1>3

LEMMA AddEffect ==
  ASSUME NEW st \in [Slots -> Entry], NEW k \in Keys, NEW n \in 1 .. MaxCredits,
         ~Overflows(st, k, n)
  PROVE  LET new == AddCredits(st, k, n)
             i == ToIndex(k)
         IN  /\ new \in [Slots -> Entry]
             /\ new[i].credits = st[i].credits + n
             /\ new[i].data = st[i].data
             /\ \A j \in Slots \ {i} : new[j] = st[j]
BY KeyIndex DEF Entry, AddCredits, Overflows

LEMMA SetEffect ==
  ASSUME NEW st \in [Slots -> Entry], NEW k \in Keys, NEW d \in Data
  PROVE  LET new == Set(st, k, d)
             i == ToIndex(k)
         IN  /\ new \in [Slots -> Entry]
             /\ new[i].credits = st[i].credits
             /\ new[i].data = d
             /\ \A j \in Slots \ {i} : new[j] = st[j]
BY KeyIndex DEF Entry, Set

(* Whatever the slab picks is a slot without an entry.                     *)
LEMMA VacantFree == \A i \in Vacant(store) : i \in Slots \ Occupied(store)
<1> DEFINE S == Slots \ Occupied(store)
<1>1. S \in SUBSET Slots
  OBVIOUS
<1>2. Pick(S) \subseteq S
  <2> HIDE DEF S
  <2> QED BY <1>1, ZenonT(20) DEF StorageAssumption
<1> QED BY <1>2 DEF Vacant

LEMMA InitIInv == Init => IInv
BY KeyIndex DEF Init, IInv, TypeOK, CreditsMatch, NoAlias, NoLeak, EmptyStore,
  VacantEntry, Entry, Live, Occupied

(* `allocate`: the new entry takes a vacant slot, so it meets no live wire.*)
LEMMA AllocateStep ==
  ASSUME IInv, NEW w \in Wires, NEW n \in 0 .. MaxCredits, AllocateCall(w, n)
  PROVE  IInv'
<1> USE DEF IInv, TypeOK, CreditsMatch, NoAlias, NoLeak, Live, Occupied
<1>1. /\ left[w] = 0
      /\ left' = [left EXCEPT ![w] = n]
      /\ answer' = <<"ok", NoData>>
  BY DEF AllocateCall
<1>2. CASE n = 0
  <2>1. store' = store /\ handle' = [handle EXCEPT ![w] = UNREACHABLE]
    BY <1>2 DEF AllocateCall
  <2>2. Live' = Live
    BY <1>1, <1>2
  <2> QED BY <1>1, <1>2, <2>1, <2>2, KeyIndex
<1>3. CASE n > 0
  <2>1. PICK i \in Vacant(store) :
          /\ store' = Insert(store, i, NoData, n)
          /\ handle' = [handle EXCEPT ![w] = ToKey(i)]
    BY <1>3 DEF AllocateCall
  <2>2. i \in Slots /\ store[i].credits = 0
    <3>1. i \in Slots \ Occupied(store)
      BY VacantFree
    <3> QED BY <3>1 DEF Entry
  <2>3. /\ store' \in [Slots -> Entry]
        /\ store'[i].credits = n
        /\ \A j \in Slots \ {i} : store'[j] = store[j]
    <3>1. store \in [Slots -> Entry]
      OBVIOUS
    <3> HIDE DEF IInv, TypeOK, CreditsMatch, NoAlias, NoLeak, Live, Occupied
    <3> QED BY <2>1, <2>2, <3>1, InsertEffect
  <2>4. Live' = Live \cup {w} /\ w \notin Live
    BY <1>1, <1>3
  <2>5. \A v \in Live : handle'[v] = handle[v] /\ ToIndex(handle[v]) # i
    BY <2>1, <2>2, <2>4
  <2>6. handle'[w] = ToKey(i) /\ ToKey(i) \in Keys /\ ToIndex(ToKey(i)) = i
    BY <2>1, <2>2, KeyIndex
  <2>7. TypeOK'
    BY <1>1, <1>3, <2>1, <2>2, <2>3, <2>6
  <2>8. CreditsMatch'
    <3> SUFFICES ASSUME NEW v \in Live'
                 PROVE  /\ handle'[v] \in Keys
                        /\ store'[ToIndex(handle'[v])].credits = left'[v]
      OBVIOUS
    <3>1. CASE v = w
      BY <1>1, <2>3, <2>6, <3>1
    <3>2. CASE v # w
      <4>1. v \in Live /\ left'[v] = left[v]
        BY <1>1, <2>4, <3>2
      <4>2. handle'[v] = handle[v] /\ ToIndex(handle[v]) # i
        BY <2>5, <4>1
      <4>3. /\ handle[v] \in Keys
            /\ ToIndex(handle[v]) \in Slots
            /\ store[ToIndex(handle[v])].credits = left[v]
        BY <4>1, KeyIndex
      <4> QED BY <2>3, <4>1, <4>2, <4>3
    <3> QED BY <3>1, <3>2
  <2>9. NoAlias'
    BY <2>4, <2>5, <2>6
  <2>10. NoLeak'
    BY <2>2, <2>3, <2>4, <2>5, <2>6
  <2> QED BY <2>7, <2>8, <2>9, <2>10
<1> QED BY <1>2, <1>3

(* Found is what CreditsMatch gives: no call of a live wire is NotFound.   *)
LEMMA LiveFound ==
  ASSUME IInv, NEW w \in Live
  PROVE  /\ handle[w] \in Keys
         /\ ToIndex(handle[w]) \in Slots
         /\ store[ToIndex(handle[w])].credits = left[w]
         /\ Found(store, handle[w])
BY KeyIndex DEF IInv, CreditsMatch, Found, Live, TypeOK

(* A call that rewrites the entry of one live wire, and leaves there the   *)
(* credits the caller counts on, keeps the invariant.                      *)
LEMMA OwnEntryStep ==
  ASSUME IInv, NEW w \in Live,
         handle' = handle,
         store' \in [Slots -> Entry],
         left' \in [Wires -> 0 .. MaxCredits],
         \A v \in Wires \ {w} : left'[v] = left[v],
         \A j \in Slots \ {ToIndex(handle[w])} : store'[j] = store[j],
         store'[ToIndex(handle[w])].credits = left'[w],
         left'[w] = 0 => store'[ToIndex(handle[w])] = VacantEntry,
         answer' \in {"ok", "value", "NotFound", "OverflowCredits"} \X (Data \cup {NoData})
  PROVE  IInv'
<1> USE DEF IInv, TypeOK, CreditsMatch, NoAlias, NoLeak, Live, Occupied
<1> DEFINE i == ToIndex(handle[w])
<1>1. handle[w] \in Keys /\ i \in Slots /\ w \in Wires
  BY LiveFound
<1>2. Live' \subseteq Live /\ Live \ {w} \subseteq Live'
  OBVIOUS
<1>3. \A v \in Live \ {w} : handle[v] \in Keys /\ ToIndex(handle[v]) # i
  BY <1>1, KeyIndex
<1>4. TypeOK'
  <2>1. \A j \in Slots : store'[j].credits = 0 => store'[j] = VacantEntry
    BY <1>1
  <2> QED BY <2>1
<1>5. CreditsMatch'
  <2> SUFFICES ASSUME NEW v \in Live'
               PROVE  handle[v] \in Keys /\ store'[ToIndex(handle[v])].credits = left'[v]
    OBVIOUS
  <2>1. CASE v = w
    BY <1>1, <2>1
  <2>2. CASE v # w
    <3>1. v \in Live /\ left'[v] = left[v]
      BY <1>2, <2>2
    <3>2. handle[v] \in Keys /\ ToIndex(handle[v]) \in Slots \ {i}
      BY <1>3, <2>2, <3>1, KeyIndex
    <3> QED BY <3>1, <3>2
  <2> QED BY <2>1, <2>2
<1>6. NoAlias'
  BY <1>2
<1>7. NoLeak'
  <2> SUFFICES ASSUME NEW j \in Slots, store'[j].credits > 0
               PROVE  \E v \in Live' : handle[v] = ToKey(j)
    OBVIOUS
  <2>1. CASE j = i
    BY <1>1, <2>1, KeyIndex
  <2>2. CASE j # i
    <3>1. PICK v \in Live : handle[v] = ToKey(j)
      BY <2>2
    <3>2. v # w
      BY <2>2, <3>1, KeyIndex
    <3> QED BY <1>2, <3>1, <3>2
  <2> QED BY <2>1, <2>2
<1> QED BY <1>4, <1>5, <1>6, <1>7

LEMMA AddCreditsStep ==
  ASSUME IInv, NEW w \in Wires, NEW n \in 1 .. MaxCredits, AddCreditsCall(w, n)
  PROVE  IInv'
<1>1. w \in Live /\ handle' = handle
  BY DEF AddCreditsCall, Live
<1>2. /\ handle[w] \in Keys
      /\ ToIndex(handle[w]) \in Slots
      /\ store[ToIndex(handle[w])].credits = left[w]
      /\ Found(store, handle[w])
  BY <1>1, LiveFound
<1>3. store \in [Slots -> Entry] /\ left \in [Wires -> 0 .. MaxCredits]
  BY DEF IInv, TypeOK
<1>4. CASE Overflows(store, handle[w], n)
  <2>1. store' = store /\ left' = left /\ answer' = <<"OverflowCredits", NoData>>
    BY <1>2, <1>4 DEF AddCreditsCall
  <2> QED BY <1>1, <2>1 DEF IInv, TypeOK, CreditsMatch, NoAlias, NoLeak, Live, Occupied
<1>5. CASE ~Overflows(store, handle[w], n)
  <2>1. /\ store' = AddCredits(store, handle[w], n)
        /\ left' = [left EXCEPT ![w] = @ + n]
        /\ answer' = <<"ok", NoData>>
    BY <1>2, <1>5 DEF AddCreditsCall
  <2>2. /\ store' \in [Slots -> Entry]
        /\ store'[ToIndex(handle[w])].credits = left[w] + n
        /\ \A j \in Slots \ {ToIndex(handle[w])} : store'[j] = store[j]
    BY <1>2, <1>3, <1>5, <2>1, AddEffect
  <2>3. left[w] + n \in 1 .. MaxCredits
    BY <1>2, <1>3, <1>5 DEF Overflows
  <2>4. /\ left' \in [Wires -> 0 .. MaxCredits]
        /\ left'[w] = left[w] + n
        /\ \A v \in Wires \ {w} : left'[v] = left[v]
    BY <1>3, <2>1, <2>3
  <2> QED BY <1>1, <2>1, <2>2, <2>3, <2>4, OwnEntryStep
<1> QED BY <1>4, <1>5

LEMMA GetStep ==
  ASSUME IInv, NEW w \in Wires, GetCall(w)
  PROVE  IInv'
<1>1. w \in Live /\ handle' = handle
  BY DEF GetCall, Live
<1>2. /\ handle[w] \in Keys
      /\ ToIndex(handle[w]) \in Slots
      /\ store[ToIndex(handle[w])].credits = left[w]
      /\ Found(store, handle[w])
  BY <1>1, LiveFound
<1>3. store \in [Slots -> Entry] /\ left \in [Wires -> 0 .. MaxCredits]
  BY DEF IInv, TypeOK
<1>4. /\ store' = Get(store, handle[w])
      /\ left' = [left EXCEPT ![w] = @ - 1]
      /\ answer' = <<"value", Value(store, handle[w])>>
  BY <1>2 DEF GetCall
<1>5. /\ store' \in [Slots -> Entry]
      /\ store'[ToIndex(handle[w])].credits = left[w] - 1
      /\ store'[ToIndex(handle[w])].credits = 0
           => store'[ToIndex(handle[w])] = VacantEntry
      /\ \A j \in Slots \ {ToIndex(handle[w])} : store'[j] = store[j]
  BY <1>2, <1>3, <1>4, GetEffect
<1>6. /\ left' \in [Wires -> 0 .. MaxCredits]
      /\ left'[w] = left[w] - 1
      /\ \A v \in Wires \ {w} : left'[v] = left[v]
  BY <1>1, <1>3, <1>4 DEF Live
<1>7. answer' \in {"ok", "value", "NotFound", "OverflowCredits"} \X (Data \cup {NoData})
  BY <1>2, <1>3, <1>4 DEF Value, Entry
<1> QED BY <1>1, <1>5, <1>6, <1>7, OwnEntryStep

LEMMA SetStep ==
  ASSUME IInv, NEW w \in Wires, NEW d \in Data, SetCall(w, d)
  PROVE  IInv'
<1>1. w \in Live /\ handle' = handle /\ left' = left
  BY DEF SetCall, Live
<1>2. /\ handle[w] \in Keys
      /\ ToIndex(handle[w]) \in Slots
      /\ store[ToIndex(handle[w])].credits = left[w]
      /\ Found(store, handle[w])
  BY <1>1, LiveFound
<1>3. store \in [Slots -> Entry] /\ left \in [Wires -> 0 .. MaxCredits]
  BY DEF IInv, TypeOK
<1>4. store' = Set(store, handle[w], d) /\ answer' = <<"ok", NoData>>
  BY <1>2 DEF SetCall
<1>5. /\ store' \in [Slots -> Entry]
      /\ store'[ToIndex(handle[w])].credits = left[w]
      /\ \A j \in Slots \ {ToIndex(handle[w])} : store'[j] = store[j]
  BY <1>2, <1>3, <1>4, SetEffect
<1>6. left[w] # 0
  BY <1>1 DEF Live
<1> QED BY <1>1, <1>3, <1>4, <1>5, <1>6, OwnEntryStep

LEMMA NextIInv == IInv /\ [Next]_vars => IInv'
<1> SUFFICES ASSUME IInv, [Next]_vars PROVE IInv'
  OBVIOUS
<1>1. ASSUME NEW w \in Wires, NEW n \in 0 .. MaxCredits, AllocateCall(w, n) PROVE IInv'
  BY <1>1, AllocateStep
<1>2. ASSUME NEW w \in Wires, NEW n \in 1 .. MaxCredits, AddCreditsCall(w, n) PROVE IInv'
  BY <1>2, AddCreditsStep
<1>3. ASSUME NEW w \in Wires, GetCall(w) PROVE IInv'
  BY <1>3, GetStep
<1>4. ASSUME NEW w \in Wires, NEW d \in Data, SetCall(w, d) PROVE IInv'
  BY <1>4, SetStep
<1>5. CASE UNCHANGED vars
  BY <1>5 DEF vars, IInv, TypeOK, CreditsMatch, NoAlias, NoLeak, Live, Occupied
<1> QED BY <1>1, <1>2, <1>3, <1>4, <1>5 DEF Next

(* The variables of the storage and of its callers always have their types *)
(* and a vacant slot keeps no stale value.                                 *)
THEOREM StorageTypeOK == Spec => []TypeOK
<1>1. IInv => TypeOK
  BY DEF IInv
<1> QED BY InitIInv, NextIInv, <1>1, PTL DEF Spec

(* An entry lives exactly as long as its wire has reads to come: the       *)
(* credits are those reads, two live wires never share a slot, and no slot *)
(* stays occupied without a wire whose last read will free it.             *)
THEOREM StorageSafe == Spec => []SlabSafe
<1>1. IInv => SlabSafe
  BY DEF IInv, SlabSafe
<1> QED BY InitIInv, NextIInv, <1>1, PTL DEF Spec

(* A call that rewrites the entry of one live wire changes what the ledger *)
(* holds for that wire and for no other.                                   *)
LEMMA OwnEntryHeld ==
  ASSUME IInv, NEW w \in Live,
         handle' = handle,
         left' \in [Wires -> 0 .. MaxCredits],
         \A v \in Wires \ {w} : left'[v] = left[v],
         \A j \in Slots \ {ToIndex(handle[w])} : store'[j] = store[j]
  PROVE  Held' = [Held EXCEPT ![w] = IF left'[w] > 0 THEN store'[ToIndex(handle[w])].data
                                                     ELSE NoData]
<1>1. ASSUME NEW v \in Wires \ {w}
      PROVE  Held'[v] = Held[v]
  <2>1. CASE left[v] > 0
    <3>1. v \in Live /\ left'[v] = left[v]
      BY <2>1 DEF Live
    <3>2. handle[v] \in Keys /\ handle[w] \in Keys /\ handle[v] # handle[w]
      BY <3>1, LiveFound DEF IInv, NoAlias
    <3>3. ToIndex(handle[v]) \in Slots \ {ToIndex(handle[w])}
      BY <3>2, KeyIndex
    <3> QED BY <3>1, <3>3 DEF Held
  <2>2. CASE ~(left[v] > 0)
    BY <2>2 DEF Held
  <2> QED BY <2>1, <2>2
<1>2. Held'[w] = IF left'[w] > 0 THEN store'[ToIndex(handle[w])].data ELSE NoData
  BY DEF Held, Live
<1> QED BY <1>1, <1>2 DEF Held

LEMMA AllocateOpens ==
  ASSUME IInv, NEW w \in Wires, NEW n \in 0 .. MaxCredits, AllocateCall(w, n)
  PROVE  Ledger!Open(w, n)
<1>1. /\ left[w] = 0
      /\ left' = [left EXCEPT ![w] = n]
      /\ answer' = <<"ok", NoData>>
      /\ left \in [Wires -> 0 .. MaxCredits]
      /\ handle \in [Wires -> Keys \cup {UNREACHABLE}]
      /\ store \in [Slots -> Entry]
  BY DEF AllocateCall, IInv, TypeOK
<1>2. CASE n = 0
  <2>1. store' = store /\ handle' = [handle EXCEPT ![w] = UNREACHABLE] /\ left' = left
    BY <1>1, <1>2 DEF AllocateCall
  <2>2. \A v \in Wires : left[v] > 0 => handle'[v] = handle[v]
    BY <1>1, <2>1
  <2>3. Held' = Held
    BY <2>1, <2>2 DEF Held
  <2> QED BY <1>1, <2>3 DEF Ledger!Open
<1>3. CASE n > 0
  <2>1. PICK i \in Vacant(store) :
          /\ store' = Insert(store, i, NoData, n)
          /\ handle' = [handle EXCEPT ![w] = ToKey(i)]
    BY <1>3 DEF AllocateCall
  <2>2. i \in Slots /\ store[i].credits = 0
    <3>1. i \in Slots \ Occupied(store)
      BY VacantFree
    <3>2. store[i] \in Entry
      BY <1>1, <3>1
    <3> QED BY <3>1, <3>2 DEF Occupied, Entry
  <2>3. store'[i].data = NoData /\ \A j \in Slots \ {i} : store'[j] = store[j]
    BY <1>1, <2>1, <2>2 DEF Insert
  <2>4. handle'[w] = ToKey(i) /\ ToIndex(ToKey(i)) = i
    BY <1>1, <2>1, <2>2, KeyIndex
  <2>5. Held'[w] = NoData /\ Held[w] = NoData
    BY <1>1, <1>3, <2>3, <2>4 DEF Held
  <2>6. ASSUME NEW v \in Wires \ {w}
        PROVE  Held'[v] = Held[v]
    <3>1. left'[v] = left[v] /\ handle'[v] = handle[v]
      BY <1>1, <2>1
    <3>2. left[v] > 0 => ToIndex(handle[v]) \in Slots \ {i}
      <4> SUFFICES ASSUME left[v] > 0 PROVE ToIndex(handle[v]) \in Slots \ {i}
        OBVIOUS
      <4>1. v \in Live
        BY DEF Live
      <4> QED BY <2>2, <4>1, LiveFound
    <3> QED BY <2>3, <3>1, <3>2 DEF Held
  <2>7. Held' = Held
    BY <2>5, <2>6 DEF Held
  <2> QED BY <1>1, <2>7 DEF Ledger!Open
<1> QED BY <1>2, <1>3

LEMMA AddCreditsGrants ==
  ASSUME IInv, NEW w \in Wires, NEW n \in 1 .. MaxCredits, AddCreditsCall(w, n)
  PROVE  Ledger!Grant(w, n)
<1>1. w \in Live /\ handle' = handle /\ left[w] > 0
  BY DEF AddCreditsCall, Live
<1>2. /\ handle[w] \in Keys
      /\ ToIndex(handle[w]) \in Slots
      /\ store[ToIndex(handle[w])].credits = left[w]
      /\ Found(store, handle[w])
  BY <1>1, LiveFound
<1>3. store \in [Slots -> Entry] /\ left \in [Wires -> 0 .. MaxCredits]
  BY DEF IInv, TypeOK
<1>4. CASE Overflows(store, handle[w], n)
  <2>1. store' = store /\ left' = left /\ answer' = <<"OverflowCredits", NoData>>
    BY <1>2, <1>4 DEF AddCreditsCall
  <2>2. Held' = Held
    BY <1>1, <2>1 DEF Held
  <2>3. left[w] + n > MaxCredits
    BY <1>2, <1>4 DEF Overflows
  <2> QED BY <1>1, <2>1, <2>2, <2>3 DEF Ledger!Grant
<1>5. CASE ~Overflows(store, handle[w], n)
  <2>1. /\ store' = AddCredits(store, handle[w], n)
        /\ left' = [left EXCEPT ![w] = @ + n]
        /\ answer' = <<"ok", NoData>>
    BY <1>2, <1>5 DEF AddCreditsCall
  <2>2. /\ store'[ToIndex(handle[w])].data = store[ToIndex(handle[w])].data
        /\ \A j \in Slots \ {ToIndex(handle[w])} : store'[j] = store[j]
    BY <1>2, <1>3, <1>5, <2>1, AddEffect
  <2>3. left[w] + n <= MaxCredits
    BY <1>2, <1>3, <1>5 DEF Overflows
  <2>4. /\ left' \in [Wires -> 0 .. MaxCredits]
        /\ left'[w] > 0
        /\ \A v \in Wires \ {w} : left'[v] = left[v]
    BY <1>1, <1>3, <2>1, <2>3
  <2>5. Held' = [Held EXCEPT ![w] = store[ToIndex(handle[w])].data]
    BY <1>1, <2>2, <2>4, OwnEntryHeld
  <2>6. Held' = Held
    BY <1>1, <2>5 DEF Held
  <2> QED BY <1>1, <2>1, <2>3, <2>6 DEF Ledger!Grant
<1> QED BY <1>4, <1>5

LEMMA GetReads ==
  ASSUME IInv, NEW w \in Wires, GetCall(w)
  PROVE  Ledger!Read(w)
<1>1. w \in Live /\ handle' = handle /\ left[w] > 0
  BY DEF GetCall, Live
<1>2. /\ handle[w] \in Keys
      /\ ToIndex(handle[w]) \in Slots
      /\ store[ToIndex(handle[w])].credits = left[w]
      /\ Found(store, handle[w])
  BY <1>1, LiveFound
<1>3. store \in [Slots -> Entry] /\ left \in [Wires -> 0 .. MaxCredits]
  BY DEF IInv, TypeOK
<1>4. /\ store' = Get(store, handle[w])
      /\ left' = [left EXCEPT ![w] = @ - 1]
      /\ answer' = <<"value", Value(store, handle[w])>>
  BY <1>2 DEF GetCall
<1>5. /\ store'[ToIndex(handle[w])].credits = left[w] - 1
      /\ left[w] - 1 > 0 =>
           store'[ToIndex(handle[w])].data = store[ToIndex(handle[w])].data
      /\ \A j \in Slots \ {ToIndex(handle[w])} : store'[j] = store[j]
  BY <1>2, <1>3, <1>4, GetEffect
<1>6. /\ left' \in [Wires -> 0 .. MaxCredits]
      /\ left'[w] = left[w] - 1
      /\ \A v \in Wires \ {w} : left'[v] = left[v]
  BY <1>1, <1>3, <1>4
<1>7. Held[w] = store[ToIndex(handle[w])].data
  BY <1>1 DEF Held
<1>8. Held' = [Held EXCEPT ![w] = IF left[w] = 1 THEN NoData ELSE @]
  <2>1. Held' = [Held EXCEPT ![w] = IF left'[w] > 0 THEN store'[ToIndex(handle[w])].data
                                                    ELSE NoData]
    BY <1>1, <1>5, <1>6, OwnEntryHeld
  <2>2. CASE left[w] = 1
    BY <1>6, <2>1, <2>2
  <2>3. CASE left[w] # 1
    <3>1. left[w] - 1 > 0
      BY <1>1, <1>3, <2>3
    <3> QED BY <1>5, <1>6, <1>7, <2>1, <2>3, <3>1
  <2> QED BY <2>2, <2>3
<1> QED BY <1>1, <1>4, <1>7, <1>8 DEF Ledger!Read, Value

LEMMA SetWrites ==
  ASSUME IInv, NEW w \in Wires, NEW d \in Data, SetCall(w, d)
  PROVE  Ledger!Write(w, d)
<1>1. w \in Live /\ handle' = handle /\ left' = left /\ left[w] > 0
  BY DEF SetCall, Live
<1>2. /\ handle[w] \in Keys
      /\ ToIndex(handle[w]) \in Slots
      /\ Found(store, handle[w])
  BY <1>1, LiveFound
<1>3. store \in [Slots -> Entry] /\ left \in [Wires -> 0 .. MaxCredits]
  BY DEF IInv, TypeOK
<1>4. store' = Set(store, handle[w], d) /\ answer' = <<"ok", NoData>>
  BY <1>2 DEF SetCall
<1>5. /\ store'[ToIndex(handle[w])].data = d
      /\ \A j \in Slots \ {ToIndex(handle[w])} : store'[j] = store[j]
  BY <1>2, <1>3, <1>4, SetEffect
<1>6. Held' = [Held EXCEPT ![w] = d]
  BY <1>1, <1>3, <1>5, OwnEntryHeld
<1> QED BY <1>1, <1>4, <1>6 DEF Ledger!Write

(* Every behaviour of the slab and its callers is a behaviour of the       *)
(* ledger: an allocation opens a budget, a read answers with the value     *)
(* last written to that wire whatever wires used its slot before, and the  *)
(* counter overflows in the slab exactly when the budget would.            *)
THEOREM StorageImplementsLedger == Spec => ImplementsLedger
<1>1. Init => Ledger!Init
  BY DEF Init, Ledger!Init, Held
<1>2. IInv /\ [Next]_vars => [Ledger!Next]_(Ledger!vars)
  <2> SUFFICES ASSUME IInv, [Next]_vars PROVE [Ledger!Next]_(Ledger!vars)
    OBVIOUS
  <2>1. ASSUME NEW w \in Wires, NEW n \in 0 .. MaxCredits, AllocateCall(w, n)
        PROVE  Ledger!Next
    BY <2>1, AllocateOpens DEF Ledger!Next
  <2>2. ASSUME NEW w \in Wires, NEW n \in 1 .. MaxCredits, AddCreditsCall(w, n)
        PROVE  Ledger!Next
    BY <2>2, AddCreditsGrants DEF Ledger!Next
  <2>3. ASSUME NEW w \in Wires, GetCall(w)
        PROVE  Ledger!Next
    BY <2>3, GetReads DEF Ledger!Next
  <2>4. ASSUME NEW w \in Wires, NEW d \in Data, SetCall(w, d)
        PROVE  Ledger!Next
    BY <2>4, SetWrites DEF Ledger!Next
  <2>5. CASE UNCHANGED vars
    BY <2>5 DEF vars, Ledger!vars, Held
  <2> QED BY <2>1, <2>2, <2>3, <2>4, <2>5 DEF Next
<1> QED BY InitIInv, NextIInv, <1>1, <1>2, PTL DEF Spec, ImplementsLedger, Ledger!Spec
=============================================================================
