------------------------ MODULE CutAndChoose_proofs ------------------------
(***************************************************************************)
(* The safety of the cut-and-choose setup, for every number of instances,  *)
(* of sealed ones, of ciphertexts, of inputs and every bound of a channel: *)
(* the six invariants of the run "cut_and_choose".  The faults are those   *)
(* of the model (any instance may have any of them: that at most one has   *)
(* is not used).                                                           *)
(*                                                                         *)
(* The inductive invariant, bottom up: Queues, what can be on the way at   *)
(* all, given what the garbler has settled; Control, which side can be     *)
(* where, and that both mean the same sealed instances; Opening, from when *)
(* on seeds and checks are about the opened ones; Streaming, what becomes  *)
(* of each ciphertext; Checking, what an "ok" of the full check stands     *)
(* for; Soldered and Evaluated, what the answers rest on; NoError and      *)
(* Lockstep, how far the sides are apart while nothing goes wrong.         *)
(***************************************************************************)
EXTENDS CutAndChoose, TLAPS, FiniteSetTheorems, SequenceTheorems

(* The sequence s is of elements of S, each greater than the one before.   *)
Increasing(s, S) ==
  /\ s \in [1 .. Cardinality(S) -> S]
  /\ \A j, k \in 1 .. Cardinality(S) : j < k => s[j] < s[k]

(* Indexes are numbers.                                                    *)
LEMMA InstancesNat ==
  Total \in Nat /\ (\A i \in Instances : i \in Nat) /\ (\A S \in SUBSET Instances : \A i \in S : i \in Nat)
BY CutAssumption DEF Instances

(* There are finitely many instances.                                      *)
LEMMA InstancesFinite ==
  ASSUME NEW S \in SUBSET Instances
  PROVE  /\ IsFiniteSet(S) /\ Cardinality(S) \in Nat /\ Cardinality(S) <= Total
         /\ Cardinality(S) = 0 <=> S = {}
<1>1. IsFiniteSet(Instances) /\ Cardinality(Instances) = Total
  BY CutAssumption, FS_Interval DEF Instances
<1>2. IsFiniteSet(S) /\ Cardinality(S) <= Total
  BY <1>1, FS_Subset
<1> QED
  BY <1>2, FS_CardinalityType, FS_EmptySet

(* The rank of an index: how many of the set are not above it.             *)
UpTo(S, i) == {j \in S : j <= i}

(* Of two indexes of a set the greater has the greater rank.               *)
LEMMA RankGrows ==
  ASSUME NEW S \in SUBSET Instances, NEW i \in S, NEW k \in S, i < k
  PROVE  Cardinality(UpTo(S, i)) < Cardinality(UpTo(S, k))
<1>1. UpTo(S, i) \in SUBSET UpTo(S, k) /\ k \in UpTo(S, k) /\ k \notin UpTo(S, i)
  BY InstancesNat DEF UpTo
<1>2. UpTo(S, k) \in SUBSET Instances /\ UpTo(S, i) \in SUBSET Instances
  BY DEF UpTo
<1>3. IsFiniteSet(UpTo(S, k)) /\ Cardinality(UpTo(S, k)) \in Nat /\ Cardinality(UpTo(S, i)) \in Nat
  BY <1>2, InstancesFinite
<1>4. Cardinality(UpTo(S, i)) <= Cardinality(UpTo(S, k))
  BY <1>1, <1>3, FS_Subset
<1>5. Cardinality(UpTo(S, i)) # Cardinality(UpTo(S, k))
  BY <1>1, <1>3, FS_Subset
<1> QED
  BY <1>3, <1>4, <1>5

(* Every set of indexes can be sorted: each goes to the place that is its  *)
(* rank.                                                                   *)
LEMMA IncreasingExists ==
  ASSUME NEW S \in SUBSET Instances
  PROVE  \E s : Increasing(s, S)
<1> DEFINE n == Cardinality(S)
           rank == [i \in S |-> Cardinality(UpTo(S, i))]
           s == [k \in 1 .. n |-> CHOOSE i \in S : rank[i] = k]
<1>1. IsFiniteSet(S) /\ n \in Nat
  BY InstancesFinite
<1>2. ASSUME NEW i \in S PROVE rank[i] \in 1 .. n
  <2>1. UpTo(S, i) \in SUBSET S /\ UpTo(S, i) \in SUBSET Instances /\ i \in UpTo(S, i)
    BY InstancesNat DEF UpTo
  <2>2. Cardinality(UpTo(S, i)) <= n
    BY <1>1, <2>1, FS_Subset
  <2>3. Cardinality(UpTo(S, i)) \in Nat /\ Cardinality(UpTo(S, i)) # 0
    BY <2>1, InstancesFinite
  <2> QED
    BY <1>1, <2>2, <2>3
<1>3. \A i, k \in S : i < k => rank[i] < rank[k]
  BY RankGrows
<1>4. rank \in Injection(S, 1 .. n)
  <2>1. rank \in [S -> 1 .. n]
    BY <1>2
  <2>2. \A i, k \in S : rank[i] = rank[k] => i = k
    <3>1. \A i, k \in S : i < k \/ k < i \/ i = k
      BY InstancesNat
    <3> HIDE DEF rank
    <3> QED
      BY <1>3, <2>1, <3>1
  <2> HIDE DEF rank
  <2> QED
    BY <2>1, <2>2 DEF Injection, IsInjective
<1>5. rank \in Surjection(S, 1 .. n)
  <2>1. IsFiniteSet(1 .. n) /\ Cardinality(1 .. n) = n
    BY <1>1, FS_Interval
  <2> HIDE DEF rank
  <2> QED
    BY <1>1, <1>4, <2>1, FS_Injection
<1>6. \A k \in 1 .. n : \E i \in S : rank[i] = k
  <2> HIDE DEF rank
  <2> QED
    BY <1>5 DEF Surjection
<1>7. \A k \in 1 .. n : s[k] \in S /\ rank[s[k]] = k
  <2> HIDE DEF rank
  <2> QED
    BY <1>6
<1>8. \A j, k \in 1 .. n : j < k => s[j] < s[k]
  <2> SUFFICES ASSUME NEW j \in 1 .. n, NEW k \in 1 .. n, j < k, ~ s[j] < s[k] PROVE FALSE
    OBVIOUS
  <2>1. s[k] < s[j] \/ s[k] = s[j]
    BY InstancesNat, <1>7
  <2> HIDE DEF rank, s
  <2>2. rank[s[k]] = k /\ rank[s[j]] = j /\ s[k] \in S /\ s[j] \in S
    BY <1>7
  <2>3. CASE s[k] < s[j]
    <3>1. rank[s[k]] < rank[s[j]]
      BY <1>3, <2>2, <2>3
    <3> QED
      BY <2>2, <3>1
  <2> QED
    BY <2>1, <2>2, <2>3
<1>9. s \in [1 .. n -> S]
  <2> HIDE DEF rank
  <2> QED
    BY <1>7
<1> QED
  <2> HIDE DEF s
  <2> QED BY <1>8, <1>9 DEF Increasing

(* Indexes(S) has every element of S, once and in order.                   *)
LEMMA IndexesInOrder ==
  ASSUME NEW S \in SUBSET Instances
  PROVE  LET n == Cardinality(S)
         IN  /\ n \in Nat
             /\ Indexes(S) \in [1 .. n -> S]
             /\ \A j, k \in 1 .. n : j < k => Indexes(S)[j] < Indexes(S)[k]
             /\ \A j, k \in 1 .. n : Indexes(S)[j] = Indexes(S)[k] => j = k
             /\ \A i \in S : \E k \in 1 .. n : Indexes(S)[k] = i
<1> DEFINE n == Cardinality(S)
           idx == Indexes(S)
<1>1. IsFiniteSet(S) /\ n \in Nat
  BY InstancesFinite
<1>2. Increasing(idx, S)
  BY IncreasingExists DEF Indexes, Increasing
<1> HIDE DEF idx
<1>3. idx \in [1 .. n -> S] /\ \A j, k \in 1 .. n : j < k => idx[j] < idx[k]
  BY <1>2 DEF Increasing
<1>4. \A j, k \in 1 .. n : idx[j] = idx[k] => j = k
  <2> SUFFICES ASSUME NEW j \in 1 .. n, NEW k \in 1 .. n, idx[j] = idx[k], j # k PROVE FALSE
    OBVIOUS
  <2>1. idx[j] \in Int /\ idx[k] \in Int
    BY InstancesNat, <1>3
  <2> QED
    BY <1>1, <1>3, <2>1
<1>5. idx \in Injection(1 .. n, S)
  BY <1>3, <1>4 DEF Injection, IsInjective
<1>6. Cardinality(1 .. n) = n
  BY <1>1, FS_Interval
<1>7. idx \in Surjection(1 .. n, S)
  BY <1>1, <1>5, <1>6, FS_Injection
<1>8. \A i \in S : \E k \in 1 .. n : idx[k] = i
  BY <1>7 DEF Surjection
<1> QED
  BY <1>1, <1>3, <1>4, <1>8 DEF idx
-----------------------------------------------------------------------------
(* What the delta between two labels does.                                 *)
LEMMA XorFacts ==
  ASSUME NEW a, NEW b
  PROVE  /\ XOR(a, XOR(a, b)) = b
         /\ XOR(a, {}) = a
         /\ XOR(a, b) = a => b = {}
BY DEF XOR, SymDiff

(* With the same nonce, different labels give different results.           *)
LEMMA XorInjective ==
  ASSUME NEW a, NEW b, NEW n, XOR(a, n) = XOR(b, n)
  PROVE  a = b
BY DEF XOR, SymDiff

(* The two labels of a wire are never the same.                            *)
LEMMA LabelsDiffer ==
  ASSUME NEW i \in Instances, NEW w \in Wires
  PROVE  input_labels_for(i)[w].label0 # input_labels_for(i)[w].label1
<1>1. input_labels_for(i)[w].label0 = {<<i, w>>}
  BY DEF input_labels_for
<1>2. input_labels_for(i)[w].label1 = XOR({<<i, w>>}, Offset(i))
  BY DEF input_labels_for
<1>3. Offset(i) # {}
  BY DEF Offset
<1> QED
  BY <1>1, <1>2, <1>3, XorFacts

(* Of two instances the deltas of the two values differ.                   *)
LEMMA DeltasDiffer ==
  ASSUME NEW b \in Instances, NEW o \in Instances, b # o, NEW w \in Wires
  PROVE  XOR(input_labels_for(b)[w].label0, input_labels_for(o)[w].label0)
           # XOR(input_labels_for(b)[w].label1, input_labels_for(o)[w].label1)
<1> DEFINE x == <<b, 0>>
<1>1. /\ input_labels_for(b)[w].label0 = {<<b, w>>}
      /\ input_labels_for(b)[w].label1 = XOR({<<b, w>>}, {x})
      /\ input_labels_for(o)[w].label0 = {<<o, w>>}
      /\ input_labels_for(o)[w].label1 = XOR({<<o, w>>}, {<<o, 0>>})
  BY DEF input_labels_for, Offset
<1>2. x # <<o, w>> /\ x # <<o, 0>>
  OBVIOUS
<1> HIDE DEF x
<1>3. x \in XOR({<<b, w>>}, {<<o, w>>}) <=> x \notin XOR(XOR({<<b, w>>}, {x}), XOR({<<o, w>>}, {<<o, 0>>}))
  BY <1>2 DEF XOR, SymDiff
<1> QED
  BY <1>1, <1>3

(* Whose labels of the bits are crossed is committed to as it is.          *)
LEMMA CommitsTell ==
  ASSUME NEW i \in Instances, NEW j, NEW k, j # k, NEW n,
         commit_input_wires(CrossedIf(i, j), n) = commit_input_wires(CrossedIf(i, k), n)
  PROVE  fault[i] # j /\ fault[i] # k
<1>1. 1 \in Wires
  BY CutAssumption DEF Wires
<1> DEFINE l0 == input_labels_for(i)[1].label0
           l1 == input_labels_for(i)[1].label1
           c(x) == CrossedIf(i, x)[1].label0
<1>2. \A x : c(x) = IF fault[i] = x THEN l1 ELSE l0
  BY <1>1 DEF CrossedIf, Crossed
<1>3. l0 # l1
  BY <1>1, LabelsDiffer
<1>4. commit_input_wires(CrossedIf(i, j), n)[1].commit_false.sha256
        = commit_input_wires(CrossedIf(i, k), n)[1].commit_false.sha256
  OBVIOUS
<1>5. XOR(c(j), n) = XOR(c(k), n)
  BY <1>1, <1>4 DEF commit_input_wires, hash_label
<1>6. c(j) = c(k)
  BY <1>5, XorInjective
<1> QED
  BY <1>2, <1>3, <1>6

(* What the guest finds between the base and the k-th of the others.       *)
GuestLabels(S, k) == CrossedIf(Indexes(S)[k], "guest")
GuestDelta(S, k) ==
  [w \in Wires |->
     [delta0 |-> XOR(GuestLabels(S, 1)[w].label0, GuestLabels(S, k + 1)[w].label0),
      delta1 |-> XOR(GuestLabels(S, 1)[w].label1, GuestLabels(S, k + 1)[w].label1)]]
SentDelta(S, k) ==
  IF fault[Indexes(S)[k + 1]] = "delta" THEN CrossedDelta(GuestDelta(S, k)) ELSE GuestDelta(S, k)
Others(S) == 1 .. Cardinality(S) - 1

(* The base is the first of the sealed instances; the others follow it,    *)
(* each at a place of its own.                                             *)
LEMMA HeadAndTail ==
  ASSUME NEW S \in SUBSET Instances, S # {}
  PROVE  /\ Cardinality(S) \in Nat \ {0} /\ Others(S) \subseteq Nat
         /\ Indexes(S) \in Seq(S) /\ Len(Indexes(S)) = Cardinality(S) /\ Indexes(S) # <<>>
         /\ Head(Indexes(S)) = Indexes(S)[1] /\ Indexes(S)[1] \in S
         /\ DOMAIN Indexes(S) = 1 .. Cardinality(S)
         /\ DOMAIN Tail(Indexes(S)) = Others(S) /\ Len(Tail(Indexes(S))) = Cardinality(S) - 1
         /\ \A k \in Others(S) : /\ Tail(Indexes(S))[k] = Indexes(S)[k + 1]
                                 /\ k + 1 \in 1 .. Cardinality(S)
                                 /\ Indexes(S)[k + 1] \in S
                                 /\ Indexes(S)[k + 1] # Indexes(S)[1]
         /\ \A i \in S : i = Indexes(S)[1] \/ \E k \in Others(S) : i = Indexes(S)[k + 1]
<1> DEFINE n == Cardinality(S)
           idx == Indexes(S)
<1>1. n \in Nat /\ n # 0
  BY InstancesFinite
<1>2. /\ idx \in [1 .. n -> S]
      /\ \A j, k \in 1 .. n : idx[j] = idx[k] => j = k
      /\ \A i \in S : \E k \in 1 .. n : idx[k] = i
  BY IndexesInOrder
<1> HIDE DEF n, idx
<1>3. idx \in Seq(S) /\ Len(idx) = n /\ idx # <<>>
  BY <1>1, <1>2, SeqDef
<1>4. Head(idx) = idx[1] /\ idx[1] \in S
  BY <1>1, <1>2, <1>3
<1>5. /\ Tail(idx) \in Seq(S) /\ Len(Tail(idx)) = n - 1
      /\ \A k \in 1 .. n - 1 : Tail(idx)[k] = idx[k + 1]
  BY <1>3, HeadTailProperties
<1>6. DOMAIN Tail(idx) = 1 .. n - 1
  BY <1>5, LenProperties
<1>7. \A k \in 1 .. n - 1 : k + 1 \in 1 .. n /\ k + 1 # 1 /\ k \in Nat
  BY <1>1
<1>8. \A k \in 1 .. n - 1 : idx[k + 1] \in S /\ idx[k + 1] # idx[1]
  BY <1>1, <1>2, <1>7
<1>9. \A i \in S : i = idx[1] \/ \E k \in 1 .. n - 1 : i = idx[k + 1]
  <2> SUFFICES ASSUME NEW i \in S, i # idx[1] PROVE \E k \in 1 .. n - 1 : i = idx[k + 1]
    OBVIOUS
  <2>1. PICK k \in 1 .. n : idx[k] = i
    BY <1>2
  <2>2. k - 1 \in 1 .. n - 1 /\ (k - 1) + 1 = k
    BY <1>1, <2>1
  <2> QED
    BY <2>1, <2>2
<1>10. DOMAIN idx = 1 .. n
  BY <1>2
<1> QED
  BY <1>1, <1>3, <1>4, <1>5, <1>6, <1>7, <1>8, <1>9, <1>10 DEF n, idx, Others

(* `do_soldering`, with the sequences written out.                         *)
LEMMA DoSoldering ==
  ASSUME NEW S \in SUBSET Instances, S # {}
  PROVE  do_soldering(S) =
           [proof |->
              [deltas |-> [k \in Others(S) |-> GuestDelta(S, k)],
               base_commitment |-> commit_input_wires(GuestLabels(S, 1), NoNonce),
               base_nonce_commitment |-> commit_input_wires(GuestLabels(S, 1), nonce),
               commitments |-> [k \in Others(S) |-> commit_input_wires(GuestLabels(S, k + 1), NoNonce)],
               nonce |-> nonce],
            deltas |-> [k \in Others(S) |-> SentDelta(S, k)]]
<1> DEFINE n == Cardinality(S)
           idx == Indexes(S)
           P == [k \in DOMAIN idx |-> CrossedIf(idx[k], "guest")]
           T == {CrossedIf(idx[k], "guest") : k \in 1 .. n}
<1>1. n \in Nat \ {0} /\ DOMAIN idx = 1 .. n /\ Others(S) = 1 .. n - 1
  BY HeadAndTail DEF Others
<1>2. P \in Seq(T) /\ Len(P) = n /\ P # <<>> /\ P = [k \in 1 .. n |-> GuestLabels(S, k)]
  <2>1. P = [k \in 1 .. n |-> GuestLabels(S, k)] /\ P \in [1 .. n -> T]
    BY <1>1 DEF GuestLabels
  <2> HIDE DEF P, T, idx, n
  <2> QED
    BY <1>1, <2>1, SeqDef
<1> HIDE DEF P, T
<1>3. Head(P) = GuestLabels(S, 1)
  BY <1>1, <1>2
<1>4. /\ Tail(P) \in Seq(T) /\ Len(Tail(P)) = n - 1
      /\ \A k \in 1 .. n - 1 : Tail(P)[k] = P[k + 1]
  BY <1>2, HeadTailProperties
<1>5. DOMAIN Tail(P) = 1 .. n - 1
  BY <1>4, LenProperties
<1>6. \A k \in Others(S) : Tail(P)[k] = GuestLabels(S, k + 1)
  <2>1. \A k \in 1 .. n - 1 : k + 1 \in 1 .. n
    BY <1>1
  <2> QED
    BY <1>1, <1>2, <1>4, <2>1
<1>7. guest_main(P, nonce) =
        [deltas |-> [k \in Others(S) |-> GuestDelta(S, k)],
         base_commitment |-> commit_input_wires(GuestLabels(S, 1), NoNonce),
         base_nonce_commitment |-> commit_input_wires(GuestLabels(S, 1), nonce),
         commitments |-> [k \in Others(S) |-> commit_input_wires(GuestLabels(S, k + 1), NoNonce)],
         nonce |-> nonce]
  <2>1. [k \in DOMAIN Tail(P) |-> commit_input_wires(Tail(P)[k], NoNonce)]
          = [k \in Others(S) |-> commit_input_wires(GuestLabels(S, k + 1), NoNonce)]
    BY <1>1, <1>5, <1>6
  <2>2. [k \in DOMAIN Tail(P) |->
           [w \in Wires |-> [delta0 |-> XOR(Head(P)[w].label0, Tail(P)[k][w].label0),
                             delta1 |-> XOR(Head(P)[w].label1, Tail(P)[k][w].label1)]]]
          = [k \in Others(S) |-> GuestDelta(S, k)]
    BY <1>1, <1>3, <1>5, <1>6 DEF GuestDelta
  <2> QED
    BY <1>3, <2>1, <2>2 DEF guest_main
<1>8. prove_soldering(P, nonce) =
        [proof |-> guest_main(P, nonce), deltas |-> [k \in Others(S) |-> GuestDelta(S, k)]]
  BY <1>7 DEF prove_soldering
<1>9. [k \in DOMAIN Tail(idx) |->
         IF fault[Tail(idx)[k]] = "delta" THEN CrossedDelta(prove_soldering(P, nonce).deltas[k])
                                          ELSE prove_soldering(P, nonce).deltas[k]]
        = [k \in Others(S) |-> SentDelta(S, k)]
  <2>1. DOMAIN Tail(idx) = Others(S) /\ \A k \in Others(S) : Tail(idx)[k] = idx[k + 1]
    BY HeadAndTail
  <2>2. \A k \in Others(S) : prove_soldering(P, nonce).deltas[k] = GuestDelta(S, k)
    BY <1>8
  <2> QED
    BY <2>1, <2>2 DEF SentDelta
<1>10. do_soldering(S) =
         [proof |-> prove_soldering(P, nonce).proof,
          deltas |-> [k \in DOMAIN Tail(idx) |->
             IF fault[Tail(idx)[k]] = "delta" THEN CrossedDelta(prove_soldering(P, nonce).deltas[k])
                                              ELSE prove_soldering(P, nonce).deltas[k]]]
  BY DEF do_soldering, P
<1>11. prove_soldering(P, nonce).proof = guest_main(P, nonce)
  BY <1>8
<1> QED
  BY <1>7, <1>9, <1>10, <1>11

(* The deltas of an honest garbler.                                        *)
TrueDelta(S, k) ==
  LET base == input_labels_for(Indexes(S)[1])
      other == input_labels_for(Indexes(S)[k + 1])
  IN [w \in Wires |-> [delta0 |-> XOR(base[w].label0, other[w].label0),
                       delta1 |-> XOR(base[w].label1, other[w].label1)]]
TrueDeltas(S) == [k \in Others(S) |-> TrueDelta(S, k)]
Accepted(S) ==
  verify_soldering_against_commits(do_soldering(S), Indexes(S), FirstCommit, SecondCommit, nonce)

(* A proof is accepted only if it is about the committed labels of all     *)
(* instances and comes with the deltas that it proves.                     *)
LEMMA AcceptedOnlyTrue ==
  ASSUME NEW S \in SUBSET Instances, S # {}, Accepted(S)
  PROVE  /\ \A i \in S : /\ fault[i] \notin {"guest", "labels"}
                         /\ fault[i] = "delta" => i = Indexes(S)[1]
         /\ do_soldering(S).deltas = TrueDeltas(S)
<1> DEFINE idx == Indexes(S)
           b == Indexes(S)[1]
<1>1. /\ [k \in Others(S) |-> GuestDelta(S, k)] = [k \in Others(S) |-> SentDelta(S, k)]
      /\ commit_input_wires(GuestLabels(S, 1), NoNonce) = FirstCommit[Head(idx)]
      /\ [k \in Others(S) |-> commit_input_wires(GuestLabels(S, k + 1), NoNonce)]
           = [k \in DOMAIN Tail(idx) |-> FirstCommit[Tail(idx)[k]]]
  <2>1. do_soldering(S).proof =
          [deltas |-> do_soldering(S).deltas, base_commitment |-> FirstCommit[Head(idx)],
           base_nonce_commitment |-> SecondCommit[Head(idx)],
           commitments |-> [k \in DOMAIN Tail(idx) |-> FirstCommit[Tail(idx)[k]]],
           nonce |-> nonce]
    BY DEF Accepted, verify_soldering_against_commits, verify_soldering
  <2>2. do_soldering(S).deltas = [k \in Others(S) |-> SentDelta(S, k)]
    BY DoSoldering
  <2>3. /\ do_soldering(S).proof.deltas = [k \in Others(S) |-> GuestDelta(S, k)]
        /\ do_soldering(S).proof.base_commitment = commit_input_wires(GuestLabels(S, 1), NoNonce)
        /\ do_soldering(S).proof.commitments
             = [k \in Others(S) |-> commit_input_wires(GuestLabels(S, k + 1), NoNonce)]
    BY DoSoldering
  <2> QED
    BY <2>1, <2>2, <2>3
<1>2. \A i \in S : commit_input_wires(CrossedIf(i, "guest"), NoNonce) = FirstCommit[i]
  <2> SUFFICES ASSUME NEW i \in S
               PROVE  commit_input_wires(CrossedIf(i, "guest"), NoNonce) = FirstCommit[i]
    OBVIOUS
  <2>1. CASE i = b
    BY <1>1, <2>1, HeadAndTail DEF GuestLabels
  <2>2. CASE \E k \in Others(S) : i = idx[k + 1]
    <3>1. PICK k \in Others(S) : i = idx[k + 1]
      BY <2>2
    <3>2. Tail(idx)[k] = i /\ k \in DOMAIN Tail(idx)
      BY <3>1, HeadAndTail
    <3>3. [j \in Others(S) |-> commit_input_wires(GuestLabels(S, j + 1), NoNonce)][k]
            = [j \in DOMAIN Tail(idx) |-> FirstCommit[Tail(idx)[j]]][k]
      BY <1>1
    <3> QED
      BY <3>1, <3>2, <3>3 DEF GuestLabels
  <2> QED
    BY <2>1, <2>2, HeadAndTail
<1>3. \A i \in S : fault[i] \notin {"guest", "labels"}
  <2> SUFFICES ASSUME NEW i \in S PROVE fault[i] \notin {"guest", "labels"}
    OBVIOUS
  <2>1. i \in Instances /\ FirstCommit[i] = commit_input_wires(CrossedIf(i, "labels"), NoNonce)
    BY DEF FirstCommit
  <2>2. commit_input_wires(CrossedIf(i, "guest"), NoNonce)
          = commit_input_wires(CrossedIf(i, "labels"), NoNonce)
    BY <1>2, <2>1
  <2> QED
    BY <2>1, <2>2, CommitsTell
<1>4. \A k \in Others(S) : GuestDelta(S, k) = TrueDelta(S, k)
  <2> SUFFICES ASSUME NEW k \in Others(S) PROVE GuestDelta(S, k) = TrueDelta(S, k)
    OBVIOUS
  <2>1. idx[k + 1] \in S /\ b \in S
    BY HeadAndTail
  <2>2. GuestLabels(S, 1) = input_labels_for(b) /\ GuestLabels(S, k + 1) = input_labels_for(idx[k + 1])
    BY <1>3, <2>1 DEF GuestLabels, CrossedIf
  <2> QED
    BY <2>2 DEF GuestDelta, TrueDelta
<1>5. \A k \in Others(S) : GuestDelta(S, k) = SentDelta(S, k)
  <2> SUFFICES ASSUME NEW k \in Others(S) PROVE GuestDelta(S, k) = SentDelta(S, k)
    OBVIOUS
  <2>1. [j \in Others(S) |-> GuestDelta(S, j)][k] = [j \in Others(S) |-> SentDelta(S, j)][k]
    BY <1>1
  <2> QED
    BY <2>1
<1>6. \A k \in Others(S) : fault[idx[k + 1]] # "delta"
  <2> SUFFICES ASSUME NEW k \in Others(S), fault[idx[k + 1]] = "delta" PROVE FALSE
    OBVIOUS
  <2>1. 1 \in Wires
    BY CutAssumption DEF Wires
  <2>2. TrueDelta(S, k) = CrossedDelta(TrueDelta(S, k))
    BY <1>4, <1>5 DEF SentDelta
  <2>3. TrueDelta(S, k)[1].delta0 = TrueDelta(S, k)[1].delta1
    <3>1. CrossedDelta(TrueDelta(S, k))[1].delta0 = TrueDelta(S, k)[1].delta1
      BY <2>1 DEF CrossedDelta
    <3> QED
      BY <2>2, <3>1
  <2>4. idx[k + 1] \in Instances /\ b \in Instances /\ b # idx[k + 1]
    BY HeadAndTail
  <2> QED
    BY <2>1, <2>3, <2>4, DeltasDiffer DEF TrueDelta
<1>7. \A i \in S : fault[i] = "delta" => i = b
  BY <1>6, HeadAndTail
<1>8. do_soldering(S).deltas = TrueDeltas(S)
  <2>1. do_soldering(S).deltas = [k \in Others(S) |-> SentDelta(S, k)]
    BY DoSoldering
  <2> QED
    BY <1>4, <1>5, <2>1 DEF TrueDeltas
<1> QED
  BY <1>3, <1>7, <1>8

(* The proof of an honest garbler is accepted.                             *)
LEMMA HonestAccepted ==
  ASSUME NEW S \in SUBSET Instances, S # {}, \A i \in S : fault[i] = "none"
  PROVE  Accepted(S) /\ do_soldering(S).deltas = TrueDeltas(S)
<1> DEFINE idx == Indexes(S)
           b == Indexes(S)[1]
<1>1. Head(idx) = b /\ b \in S /\ b \in Instances /\ idx # <<>>
  BY HeadAndTail
<1>2. \A i \in S, kind \in {"guest", "labels", "second"} : CrossedIf(i, kind) = input_labels_for(i)
  BY DEF CrossedIf
<1>3. /\ commit_input_wires(GuestLabels(S, 1), NoNonce) = FirstCommit[Head(idx)]
      /\ commit_input_wires(GuestLabels(S, 1), nonce) = SecondCommit[Head(idx)]
  BY <1>1, <1>2 DEF GuestLabels, FirstCommit, SecondCommit
<1>4. [k \in Others(S) |-> commit_input_wires(GuestLabels(S, k + 1), NoNonce)]
        = [k \in DOMAIN Tail(idx) |-> FirstCommit[Tail(idx)[k]]]
  <2>1. DOMAIN Tail(idx) = Others(S)
    BY HeadAndTail
  <2>2. \A k \in Others(S) : commit_input_wires(GuestLabels(S, k + 1), NoNonce) = FirstCommit[Tail(idx)[k]]
    <3> SUFFICES ASSUME NEW k \in Others(S)
                 PROVE  commit_input_wires(GuestLabels(S, k + 1), NoNonce) = FirstCommit[Tail(idx)[k]]
      OBVIOUS
    <3>1. Tail(idx)[k] = idx[k + 1] /\ idx[k + 1] \in S /\ idx[k + 1] \in Instances
      BY HeadAndTail
    <3> QED
      BY <1>2, <3>1 DEF GuestLabels, FirstCommit
  <2> QED
    BY <2>1, <2>2
<1>5. \A k \in Others(S) : GuestDelta(S, k) = SentDelta(S, k) /\ GuestDelta(S, k) = TrueDelta(S, k)
  <2> SUFFICES ASSUME NEW k \in Others(S)
               PROVE  GuestDelta(S, k) = SentDelta(S, k) /\ GuestDelta(S, k) = TrueDelta(S, k)
    OBVIOUS
  <2>1. idx[k + 1] \in S
    BY HeadAndTail
  <2>2. GuestLabels(S, 1) = input_labels_for(b) /\ GuestLabels(S, k + 1) = input_labels_for(idx[k + 1])
    BY <1>1, <1>2, <2>1 DEF GuestLabels
  <2> QED
    BY <2>1, <2>2 DEF GuestDelta, TrueDelta, SentDelta
<1>6. /\ do_soldering(S).deltas = [k \in Others(S) |-> SentDelta(S, k)]
      /\ do_soldering(S).proof =
           [deltas |-> [k \in Others(S) |-> GuestDelta(S, k)],
            base_commitment |-> commit_input_wires(GuestLabels(S, 1), NoNonce),
            base_nonce_commitment |-> commit_input_wires(GuestLabels(S, 1), nonce),
            commitments |-> [k \in Others(S) |-> commit_input_wires(GuestLabels(S, k + 1), NoNonce)],
            nonce |-> nonce]
  BY DoSoldering
<1>7. /\ [k \in Others(S) |-> GuestDelta(S, k)] = [k \in Others(S) |-> SentDelta(S, k)]
      /\ [k \in Others(S) |-> SentDelta(S, k)] = TrueDeltas(S)
  BY <1>5 DEF TrueDeltas
<1>8. do_soldering(S).proof =
        [deltas |-> do_soldering(S).deltas, base_commitment |-> FirstCommit[Head(idx)],
         base_nonce_commitment |-> SecondCommit[Head(idx)],
         commitments |-> [k \in DOMAIN Tail(idx) |-> FirstCommit[Tail(idx)[k]]],
         nonce |-> nonce]
  BY <1>3, <1>4, <1>6, <1>7
<1>9. Len(do_soldering(S).deltas) = Len(Tail(idx))
  <2>1. Cardinality(S) - 1 \in Nat /\ Others(S) = 1 .. Cardinality(S) - 1 /\ Len(Tail(idx)) = Cardinality(S) - 1
    BY HeadAndTail DEF Others
  <2>2. Len([k \in Others(S) |-> SentDelta(S, k)]) = Cardinality(S) - 1
    BY <2>1
  <2> QED
    BY <1>6, <2>1, <2>2
<1>10. \A k \in DOMAIN Tail(idx) : DOMAIN do_soldering(S).deltas[k] = DOMAIN FirstCommit[Head(idx)]
  <2>1. DOMAIN FirstCommit[Head(idx)] = Wires
    BY <1>1 DEF FirstCommit, commit_input_wires
  <2>2. \A k \in Others(S) : DOMAIN TrueDeltas(S)[k] = Wires
    BY DEF TrueDeltas, TrueDelta
  <2>3. DOMAIN Tail(idx) = Others(S)
    BY HeadAndTail
  <2> QED
    BY <1>6, <1>7, <2>1, <2>2, <2>3
<1> QED
  BY <1>1, <1>6, <1>7, <1>8, <1>9, <1>10
     DEF Accepted, verify_soldering_against_commits, verify_soldering

(* An instance's own labels of an input.                                   *)
TrueInput(i, value) ==
  [w \in Wires |-> [active_label |-> select(input_labels_for(i)[w], value[w]), value |-> value[w]]]

(* A label is accepted for a value exactly if it is the committed one.     *)
LEMMA HashesTo ==
  ASSUME NEW i \in Instances, fault[i] # "labels", NEW w \in Wires, NEW bit \in BOOLEAN
  PROVE  commit_for_value(FirstCommit[i][w], bit) = hash_label(select(input_labels_for(i)[w], bit))
<1>1. FirstCommit[i] = commit_input_wires(input_labels_for(i), NoNonce)
  BY DEF FirstCommit, CrossedIf
<1>2. FirstCommit[i][w] = [commit_false |-> hash_label(XOR(input_labels_for(i)[w].label0, NoNonce)),
                           commit_true |-> hash_label(XOR(input_labels_for(i)[w].label1, NoNonce))]
  BY <1>1 DEF commit_input_wires
<1>3. /\ XOR(input_labels_for(i)[w].label0, NoNonce) = input_labels_for(i)[w].label0
      /\ XOR(input_labels_for(i)[w].label1, NoNonce) = input_labels_for(i)[w].label1
  BY XorFacts DEF NoNonce
<1>4. FirstCommit[i][w] = [commit_false |-> hash_label(input_labels_for(i)[w].label0),
                           commit_true |-> hash_label(input_labels_for(i)[w].label1)]
  BY <1>2, <1>3
<1> QED
  BY <1>4 DEF commit_for_value, select

(* Labels of the other bits are rejected: an input is evaluated only by    *)
(* the instance's own labels, for its committed bits.                      *)
LEMMA CrossedInputFails ==
  ASSUME NEW i \in Instances, NEW value \in Values, EvaluatesToCommit(i, input_for(i, value))
  PROVE  fault[i] \notin {"hash", "labels", "input"}
<1>1. 1 \in Wires /\ value[1] \in BOOLEAN
  BY CutAssumption DEF Wires, Values
<1>2. /\ fault[i] \notin {"hash", "labels"}
      /\ hash_label(input_for(i, value)[1].active_label)
           = commit_for_value(FirstCommit[i][1], input_for(i, value)[1].value)
  BY <1>1 DEF EvaluatesToCommit
<1>3. /\ input_for(i, value)[1].active_label = select(CrossedIf(i, "input")[1], value[1])
      /\ input_for(i, value)[1].value = value[1]
  BY <1>1 DEF input_for
<1>4. select(CrossedIf(i, "input")[1], value[1]) = select(input_labels_for(i)[1], value[1])
  <2>1. commit_for_value(FirstCommit[i][1], value[1])
          = hash_label(select(input_labels_for(i)[1], value[1]))
    BY <1>1, <1>2, HashesTo
  <2>2. hash_label(select(CrossedIf(i, "input")[1], value[1]))
          = hash_label(select(input_labels_for(i)[1], value[1]))
    BY <1>2, <1>3, <2>1
  <2>3. \A a, c : hash_label(a) = hash_label(c) => a = c
    <3> SUFFICES ASSUME NEW a, NEW c, hash_label(a) = hash_label(c) PROVE a = c
      OBVIOUS
    <3>1. hash_label(a).sha256 = hash_label(c).sha256
      OBVIOUS
    <3> QED
      BY <3>1 DEF hash_label
  <2> QED
    BY <2>2, <2>3
<1>5. CASE fault[i] = "input"
  <2>1. /\ CrossedIf(i, "input")[1].label0 = input_labels_for(i)[1].label1
        /\ CrossedIf(i, "input")[1].label1 = input_labels_for(i)[1].label0
    BY <1>1, <1>5 DEF CrossedIf, Crossed
  <2> QED
    BY <1>1, <1>4, <2>1, LabelsDiffer DEF select
<1> QED
  BY <1>2, <1>5

(* An honest instance's own labels are accepted, for every value.          *)
LEMMA TrueInputEvaluates ==
  ASSUME NEW i \in Instances, NEW value \in Values, file[i] = Ciphertexts, fault[i] = "none"
  PROVE  EvaluatesToCommit(i, TrueInput(i, value)) /\ input_for(i, value) = TrueInput(i, value)
<1>1. \A w \in Wires : value[w] \in BOOLEAN
  BY DEF Values
<1>2. \A w \in Wires : hash_label(TrueInput(i, value)[w].active_label)
                         = commit_for_value(FirstCommit[i][w], TrueInput(i, value)[w].value)
  BY <1>1, HashesTo DEF TrueInput
<1>3. input_for(i, value) = TrueInput(i, value)
  BY DEF input_for, TrueInput, CrossedIf
<1> QED
  BY <1>2, <1>3 DEF EvaluatesToCommit

(* A case for every instance: the base's own and the soldered ones.        *)
LEMMA SolderedCases ==
  ASSUME NEW S \in SUBSET Instances, S # {}, NEW X, NEW deltas
  PROVE  LET cases == soldered_cases(X, Indexes(S), deltas)
         IN  /\ DOMAIN cases = S
             /\ cases[Indexes(S)[1]] = X
             /\ \A k \in Others(S) : cases[Indexes(S)[k + 1]] = solder(X, deltas[k])
<1> DEFINE n == Cardinality(S)
           idx == Indexes(S)
           cases == soldered_cases(X, Indexes(S), deltas)
           place(i) == CHOOSE k \in DOMAIN idx : idx[k] = i
<1>1. /\ n \in Nat \ {0} /\ DOMAIN idx = 1 .. n /\ Others(S) = 1 .. n - 1
      /\ \A j, k \in 1 .. n : idx[j] = idx[k] => j = k
      /\ \A j \in 1 .. n : idx[j] \in S
      /\ \A i \in S : \E k \in 1 .. n : idx[k] = i
  <2>1. n \in Nat \ {0} /\ DOMAIN idx = 1 .. n /\ Others(S) = 1 .. n - 1
    BY HeadAndTail DEF Others
  <2>2. /\ idx \in [1 .. n -> S]
        /\ \A j, k \in 1 .. n : idx[j] = idx[k] => j = k
        /\ \A i \in S : \E k \in 1 .. n : idx[k] = i
    BY IndexesInOrder
  <2> HIDE DEF idx, n
  <2> QED
    BY <2>1, <2>2
<1> HIDE DEF idx, n
<1>2. Range(idx) = S
  BY <1>1 DEF Range
<1>3. \A k \in 1 .. n : place(idx[k]) = k
  BY <1>1
<1>4. cases = [i \in Range(idx) |-> IF place(i) = 1 THEN X ELSE solder(X, deltas[place(i) - 1])]
  BY DEF soldered_cases, idx
<1> HIDE DEF cases, place
<1>5. cases[idx[1]] = X
  <2>1. idx[1] \in S /\ place(idx[1]) = 1
    BY <1>1, <1>3
  <2> QED
    BY <1>2, <1>4, <2>1
<1>6. ASSUME NEW k \in 1 .. n - 1 PROVE cases[idx[k + 1]] = solder(X, deltas[k])
  <2>1. k + 1 \in 1 .. n /\ k + 1 # 1 /\ (k + 1) - 1 = k
    BY <1>1
  <2>2. idx[k + 1] \in S /\ place(idx[k + 1]) = k + 1
    BY <1>1, <1>3, <2>1
  <2> QED
    BY <1>2, <1>4, <2>1, <2>2
<1> QED
  BY <1>1, <1>2, <1>4, <1>5, <1>6 DEF cases, idx

(* A delta changes the label and never the value.                          *)
LEMMA SolderKeepsValues ==
  ASSUME NEW i, NEW value, NEW per_wire, NEW w \in Wires
  PROVE  solder(input_for(i, value), per_wire)[w].value = value[w]
BY DEF solder, input_for

(* From the base's labels to those of the instance, for either value.      *)
LEMMA TrueDeltasCarry ==
  ASSUME NEW S \in SUBSET Instances, S # {}, NEW value \in Values, NEW i \in S
  PROVE  soldered_cases(TrueInput(Indexes(S)[1], value), Indexes(S), TrueDeltas(S))[i]
           = TrueInput(i, value)
<1> DEFINE b == Indexes(S)[1]
           cases == soldered_cases(TrueInput(b, value), Indexes(S), TrueDeltas(S))
<1>1. CASE i = b
  BY <1>1, SolderedCases
<1>2. CASE \E k \in Others(S) : i = Indexes(S)[k + 1]
  <2>1. PICK k \in Others(S) : i = Indexes(S)[k + 1]
    BY <1>2
  <2>2. cases[i] = solder(TrueInput(b, value), TrueDelta(S, k))
    BY <2>1, SolderedCases DEF TrueDeltas
  <2>3. ASSUME NEW w \in Wires
        PROVE  solder(TrueInput(b, value), TrueDelta(S, k))[w] = TrueInput(i, value)[w]
    <3>1. value[w] \in BOOLEAN
      BY DEF Values
    <3>2. TrueInput(b, value)[w]
            = [active_label |-> select(input_labels_for(b)[w], value[w]), value |-> value[w]]
      BY DEF TrueInput
    <3>3. /\ TrueDelta(S, k)[w].delta0
               = XOR(input_labels_for(b)[w].label0, input_labels_for(i)[w].label0)
          /\ TrueDelta(S, k)[w].delta1
               = XOR(input_labels_for(b)[w].label1, input_labels_for(i)[w].label1)
      BY <2>1 DEF TrueDelta
    <3>4. solder(TrueInput(b, value), TrueDelta(S, k))[w] =
            [active_label |-> XOR(select(input_labels_for(b)[w], value[w]),
                                  IF value[w] THEN TrueDelta(S, k)[w].delta1
                                              ELSE TrueDelta(S, k)[w].delta0),
             value |-> value[w]]
      BY <3>2 DEF solder
    <3>5. XOR(select(input_labels_for(b)[w], value[w]),
              IF value[w] THEN TrueDelta(S, k)[w].delta1 ELSE TrueDelta(S, k)[w].delta0)
            = select(input_labels_for(i)[w], value[w])
      BY <3>1, <3>3, XorFacts DEF select
    <3> QED
      BY <3>4, <3>5 DEF TrueInput
  <2> QED
    BY <2>2, <2>3 DEF solder, TrueInput
<1> QED
  BY <1>1, <1>2, HeadAndTail

-----------------------------------------------------------------------------
Generating == [name |-> "Generating", finalized |-> {}]
Sealed == [name |-> "PreparedForEval", finalized |-> finalized]

(* What each side may have put on the way.                                 *)
Commits == {[kind |-> "Commit1", body |-> {}], [kind |-> "Commit2", body |-> {}]}
Seeds == [kind |-> "OpenSeeds", body |-> Instances \ finalized]
InputMessages ==
  {[kind |-> "AllInputs", body |-> [i \in finalized |-> input_for(i, value)]] : value \in Values}
ProofMessage == [kind |-> "SolderingProof", body |-> do_soldering(finalized)]
BaseMessages == {[kind |-> "BaseInput", body |-> base_case(finalized, value)] : value \in Values}
ToEvaluator ==
  IF stage = Generating THEN Commits
  ELSE Commits \cup {Seeds} \cup (IF flow = "vanilla" THEN InputMessages
                                  ELSE {ProofMessage} \cup BaseMessages)
ToGarbler ==
  {[kind |-> "Commit2Nonce", body |-> {}]}
    \cup (IF finalized = {} \/ epc \in {"commit1", "commit2"} THEN {}
          ELSE {[kind |-> "FinalizeChallenge", body |-> finalized]})

Given ==
  /\ pool \in PoolSizes
  /\ flow \in {"vanilla", "soldering"}
  /\ fault \in [Instances -> FaultKinds(flow)]

Queues ==
  /\ g2e \in Seq(ToEvaluator)
  /\ e2g \in Seq(ToGarbler)

Before == {"commit1", "nonce", "challenge"}
Control ==
  /\ gpc \in {"commit1", "nonce", "challenge", "join", "base"} \cup Ended
  /\ epc \in {"commit1", "commit2", "seeds", "check", "inputs", "proof", "base"} \cup Ended
  /\ finalized \subseteq Instances
  /\ epc = "commit1" => finalized = {}
  /\ epc \notin {"commit1", "panicked"} => finalized # {}
  /\ \/ stage = Generating
     \/ stage = Sealed /\ finalized # {} /\ epc \notin {"commit1", "commit2"}
  /\ gpc \in Before => stage = Generating
  /\ gpc \in {"join", "base", "done"} => stage = Sealed
  /\ gpc = "base" => flow = "soldering"
  /\ epc = "inputs" => flow = "vanilla"
  /\ epc \in {"proof", "base"} => flow = "soldering"

Opened == stage = Sealed /\ seeds = Instances \ finalized
Opening ==
  /\ seeds = {} \/ Opened
  /\ epc \in {"check", "inputs", "proof", "base", "done"} => Opened
  /\ epc \in {"commit1", "commit2", "seeds"} => \A i \in Instances : task[i] = "todo"
  /\ \A i \in Instances : task[i] # "todo" => Opened

Streaming ==
  /\ thread \in [Instances -> {"idle", "running", "ended"}]
  /\ sent \in [Instances -> Nat]
  /\ flight \in [Instances -> 0 .. StreamBound]
  /\ file \in [Instances -> Nat]
  /\ \A i \in Instances :
       /\ thread[i] # "idle" => stage = Sealed /\ i \in finalized
       /\ sent[i] = flight[i] + file[i]
       /\ sent[i] <= StreamLength(i)
       /\ thread[i] = "ended" => sent[i] = StreamLength(i) \/ EvaluatorGone

Checked(i) ==
  IF i \in finalized THEN file[i] = Ciphertexts /\ fault[i] \notin {"hash", "stream"}
                     ELSE fault[i] \notin {"hash", "labels", "second"}
Checking ==
  /\ task \in [Instances -> {"todo", "busy", "ok", "err"}]
  /\ regarbled \in BOOLEAN
  /\ \A i \in Instances :
       /\ task[i] = "busy" => epc = "check"
       /\ task[i] = "ok" => Checked(i)
  /\ epc \in {"inputs", "proof", "base", "done"} => regarbled
  /\ regarbled => /\ epc \in {"inputs", "proof", "base"} \cup Ended
                  /\ \A i \in Instances : task[i] = "ok"

Base == Indexes(finalized)[1]
OnlyTrue ==
  \A i \in finalized : fault[i] \notin {"guest", "labels"} /\ (fault[i] = "delta" => i = Base)
Soldered ==
  \/ soldered = [name |-> "Vanilla", deltas |-> <<>>] /\ epc # "base"
  \/ /\ regarbled /\ flow = "soldering"
     /\ soldered = [name |-> "Soldered", deltas |-> TrueDeltas(finalized)]
     /\ OnlyTrue
Evaluated ==
  results # <<>> =>
    /\ regarbled
    /\ \E value \in Values : results = [i \in finalized |-> value]
    /\ \A i \in finalized :
         /\ fault[i] \notin {"labels", "guest"}
         /\ fault[i] = "input" => flow = "soldering" /\ i # Base
         /\ fault[i] = "delta" => i = Base
-----------------------------------------------------------------------------
(* What holds whatever the answers are.                                    *)
Inv == Given /\ Control /\ Queues /\ Opening /\ Streaming /\ Checking

(* What the garbler can receive: its challenge is the set of the sealed    *)
(* instances, once it is chosen.                                           *)
LEMMA HeadToGarbler ==
  ASSUME Queues, e2g # <<>>
  PROVE  /\ Head(e2g) \in ToGarbler
         /\ Tail(e2g) \in Seq(ToGarbler)
         /\ Head(e2g).kind = "FinalizeChallenge" =>
              /\ Head(e2g).body = finalized /\ finalized # {}
              /\ epc \notin {"commit1", "commit2"}
BY HeadTailProperties DEF Queues, ToGarbler

(* What the evaluator can receive, and that the garbler has moved on to    *)
(* the sealed instances before it sends anything but commitments.          *)
LEMMA HeadToEvaluator ==
  ASSUME Queues, g2e # <<>>
  PROVE  /\ Head(g2e) \in ToEvaluator
         /\ Tail(g2e) \in Seq(ToEvaluator)
         /\ Head(g2e).kind \notin {"Commit1", "Commit2"} => stage # Generating
         /\ Head(g2e).kind = "OpenSeeds" => Head(g2e).body = Instances \ finalized
         /\ Head(g2e).kind = "SolderingProof" => Head(g2e).body = do_soldering(finalized)
         /\ Head(g2e).kind = "AllInputs" =>
              \E value \in Values : Head(g2e).body = [i \in finalized |-> input_for(i, value)]
         /\ Head(g2e).kind = "BaseInput" =>
              \E value \in Values : Head(g2e).body = base_case(finalized, value)
BY HeadTailProperties
   DEF Queues, ToEvaluator, Commits, Seeds, InputMessages, ProofMessage, BaseMessages

(* At least one instance stays sealed.                                     *)
LEMMA FinalizeSome ==
  ASSUME NEW S \in SUBSET Instances, Cardinality(S) = Finalize
  PROVE  S # {}
BY CutAssumption, FS_EmptySet

(* Faults and the program that runs are given.                             *)
LEMMA NextGiven ==
  ASSUME Given, [Next]_vars
  PROVE  Given'
BY DEF Given, given, Next, vars, GarblerStep, EvaluatorStep, StreamStep, WorkerStep,
   GarblerCommitsOne, GarblerCommitsTwo, GarblerOpens, GarblerSendsInputs, GarblerSolders,
   GarblerSendsBase, GarblerRecvFails, EvaluatorCreates, EvaluatorChallenges, EvaluatorTakesSeeds,
   CheckEnds, EvaluatorEvaluates, EvaluatorVerifiesSoldering, EvaluatorEvaluatesSoldered,
   EvaluatorRecvFails, StreamCiphertext, StreamEnds, StartTask, DrainOne, EndDrain, Regarble,
   GarblerCrash, EvaluatorCrash

(* Who is where: the evaluator has chosen before the garbler settles, and  *)
(* the garbler settles what was chosen.                                    *)
LEMMA NextControl ==
  ASSUME Inv, [Next]_vars
  PROVE  Control'
<1> USE DEF Inv, Given, Control, given, answers, streams, garbler, check, Before, Ended,
   Generating, Sealed
<1>1. CASE GarblerCommitsOne
  BY <1>1 DEF GarblerCommitsOne, GarblerSends
<1>2. CASE GarblerCommitsTwo
  BY <1>2 DEF GarblerCommitsTwo, GarblerSends
<1>3. CASE GarblerOpens
  BY <1>3, HeadToGarbler DEF GarblerOpens, OpenSeeds, GarblerSends, Next1
<1>4. CASE GarblerSendsInputs
  BY <1>4 DEF GarblerSendsInputs, GarblerSends
<1>5. CASE GarblerSolders
  BY <1>5 DEF GarblerSolders, GarblerSends
<1>6. CASE GarblerSendsBase
  BY <1>6 DEF GarblerSendsBase, GarblerSends
<1>7. CASE GarblerRecvFails
  BY <1>7 DEF GarblerRecvFails
<1>8. CASE EvaluatorCreates
  BY <1>8, FinalizeSome DEF EvaluatorCreates, EvaluatorSends
<1>9. CASE EvaluatorChallenges
  BY <1>9 DEF EvaluatorChallenges, EvaluatorSends
<1>10. CASE EvaluatorTakesSeeds
  BY <1>10, HeadToEvaluator DEF EvaluatorTakesSeeds, Next1
<1>11. CASE CheckEnds
  BY <1>11 DEF CheckEnds, Checking
<1>12. CASE EvaluatorEvaluates
  BY <1>12 DEF EvaluatorEvaluates, evaluate_from, Checking
<1>13. CASE EvaluatorVerifiesSoldering
  BY <1>13 DEF EvaluatorVerifiesSoldering
<1>14. CASE EvaluatorEvaluatesSoldered
  BY <1>14 DEF EvaluatorEvaluatesSoldered, evaluate_from
<1>15. CASE EvaluatorRecvFails
  BY <1>15 DEF EvaluatorRecvFails
<1>16. CASE \E i \in Instances : StreamCiphertext(i)
  BY <1>16 DEF StreamCiphertext
<1>17. CASE \E i \in Instances : StreamEnds(i)
  BY <1>17 DEF StreamEnds
<1>18. CASE \E i \in Instances : StartTask(i)
  BY <1>18 DEF StartTask
<1>19. CASE \E i \in Instances : DrainOne(i)
  BY <1>19 DEF DrainOne
<1>20. CASE \E i \in Instances : EndDrain(i)
  BY <1>20 DEF EndDrain
<1>21. CASE \E i \in Instances : Regarble(i)
  BY <1>21 DEF Regarble
<1>22. CASE GarblerCrash
  BY <1>22 DEF GarblerCrash
<1>23. CASE EvaluatorCrash
  BY <1>23 DEF EvaluatorCrash
<1>24. CASE UNCHANGED vars
  BY <1>24 DEF vars
<1>25. QED
  BY <1>1, <1>2, <1>3, <1>4, <1>5, <1>6, <1>7, <1>8, <1>9, <1>10, <1>11, <1>12, <1>13, <1>14,
     <1>15, <1>16, <1>17, <1>18, <1>19, <1>20, <1>21, <1>22, <1>23, <1>24
     DEF Next, GarblerStep, EvaluatorStep, StreamStep, WorkerStep

(* What is agreed on stays: the choice once it is made, the stage once it  *)
(* is left.                                                                *)
LEMMA Settled ==
  ASSUME Inv, [Next]_vars
  PROVE  /\ fault' = fault /\ flow' = flow
         /\ epc # "commit1" => finalized' = finalized
         /\ epc \notin {"commit1", "commit2"} => epc' \notin {"commit1", "commit2"}
         /\ stage # Generating => stage' = stage /\ stage = Sealed /\ finalized' = finalized
<1> USE DEF Inv, Given, Control, given, answers, streams, garbler, check, Before, Ended,
   Generating, Sealed, Next1
<1>1. CASE GarblerCommitsOne
  BY <1>1 DEF GarblerCommitsOne, GarblerSends
<1>2. CASE GarblerCommitsTwo
  BY <1>2 DEF GarblerCommitsTwo, GarblerSends
<1>3. CASE GarblerOpens
  BY <1>3 DEF GarblerOpens, OpenSeeds, GarblerSends
<1>4. CASE GarblerSendsInputs
  BY <1>4 DEF GarblerSendsInputs, GarblerSends
<1>5. CASE GarblerSolders
  BY <1>5 DEF GarblerSolders, GarblerSends
<1>6. CASE GarblerSendsBase
  BY <1>6 DEF GarblerSendsBase, GarblerSends
<1>7. CASE GarblerRecvFails
  BY <1>7 DEF GarblerRecvFails
<1>8. CASE EvaluatorCreates
  BY <1>8 DEF EvaluatorCreates, EvaluatorSends
<1>9. CASE EvaluatorChallenges
  BY <1>9 DEF EvaluatorChallenges, EvaluatorSends
<1>10. CASE EvaluatorTakesSeeds
  BY <1>10 DEF EvaluatorTakesSeeds
<1>11. CASE CheckEnds
  BY <1>11 DEF CheckEnds
<1>12. CASE EvaluatorEvaluates
  BY <1>12 DEF EvaluatorEvaluates, evaluate_from, Checking
<1>13. CASE EvaluatorVerifiesSoldering
  BY <1>13 DEF EvaluatorVerifiesSoldering
<1>14. CASE EvaluatorEvaluatesSoldered
  BY <1>14 DEF EvaluatorEvaluatesSoldered, evaluate_from
<1>15. CASE EvaluatorRecvFails
  BY <1>15 DEF EvaluatorRecvFails
<1>16. CASE \E i \in Instances : StreamCiphertext(i)
  BY <1>16 DEF StreamCiphertext
<1>17. CASE \E i \in Instances : StreamEnds(i)
  BY <1>17 DEF StreamEnds
<1>18. CASE \E i \in Instances : StartTask(i)
  BY <1>18 DEF StartTask
<1>19. CASE \E i \in Instances : DrainOne(i)
  BY <1>19 DEF DrainOne
<1>20. CASE \E i \in Instances : EndDrain(i)
  BY <1>20 DEF EndDrain
<1>21. CASE \E i \in Instances : Regarble(i)
  BY <1>21 DEF Regarble
<1>22. CASE GarblerCrash
  BY <1>22 DEF GarblerCrash
<1>23. CASE EvaluatorCrash
  BY <1>23 DEF EvaluatorCrash
<1>24. CASE UNCHANGED vars
  BY <1>24 DEF vars
<1>25. QED
  BY <1>1, <1>2, <1>3, <1>4, <1>5, <1>6, <1>7, <1>8, <1>9, <1>10, <1>11, <1>12, <1>13, <1>14,
     <1>15, <1>16, <1>17, <1>18, <1>19, <1>20, <1>21, <1>22, <1>23, <1>24
     DEF Next, GarblerStep, EvaluatorStep, StreamStep, WorkerStep

(* No step takes back what may be on the way to the evaluator.             *)
LEMMA ToEvaluatorGrows ==
  ASSUME Inv, [Next]_vars
  PROVE  ToEvaluator \subseteq ToEvaluator'
<1>1. CASE stage = Generating
  BY <1>1 DEF ToEvaluator, Commits
<1>2. CASE stage # Generating
  <2>1. fault' = fault /\ flow' = flow /\ stage' = stage /\ finalized' = finalized
    BY <1>2, Settled
  <2>2. InputMessages' = InputMessages
    BY <2>1 DEF InputMessages, input_for, CrossedIf
  <2>3. ProofMessage' = ProofMessage
    BY <2>1 DEF ProofMessage, do_soldering, CrossedIf
  <2>4. BaseMessages' = BaseMessages
    BY <2>1 DEF BaseMessages, base_case, input_for, CrossedIf
  <2> QED
    BY <2>1, <2>2, <2>3, <2>4 DEF ToEvaluator, Seeds, Commits, Generating
<1> QED
  BY <1>1, <1>2

(* No step takes back what may be on the way to the garbler.               *)
LEMMA ToGarblerGrows ==
  ASSUME Inv, [Next]_vars
  PROVE  ToGarbler \subseteq ToGarbler'
BY Settled DEF ToGarbler

(* A message sent is one that may be sent, and a message taken leaves the  *)
(* others as they are.                                                     *)
LEMMA QueueGrows ==
  ASSUME NEW S, NEW T, S \subseteq T, NEW q \in Seq(S)
  PROVE  /\ q \in Seq(T)
         /\ \A m \in T : Append(q, m) \in Seq(T)
         /\ q # <<>> => Tail(q) \in Seq(T)
<1>1. q \in Seq(T)
  BY SeqMonotonic
<1>2. \A m \in T : Append(q, m) \in Seq(T)
  BY <1>1, AppendProperties
<1>3. q # <<>> => Tail(q) \in Seq(T)
  BY <1>1, HeadTailProperties
<1> QED
  BY <1>1, <1>2, <1>3

(* Nothing else is ever on the way.                                        *)
LEMMA NextQueues ==
  ASSUME Inv, [Next]_vars
  PROVE  Queues'
<1>1. /\ g2e \in Seq(ToEvaluator') /\ \A m \in ToEvaluator' : Append(g2e, m) \in Seq(ToEvaluator')
      /\ g2e # <<>> => Tail(g2e) \in Seq(ToEvaluator')
  BY ToEvaluatorGrows, QueueGrows DEF Inv, Queues
<1>2. /\ e2g \in Seq(ToGarbler') /\ \A m \in ToGarbler' : Append(e2g, m) \in Seq(ToGarbler')
      /\ e2g # <<>> => Tail(e2g) \in Seq(ToGarbler')
  BY ToGarblerGrows, QueueGrows DEF Inv, Queues
<1>3. Commits \subseteq ToEvaluator'
  BY DEF ToEvaluator, Commits
<1>4. Control /\ Control' /\ fault' = fault /\ flow' = flow
  BY NextControl, Settled DEF Inv
<1> USE <1>1, <1>2 DEF Queues, given, Next1
<1>5. CASE GarblerCommitsOne
  <2>1. [kind |-> "Commit1", body |-> {}] \in ToEvaluator'
    BY <1>3 DEF Commits
  <2> QED
    BY <1>5, <2>1 DEF GarblerCommitsOne, GarblerSends
<1>6. CASE GarblerCommitsTwo
  <2>1. [kind |-> "Commit2", body |-> {}] \in ToEvaluator'
    BY <1>3 DEF Commits
  <2> QED
    BY <1>6, <2>1 DEF GarblerCommitsTwo, GarblerSends
<1>7. CASE GarblerOpens
  <2>1. Head(e2g).body = finalized
    BY <1>7, HeadToGarbler DEF GarblerOpens, Inv
  <2>2. stage' = Sealed' /\ finalized' = finalized
    BY <1>7, <2>1 DEF GarblerOpens, Sealed
  <2>3. [kind |-> "OpenSeeds", body |-> Instances \ finalized] \in ToEvaluator'
    BY <2>2 DEF ToEvaluator, Seeds, Sealed, Generating
  <2> QED
    BY <1>7, <2>1, <2>3 DEF GarblerOpens, OpenSeeds, GarblerSends
<1>8. CASE GarblerSendsInputs
  <2>1. stage = Sealed /\ stage' = stage /\ finalized' = finalized
    BY <1>8, <1>4 DEF GarblerSendsInputs, garbler, Control
  <2>2. stage' # Generating /\ flow' = "vanilla"
    BY <1>8, <2>1, <1>4 DEF Sealed, Generating, GarblerSendsInputs
  <2>3. \A value \in Values :
          [kind |-> "AllInputs", body |-> [i \in finalized |-> input_for(i, value)]] \in InputMessages
    BY DEF InputMessages
  <2>4. InputMessages' = InputMessages
    BY <1>4, <2>1 DEF InputMessages, input_for, CrossedIf
  <2>5. \A value \in Values :
          [kind |-> "AllInputs", body |-> [i \in stage.finalized |-> input_for(i, value)]]
            \in ToEvaluator'
    BY <2>1, <2>2, <2>3, <2>4 DEF ToEvaluator, Sealed
  <2> QED
    BY <1>8, <2>5 DEF GarblerSendsInputs, GarblerSends
<1>9. CASE GarblerSolders
  <2>1. stage = Sealed /\ stage' = stage /\ finalized' = finalized
    BY <1>9, <1>4 DEF GarblerSolders, garbler, Control
  <2>2. stage' # Generating /\ flow' # "vanilla"
    BY <1>9, <2>1, <1>4 DEF Sealed, Generating, GarblerSolders
  <2>3. ProofMessage' = ProofMessage
    BY <1>4, <2>1 DEF ProofMessage, do_soldering, CrossedIf
  <2>4. [kind |-> "SolderingProof", body |-> do_soldering(stage.finalized)] = ProofMessage
    BY <2>1 DEF ProofMessage, Sealed
  <2>5. [kind |-> "SolderingProof", body |-> do_soldering(stage.finalized)] \in ToEvaluator'
    BY <2>2, <2>3, <2>4 DEF ToEvaluator
  <2> QED
    BY <1>9, <2>5 DEF GarblerSolders, GarblerSends
<1>10. CASE GarblerSendsBase
  <2>1. stage = Sealed /\ stage' = stage /\ finalized' = finalized
    BY <1>10, <1>4 DEF GarblerSendsBase, garbler, Control
  <2>2. stage' # Generating /\ flow' # "vanilla"
    BY <1>10, <2>1, <1>4 DEF Sealed, Generating, GarblerSendsBase, Control
  <2>3. BaseMessages' = BaseMessages
    BY <1>4, <2>1 DEF BaseMessages, base_case, input_for, CrossedIf
  <2>4. \A value \in Values :
          [kind |-> "BaseInput", body |-> base_case(stage.finalized, value)] \in BaseMessages
    BY <2>1 DEF BaseMessages, Sealed
  <2>5. \A value \in Values :
          [kind |-> "BaseInput", body |-> base_case(stage.finalized, value)] \in ToEvaluator'
    BY <2>2, <2>3, <2>4 DEF ToEvaluator
  <2> QED
    BY <1>10, <2>5 DEF GarblerSendsBase, GarblerSends
<1>11. CASE GarblerRecvFails
  BY <1>11 DEF GarblerRecvFails
<1>12. CASE EvaluatorCreates
  <2>1. [kind |-> "Commit2Nonce", body |-> {}] \in ToGarbler'
    BY DEF ToGarbler
  <2> QED
    BY <1>12, <2>1 DEF EvaluatorCreates, EvaluatorSends
<1>13. CASE EvaluatorChallenges
  <2>1. CASE GarblerGone
    BY <1>13, <2>1 DEF EvaluatorChallenges, EvaluatorSends
  <2>2. CASE ~GarblerGone
    <3>1. finalized # {} /\ finalized' = finalized /\ epc' = "seeds"
      BY <1>13, <2>2, <1>4 DEF EvaluatorChallenges, EvaluatorSends, Control
    <3>2. [kind |-> "FinalizeChallenge", body |-> finalized] \in ToGarbler'
      BY <3>1 DEF ToGarbler
    <3> QED
      BY <1>13, <2>2, <3>2 DEF EvaluatorChallenges, EvaluatorSends
  <2> QED
    BY <2>1, <2>2
<1>14. CASE EvaluatorTakesSeeds
  BY <1>14 DEF EvaluatorTakesSeeds
<1>15. CASE CheckEnds
  BY <1>15 DEF CheckEnds
<1>16. CASE EvaluatorEvaluates
  BY <1>16 DEF EvaluatorEvaluates, evaluate_from
<1>17. CASE EvaluatorVerifiesSoldering
  BY <1>17 DEF EvaluatorVerifiesSoldering
<1>18. CASE EvaluatorEvaluatesSoldered
  BY <1>18 DEF EvaluatorEvaluatesSoldered, evaluate_from
<1>19. CASE EvaluatorRecvFails
  BY <1>19 DEF EvaluatorRecvFails
<1>20. CASE \E i \in Instances : StreamCiphertext(i)
  BY <1>20 DEF StreamCiphertext
<1>21. CASE \E i \in Instances : StreamEnds(i)
  BY <1>21 DEF StreamEnds
<1>22. CASE \E i \in Instances : StartTask(i)
  BY <1>22 DEF StartTask
<1>23. CASE \E i \in Instances : DrainOne(i)
  BY <1>23 DEF DrainOne
<1>24. CASE \E i \in Instances : EndDrain(i)
  BY <1>24 DEF EndDrain
<1>25. CASE \E i \in Instances : Regarble(i)
  BY <1>25 DEF Regarble
<1>26. CASE GarblerCrash
  BY <1>26 DEF GarblerCrash
<1>27. CASE EvaluatorCrash
  BY <1>27 DEF EvaluatorCrash
<1>28. CASE UNCHANGED vars
  BY <1>28 DEF vars
<1>29. QED
  BY <1>5, <1>6, <1>7, <1>8, <1>9, <1>10, <1>11, <1>12, <1>13, <1>14, <1>15, <1>16, <1>17,
     <1>18, <1>19, <1>20, <1>21, <1>22, <1>23, <1>24, <1>25, <1>26, <1>27, <1>28
     DEF Next, GarblerStep, EvaluatorStep, StreamStep, WorkerStep

(* What is settled stays: once the indexes are agreed they do not change.  *)
LEMMA Stays ==
  ASSUME Inv, [Next]_vars
  PROVE  /\ stage = Sealed => stage' = Sealed' /\ finalized' = finalized
         /\ Opened /\ seeds' = seeds => Opened'
BY Settled DEF Opened, Sealed, Generating

(* Seeds are those of the opened instances, and nothing is checked before  *)
(* they are there.                                                         *)
LEMMA NextOpening ==
  ASSUME Inv, [Next]_vars
  PROVE  Opening'
<1>1. Control /\ Control' /\ Opening /\ (Opened /\ seeds' = seeds => Opened')
  BY NextControl, Stays DEF Inv
<1> USE <1>1 DEF Opening, given, answers, streams, garbler, check, Ended
<1>2. CASE GarblerCommitsOne
  BY <1>2 DEF GarblerCommitsOne, GarblerSends
<1>3. CASE GarblerCommitsTwo
  BY <1>3 DEF GarblerCommitsTwo, GarblerSends
<1>4. CASE GarblerOpens
  BY <1>4 DEF GarblerOpens, OpenSeeds, GarblerSends
<1>5. CASE GarblerSendsInputs
  BY <1>5 DEF GarblerSendsInputs, GarblerSends
<1>6. CASE GarblerSolders
  BY <1>6 DEF GarblerSolders, GarblerSends
<1>7. CASE GarblerSendsBase
  BY <1>7 DEF GarblerSendsBase, GarblerSends
<1>8. CASE GarblerRecvFails
  BY <1>8 DEF GarblerRecvFails
<1>9. CASE EvaluatorCreates
  BY <1>9 DEF EvaluatorCreates, EvaluatorSends
<1>10. CASE EvaluatorChallenges
  BY <1>10 DEF EvaluatorChallenges, EvaluatorSends
<1>11. CASE EvaluatorTakesSeeds
  <2>1. stage = Sealed /\ Head(g2e).body = Instances \ finalized
    BY <1>11, HeadToEvaluator DEF EvaluatorTakesSeeds, Next1, Inv, Control
  <2>2. Opened'
    BY <1>11, <2>1 DEF EvaluatorTakesSeeds, Opened, Sealed, garbler
  <2> QED
    BY <1>11, <2>2 DEF EvaluatorTakesSeeds
<1>12. CASE CheckEnds
  BY <1>12 DEF CheckEnds, Checking, Inv
<1>13. CASE EvaluatorEvaluates
  BY <1>13 DEF EvaluatorEvaluates, evaluate_from, Checking, Inv
<1>14. CASE EvaluatorVerifiesSoldering
  BY <1>14 DEF EvaluatorVerifiesSoldering, Checking, Inv
<1>15. CASE EvaluatorEvaluatesSoldered
  BY <1>15 DEF EvaluatorEvaluatesSoldered, evaluate_from, Checking, Inv
<1>16. CASE EvaluatorRecvFails
  BY <1>16 DEF EvaluatorRecvFails
<1>17. CASE \E i \in Instances : StreamCiphertext(i)
  BY <1>17 DEF StreamCiphertext
<1>18. CASE \E i \in Instances : StreamEnds(i)
  BY <1>18 DEF StreamEnds
<1>19. CASE \E i \in Instances : StartTask(i)
  BY <1>19 DEF StartTask
<1>20. CASE \E i \in Instances : DrainOne(i)
  BY <1>20 DEF DrainOne
<1>21. CASE \E i \in Instances : EndDrain(i)
  BY <1>21 DEF EndDrain
<1>22. CASE \E i \in Instances : Regarble(i)
  BY <1>22 DEF Regarble
<1>23. CASE GarblerCrash
  BY <1>23 DEF GarblerCrash
<1>24. CASE EvaluatorCrash
  BY <1>24 DEF EvaluatorCrash
<1>25. CASE UNCHANGED vars
  BY <1>25 DEF vars
<1>26. QED
  BY <1>2, <1>3, <1>4, <1>5, <1>6, <1>7, <1>8, <1>9, <1>10, <1>11, <1>12, <1>13, <1>14, <1>15,
     <1>16, <1>17, <1>18, <1>19, <1>20, <1>21, <1>22, <1>23, <1>24, <1>25
     DEF Next, GarblerStep, EvaluatorStep, StreamStep, WorkerStep

(* A stream is never longer than it should be, and that of a thread that   *)
(* panics is shorter.                                                      *)
LEMMA StreamBounds ==
  ASSUME Inv, NEW i \in Instances
  PROVE  /\ StreamLength(i) \in 0 .. Ciphertexts
         /\ fault[i] = "stream" => StreamLength(i) < Ciphertexts
         /\ sent[i] \in 0 .. Ciphertexts /\ file[i] \in 0 .. Ciphertexts
BY CutAssumption DEF Inv, Streaming, StreamLength

(* An evaluator that has returned or panicked does nothing any more.       *)
LEMMA EvaluatorStaysGone ==
  ASSUME Inv, EvaluatorGone, [Next]_vars
  PROVE  epc' = epc /\ EvaluatorGone'
<1> USE DEF EvaluatorGone, Ended, given, answers, streams, garbler, check
<1>1. CASE GarblerCommitsOne
  BY <1>1 DEF GarblerCommitsOne, GarblerSends
<1>2. CASE GarblerCommitsTwo
  BY <1>2 DEF GarblerCommitsTwo, GarblerSends
<1>3. CASE GarblerOpens
  BY <1>3 DEF GarblerOpens, OpenSeeds, GarblerSends
<1>4. CASE GarblerSendsInputs
  BY <1>4 DEF GarblerSendsInputs, GarblerSends
<1>5. CASE GarblerSolders
  BY <1>5 DEF GarblerSolders, GarblerSends
<1>6. CASE GarblerSendsBase
  BY <1>6 DEF GarblerSendsBase, GarblerSends
<1>7. CASE GarblerRecvFails
  BY <1>7 DEF GarblerRecvFails
<1>8. CASE EvaluatorCreates
  BY <1>8 DEF EvaluatorCreates, EvaluatorSends
<1>9. CASE EvaluatorChallenges
  BY <1>9 DEF EvaluatorChallenges, EvaluatorSends
<1>10. CASE EvaluatorTakesSeeds
  BY <1>10 DEF EvaluatorTakesSeeds
<1>11. CASE CheckEnds
  BY <1>11 DEF CheckEnds
<1>12. CASE EvaluatorEvaluates
  BY <1>12 DEF EvaluatorEvaluates, evaluate_from
<1>13. CASE EvaluatorVerifiesSoldering
  BY <1>13 DEF EvaluatorVerifiesSoldering
<1>14. CASE EvaluatorEvaluatesSoldered
  BY <1>14 DEF EvaluatorEvaluatesSoldered, evaluate_from
<1>15. CASE EvaluatorRecvFails
  BY <1>15 DEF EvaluatorRecvFails
<1>16. CASE \E i \in Instances : StreamCiphertext(i)
  BY <1>16 DEF StreamCiphertext
<1>17. CASE \E i \in Instances : StreamEnds(i)
  BY <1>17 DEF StreamEnds
<1>18. CASE \E i \in Instances : StartTask(i)
  BY <1>18 DEF StartTask
<1>19. CASE \E i \in Instances : DrainOne(i)
  BY <1>19 DEF DrainOne
<1>20. CASE \E i \in Instances : EndDrain(i)
  BY <1>20 DEF EndDrain
<1>21. CASE \E i \in Instances : Regarble(i)
  BY <1>21 DEF Regarble
<1>22. CASE GarblerCrash
  BY <1>22 DEF GarblerCrash
<1>23. CASE EvaluatorCrash
  BY <1>23 DEF EvaluatorCrash
<1>24. CASE UNCHANGED vars
  BY <1>24 DEF vars
<1>25. QED
  BY <1>1, <1>2, <1>3, <1>4, <1>5, <1>6, <1>7, <1>8, <1>9, <1>10, <1>11, <1>12, <1>13, <1>14,
     <1>15, <1>16, <1>17, <1>18, <1>19, <1>20, <1>21, <1>22, <1>23, <1>24
     DEF Next, GarblerStep, EvaluatorStep, StreamStep, WorkerStep

(* Every ciphertext sent is in the channel or in the file, and a thread    *)
(* ends only with its stream complete or its receiver gone.                *)
LEMMA NextStreaming ==
  ASSUME Inv, [Next]_vars
  PROVE  Streaming'
<1>1. /\ Streaming /\ (stage = Sealed => stage' = Sealed' /\ finalized' = finalized)
      /\ \A i \in Instances : StreamLength(i)' = StreamLength(i) /\ StreamLength(i) \in Nat
      /\ EvaluatorGone => EvaluatorGone'
  BY Stays, Settled, StreamBounds, EvaluatorStaysGone DEF Inv, StreamLength
<1> USE <1>1 DEF Streaming, given, answers, streams, garbler, check
<1>2. CASE GarblerCommitsOne
  BY <1>2 DEF GarblerCommitsOne, GarblerSends
<1>3. CASE GarblerCommitsTwo
  BY <1>3 DEF GarblerCommitsTwo, GarblerSends
<1>4. CASE GarblerOpens
  <2>1. Head(e2g).body = finalized
    BY <1>4, HeadToGarbler DEF GarblerOpens, Inv, Next1
  <2>2. stage' = Sealed' /\ finalized' = finalized
    BY <1>4, <2>1 DEF GarblerOpens, Sealed
  <2> QED
    BY <1>4, <2>1, <2>2 DEF GarblerOpens
<1>5. CASE GarblerSendsInputs
  BY <1>5 DEF GarblerSendsInputs, GarblerSends
<1>6. CASE GarblerSolders
  BY <1>6 DEF GarblerSolders, GarblerSends
<1>7. CASE GarblerSendsBase
  BY <1>7 DEF GarblerSendsBase, GarblerSends
<1>8. CASE GarblerRecvFails
  BY <1>8 DEF GarblerRecvFails
<1>9. CASE EvaluatorCreates
  BY <1>9 DEF EvaluatorCreates, EvaluatorSends
<1>10. CASE EvaluatorChallenges
  BY <1>10 DEF EvaluatorChallenges, EvaluatorSends
<1>11. CASE EvaluatorTakesSeeds
  BY <1>11 DEF EvaluatorTakesSeeds
<1>12. CASE CheckEnds
  BY <1>12 DEF CheckEnds
<1>13. CASE EvaluatorEvaluates
  BY <1>13 DEF EvaluatorEvaluates, evaluate_from
<1>14. CASE EvaluatorVerifiesSoldering
  BY <1>14 DEF EvaluatorVerifiesSoldering
<1>15. CASE EvaluatorEvaluatesSoldered
  BY <1>15 DEF EvaluatorEvaluatesSoldered, evaluate_from
<1>16. CASE EvaluatorRecvFails
  BY <1>16 DEF EvaluatorRecvFails
<1>17. CASE \E i \in Instances : StreamCiphertext(i)
  <2>1. PICK i \in Instances : StreamCiphertext(i)
    BY <1>17
  <2>2. sent[i] \in Nat /\ flight[i] \in 0 .. StreamBound /\ file[i] \in Nat /\ StreamBound \in Nat
    BY CutAssumption
  <2>3. /\ sent' = [sent EXCEPT ![i] = sent[i] + 1] /\ flight' = [flight EXCEPT ![i] = flight[i] + 1]
        /\ file' = file /\ thread' = thread /\ stage' = stage /\ thread[i] = "running"
        /\ sent[i] < StreamLength(i) /\ flight[i] < StreamBound
    BY <2>1 DEF StreamCiphertext
  <2>4. sent' \in [Instances -> Nat] /\ flight' \in [Instances -> 0 .. StreamBound]
    BY <2>2, <2>3
  <2>5. \A j \in Instances : sent'[j] = flight'[j] + file'[j] /\ sent'[j] <= StreamLength(j)
    BY <2>2, <2>3
  <2> QED
    BY <1>1, <2>3, <2>4, <2>5
<1>18. CASE \E i \in Instances : StreamEnds(i)
  BY <1>18 DEF StreamEnds
<1>19. CASE \E i \in Instances : StartTask(i)
  BY <1>19 DEF StartTask
<1>20. CASE \E i \in Instances : DrainOne(i)
  <2>1. PICK i \in Instances : DrainOne(i)
    BY <1>20
  <2>2. flight[i] \in 0 .. StreamBound /\ file[i] \in Nat /\ StreamBound \in Nat
    BY CutAssumption
  <2>3. /\ flight' = [flight EXCEPT ![i] = flight[i] - 1] /\ file' = [file EXCEPT ![i] = file[i] + 1]
        /\ sent' = sent /\ thread' = thread /\ stage' = stage /\ flight[i] > 0
    BY <2>1 DEF DrainOne
  <2>4. file' \in [Instances -> Nat] /\ flight' \in [Instances -> 0 .. StreamBound]
    BY <2>2, <2>3
  <2>5. \A j \in Instances : sent'[j] = flight'[j] + file'[j]
    BY <2>2, <2>3
  <2> QED
    BY <1>1, <2>3, <2>4, <2>5
<1>21. CASE \E i \in Instances : EndDrain(i)
  BY <1>21 DEF EndDrain
<1>22. CASE \E i \in Instances : Regarble(i)
  BY <1>22 DEF Regarble
<1>23. CASE GarblerCrash
  BY <1>23 DEF GarblerCrash
<1>24. CASE EvaluatorCrash
  BY <1>24 DEF EvaluatorCrash
<1>25. CASE UNCHANGED vars
  BY <1>25 DEF vars
<1>26. QED
  BY <1>2, <1>3, <1>4, <1>5, <1>6, <1>7, <1>8, <1>9, <1>10, <1>11, <1>12, <1>13, <1>14, <1>15,
     <1>16, <1>17, <1>18, <1>19, <1>20, <1>21, <1>22, <1>23, <1>24, <1>25
     DEF Next, GarblerStep, EvaluatorStep, StreamStep, WorkerStep

(* The check of an instance is "ok" only for what is right about it, and   *)
(* `regarbled` is set only when every check is.                            *)
LEMMA NextChecking ==
  ASSUME Inv, [Next]_vars
  PROVE  Checking'
<1>1. /\ Control /\ Opening /\ Checking
      /\ \A i \in Instances : task[i] # "todo" => finalized' = finalized
      /\ fault' = fault /\ flow' = flow
  BY Settled DEF Inv, Opening, Control
<1> USE <1>1 DEF Checking, Checked, given, answers, streams, garbler, check, Ended
<1>2. CASE GarblerCommitsOne
  BY <1>2 DEF GarblerCommitsOne, GarblerSends
<1>3. CASE GarblerCommitsTwo
  BY <1>3 DEF GarblerCommitsTwo, GarblerSends
<1>4. CASE GarblerOpens
  BY <1>4 DEF GarblerOpens, OpenSeeds, GarblerSends
<1>5. CASE GarblerSendsInputs
  BY <1>5 DEF GarblerSendsInputs, GarblerSends
<1>6. CASE GarblerSolders
  BY <1>6 DEF GarblerSolders, GarblerSends
<1>7. CASE GarblerSendsBase
  BY <1>7 DEF GarblerSendsBase, GarblerSends
<1>8. CASE GarblerRecvFails
  BY <1>8 DEF GarblerRecvFails
<1>9. CASE EvaluatorCreates
  BY <1>9 DEF EvaluatorCreates, EvaluatorSends
<1>10. CASE EvaluatorChallenges
  BY <1>10 DEF EvaluatorChallenges, EvaluatorSends
<1>11. CASE EvaluatorTakesSeeds
  BY <1>11 DEF EvaluatorTakesSeeds
<1>12. CASE CheckEnds
  <2>1. \A i \in Instances : task[i] # "busy"
    BY <1>12 DEF CheckEnds, Busy
  <2> QED
    <3>1. CASE regarbled' = TRUE /\ \A i \in Instances : task[i] = "ok"
      BY <1>12, <2>1, <3>1 DEF CheckEnds
    <3>2. CASE epc' = "panicked" /\ UNCHANGED regarbled
      BY <1>12, <2>1, <3>2 DEF CheckEnds
    <3> QED
      BY <1>12, <3>1, <3>2 DEF CheckEnds
<1>13. CASE EvaluatorEvaluates
  BY <1>13 DEF EvaluatorEvaluates, evaluate_from
<1>14. CASE EvaluatorVerifiesSoldering
  BY <1>14 DEF EvaluatorVerifiesSoldering
<1>15. CASE EvaluatorEvaluatesSoldered
  BY <1>15 DEF EvaluatorEvaluatesSoldered, evaluate_from
<1>16. CASE EvaluatorRecvFails
  BY <1>16 DEF EvaluatorRecvFails
<1>17. CASE \E i \in Instances : StreamCiphertext(i)
  BY <1>17 DEF StreamCiphertext
<1>18. CASE \E i \in Instances : StreamEnds(i)
  BY <1>18 DEF StreamEnds
<1>19. CASE \E i \in Instances : StartTask(i)
  BY <1>19 DEF StartTask
<1>20. CASE \E i \in Instances : DrainOne(i)
  BY <1>20 DEF DrainOne, Inv, Streaming
<1>21. CASE \E i \in Instances : EndDrain(i)
  <2>1. \A i \in Instances : file[i] = Ciphertexts => fault[i] # "stream"
    BY StreamBounds DEF Inv, Streaming, StreamLength
  <2> QED
    BY <1>21, <2>1 DEF EndDrain, StreamMatches
<1>22. CASE \E i \in Instances : Regarble(i)
  BY <1>22 DEF Regarble, RegarblesToCommits
<1>23. CASE GarblerCrash
  BY <1>23 DEF GarblerCrash
<1>24. CASE EvaluatorCrash
  BY <1>24 DEF EvaluatorCrash, Busy, EvaluatorGone
<1>25. CASE UNCHANGED vars
  BY <1>25 DEF vars
<1>26. QED
  BY <1>2, <1>3, <1>4, <1>5, <1>6, <1>7, <1>8, <1>9, <1>10, <1>11, <1>12, <1>13, <1>14, <1>15,
     <1>16, <1>17, <1>18, <1>19, <1>20, <1>21, <1>22, <1>23, <1>24, <1>25
     DEF Next, GarblerStep, EvaluatorStep, StreamStep, WorkerStep

(* `regarbled` is never reset.                                             *)
LEMMA RegarbledStays ==
  ASSUME Inv, regarbled, [Next]_vars
  PROVE  regarbled'
<1> USE DEF given, answers, streams, garbler, check
<1>1. CASE GarblerCommitsOne
  BY <1>1 DEF GarblerCommitsOne, GarblerSends
<1>2. CASE GarblerCommitsTwo
  BY <1>2 DEF GarblerCommitsTwo, GarblerSends
<1>3. CASE GarblerOpens
  BY <1>3 DEF GarblerOpens, OpenSeeds, GarblerSends
<1>4. CASE GarblerSendsInputs
  BY <1>4 DEF GarblerSendsInputs, GarblerSends
<1>5. CASE GarblerSolders
  BY <1>5 DEF GarblerSolders, GarblerSends
<1>6. CASE GarblerSendsBase
  BY <1>6 DEF GarblerSendsBase, GarblerSends
<1>7. CASE GarblerRecvFails
  BY <1>7 DEF GarblerRecvFails
<1>8. CASE EvaluatorCreates
  BY <1>8 DEF EvaluatorCreates, EvaluatorSends
<1>9. CASE EvaluatorChallenges
  BY <1>9 DEF EvaluatorChallenges, EvaluatorSends
<1>10. CASE EvaluatorTakesSeeds
  BY <1>10 DEF EvaluatorTakesSeeds
<1>11. CASE CheckEnds
  BY <1>11 DEF CheckEnds
<1>12. CASE EvaluatorEvaluates
  BY <1>12 DEF EvaluatorEvaluates, evaluate_from
<1>13. CASE EvaluatorVerifiesSoldering
  BY <1>13 DEF EvaluatorVerifiesSoldering
<1>14. CASE EvaluatorEvaluatesSoldered
  BY <1>14 DEF EvaluatorEvaluatesSoldered, evaluate_from
<1>15. CASE EvaluatorRecvFails
  BY <1>15 DEF EvaluatorRecvFails
<1>16. CASE \E i \in Instances : StreamCiphertext(i)
  BY <1>16 DEF StreamCiphertext
<1>17. CASE \E i \in Instances : StreamEnds(i)
  BY <1>17 DEF StreamEnds
<1>18. CASE \E i \in Instances : StartTask(i)
  BY <1>18 DEF StartTask
<1>19. CASE \E i \in Instances : DrainOne(i)
  BY <1>19 DEF DrainOne
<1>20. CASE \E i \in Instances : EndDrain(i)
  BY <1>20 DEF EndDrain
<1>21. CASE \E i \in Instances : Regarble(i)
  BY <1>21 DEF Regarble
<1>22. CASE GarblerCrash
  BY <1>22 DEF GarblerCrash
<1>23. CASE EvaluatorCrash
  BY <1>23 DEF EvaluatorCrash
<1>24. CASE UNCHANGED vars
  BY <1>24 DEF vars
<1>25. QED
  BY <1>1, <1>2, <1>3, <1>4, <1>5, <1>6, <1>7, <1>8, <1>9, <1>10, <1>11, <1>12, <1>13, <1>14,
     <1>15, <1>16, <1>17, <1>18, <1>19, <1>20, <1>21, <1>22, <1>23, <1>24
     DEF Next, GarblerStep, EvaluatorStep, StreamStep, WorkerStep

(* The deltas kept are the true ones, and come from instances whose labels *)
(* are those proven and committed to.                                      *)
LEMMA NextSoldered ==
  ASSUME Inv, Soldered, [Next]_vars
  PROVE  Soldered'
<1>1. /\ Soldered /\ Inv
      /\ (regarbled => regarbled' /\ finalized' = finalized) /\ fault' = fault /\ flow' = flow
  <2>1. regarbled => epc # "commit1"
    BY DEF Inv, Checking, Ended
  <2>2. regarbled => regarbled'
    BY RegarbledStays
  <2> QED
    BY <2>1, <2>2, Settled
<1> USE <1>1 DEF Soldered, OnlyTrue, Base, given, answers, streams, garbler, check
<1>2. CASE GarblerCommitsOne
  BY <1>2 DEF GarblerCommitsOne, GarblerSends
<1>3. CASE GarblerCommitsTwo
  BY <1>3 DEF GarblerCommitsTwo, GarblerSends
<1>4. CASE GarblerOpens
  BY <1>4 DEF GarblerOpens, OpenSeeds, GarblerSends
<1>5. CASE GarblerSendsInputs
  BY <1>5 DEF GarblerSendsInputs, GarblerSends
<1>6. CASE GarblerSolders
  BY <1>6 DEF GarblerSolders, GarblerSends
<1>7. CASE GarblerSendsBase
  BY <1>7 DEF GarblerSendsBase, GarblerSends
<1>8. CASE GarblerRecvFails
  BY <1>8 DEF GarblerRecvFails
<1>9. CASE EvaluatorCreates
  BY <1>9 DEF EvaluatorCreates, EvaluatorSends
<1>10. CASE EvaluatorChallenges
  BY <1>10 DEF EvaluatorChallenges, EvaluatorSends
<1>11. CASE EvaluatorTakesSeeds
  BY <1>11 DEF EvaluatorTakesSeeds
<1>12. CASE CheckEnds
  BY <1>12 DEF CheckEnds
<1>13. CASE EvaluatorEvaluates
  BY <1>13 DEF EvaluatorEvaluates, evaluate_from
<1>14. CASE EvaluatorVerifiesSoldering
  <2>1. /\ epc = "proof" /\ regarbled /\ flow = "soldering"
        /\ finalized \in SUBSET Instances /\ finalized # {}
    BY <1>14 DEF EvaluatorVerifiesSoldering, Inv, Checking, Control
  <2>2. Head(g2e).body = do_soldering(finalized)
    BY <1>14, HeadToEvaluator DEF EvaluatorVerifiesSoldering, Next1, Inv
  <2>3. CASE Accepted(finalized)
    <3>1. soldered' = [name |-> "Soldered", deltas |-> do_soldering(finalized).deltas]
      BY <1>14, <2>2, <2>3 DEF EvaluatorVerifiesSoldering, Accepted
    <3>2. OnlyTrue /\ do_soldering(finalized).deltas = TrueDeltas(finalized)
      BY <2>1, <2>3, AcceptedOnlyTrue
    <3> QED
      BY <2>1, <3>1, <3>2
  <2>4. CASE ~Accepted(finalized)
    <3>1. epc' = "panicked" /\ soldered' = soldered
      BY <1>14, <2>2, <2>4 DEF EvaluatorVerifiesSoldering, Accepted
    <3> QED
      BY <3>1
  <2> QED
    BY <2>3, <2>4
<1>15. CASE EvaluatorEvaluatesSoldered
  BY <1>15 DEF EvaluatorEvaluatesSoldered, evaluate_from
<1>16. CASE EvaluatorRecvFails
  BY <1>16 DEF EvaluatorRecvFails
<1>17. CASE \E i \in Instances : StreamCiphertext(i)
  BY <1>17 DEF StreamCiphertext
<1>18. CASE \E i \in Instances : StreamEnds(i)
  BY <1>18 DEF StreamEnds
<1>19. CASE \E i \in Instances : StartTask(i)
  BY <1>19 DEF StartTask
<1>20. CASE \E i \in Instances : DrainOne(i)
  BY <1>20 DEF DrainOne
<1>21. CASE \E i \in Instances : EndDrain(i)
  BY <1>21 DEF EndDrain
<1>22. CASE \E i \in Instances : Regarble(i)
  BY <1>22 DEF Regarble
<1>23. CASE GarblerCrash
  BY <1>23 DEF GarblerCrash
<1>24. CASE EvaluatorCrash
  BY <1>24 DEF EvaluatorCrash
<1>25. CASE UNCHANGED vars
  BY <1>25 DEF vars
<1>26. QED
  BY <1>2, <1>3, <1>4, <1>5, <1>6, <1>7, <1>8, <1>9, <1>10, <1>11, <1>12, <1>13, <1>14, <1>15,
     <1>16, <1>17, <1>18, <1>19, <1>20, <1>21, <1>22, <1>23, <1>24, <1>25
     DEF Next, GarblerStep, EvaluatorStep, StreamStep, WorkerStep

(* Results are those of one input, by the committed labels of every sealed *)
(* instance.                                                               *)
LEMMA NextEvaluated ==
  ASSUME Inv, Soldered, Evaluated, [Next]_vars
  PROVE  Evaluated'
<1>1. /\ Evaluated /\ Inv
      /\ (regarbled => regarbled' /\ finalized' = finalized) /\ fault' = fault /\ flow' = flow
  <2>1. regarbled => epc # "commit1"
    BY DEF Inv, Checking, Ended
  <2>2. regarbled => regarbled'
    BY RegarbledStays
  <2> QED
    BY <2>1, <2>2, Settled
<1> USE <1>1 DEF Evaluated, Base, given, answers, streams, garbler, check
<1>2. CASE GarblerCommitsOne
  BY <1>2 DEF GarblerCommitsOne, GarblerSends
<1>3. CASE GarblerCommitsTwo
  BY <1>3 DEF GarblerCommitsTwo, GarblerSends
<1>4. CASE GarblerOpens
  BY <1>4 DEF GarblerOpens, OpenSeeds, GarblerSends
<1>5. CASE GarblerSendsInputs
  BY <1>5 DEF GarblerSendsInputs, GarblerSends
<1>6. CASE GarblerSolders
  BY <1>6 DEF GarblerSolders, GarblerSends
<1>7. CASE GarblerSendsBase
  BY <1>7 DEF GarblerSendsBase, GarblerSends
<1>8. CASE GarblerRecvFails
  BY <1>8 DEF GarblerRecvFails
<1>9. CASE EvaluatorCreates
  BY <1>9 DEF EvaluatorCreates, EvaluatorSends
<1>10. CASE EvaluatorChallenges
  BY <1>10 DEF EvaluatorChallenges, EvaluatorSends
<1>11. CASE EvaluatorTakesSeeds
  BY <1>11 DEF EvaluatorTakesSeeds
<1>12. CASE CheckEnds
  BY <1>12 DEF CheckEnds
<1>13. CASE EvaluatorEvaluates
  <2>1. /\ finalized \in SUBSET Instances /\ flow = "vanilla" /\ regarbled
        /\ fault \in [Instances -> FaultKinds(flow)]
    BY <1>13 DEF EvaluatorEvaluates, Inv, Given, Control
  <2>2. PICK value \in Values : Head(g2e).body = [i \in finalized |-> input_for(i, value)]
    BY <1>13, HeadToEvaluator DEF EvaluatorEvaluates, Next1, Inv
  <2>3. CASE \E i \in finalized : ~EvaluatesToCommit(i, input_for(i, value))
    <3>1. results' = results
      BY <1>13, <2>2, <2>3 DEF EvaluatorEvaluates, evaluate_from
    <3> QED
      BY <3>1
  <2>4. CASE \A i \in finalized : EvaluatesToCommit(i, input_for(i, value))
    <3>1. results' = [i \in finalized |-> [w \in Wires |-> input_for(i, value)[w].value]]
      BY <1>13, <2>2, <2>4 DEF EvaluatorEvaluates, evaluate_from
    <3>2. \A i \in finalized : [w \in Wires |-> input_for(i, value)[w].value] = value
      BY DEF input_for, Values
    <3>3. results' = [i \in finalized |-> value]
      BY <3>1, <3>2
    <3>4. \A i \in finalized : fault[i] \notin {"labels", "input"}
      BY <2>1, <2>4, CrossedInputFails
    <3>5. \A i \in finalized : fault[i] \notin {"guest", "delta"}
      BY <2>1 DEF FaultKinds
    <3> QED
      BY <1>13, <2>1, <3>3, <3>4, <3>5 DEF EvaluatorEvaluates
  <2> QED
    BY <2>3, <2>4
<1>14. CASE EvaluatorVerifiesSoldering
  BY <1>14 DEF EvaluatorVerifiesSoldering
<1>15. CASE EvaluatorEvaluatesSoldered
  <2> DEFINE indexes == Indexes(finalized)
             cases(value) == soldered_cases(input_for(Base, value), indexes, soldered.deltas)
  <2>1. /\ finalized \in SUBSET Instances /\ finalized # {} /\ flow = "soldering" /\ regarbled
        /\ OnlyTrue /\ Head(indexes) = Base /\ Base \in finalized
        /\ \A i \in finalized : i = Base \/ \E k \in Others(finalized) : i = indexes[k + 1]
    <3>1. finalized \in SUBSET Instances /\ finalized # {} /\ flow = "soldering" /\ regarbled /\ OnlyTrue
      BY <1>15 DEF EvaluatorEvaluatesSoldered, Inv, Control, Soldered
    <3> QED
      BY <3>1, HeadAndTail
  <2>2. PICK value \in Values : Head(g2e).body = base_case(finalized, value)
    BY <1>15, HeadToEvaluator DEF EvaluatorEvaluatesSoldered, Next1, Inv
  <2>3. Head(g2e).body = [index |-> Base, input |-> input_for(Base, value)]
    BY <2>1, <2>2 DEF base_case
  <2>4. evaluate_from(cases(value)) /\ regarbled' = regarbled /\ finalized' = finalized
    BY <1>15, <2>1, <2>3 DEF EvaluatorEvaluatesSoldered
  <2>5. /\ DOMAIN cases(value) = finalized /\ cases(value)[Base] = input_for(Base, value)
        /\ \A k \in Others(finalized) :
             cases(value)[indexes[k + 1]] = solder(input_for(Base, value), soldered.deltas[k])
    BY <2>1, SolderedCases
  <2>6. CASE \E i \in finalized : ~EvaluatesToCommit(i, cases(value)[i])
    <3>1. results' = results
      BY <2>4, <2>5, <2>6 DEF evaluate_from
    <3> QED
      BY <2>4, <3>1
  <2>7. CASE \A i \in finalized : EvaluatesToCommit(i, cases(value)[i])
    <3>1. results' = [i \in finalized |-> [w \in Wires |-> cases(value)[i][w].value]]
      BY <2>4, <2>5, <2>7 DEF evaluate_from
    <3>2. \A i \in finalized : \A w \in Wires : cases(value)[i][w].value = value[w]
      <4>1. \A w \in Wires : cases(value)[Base][w].value = value[w]
        BY <2>5 DEF input_for
      <4>2. \A k \in Others(finalized), w \in Wires : cases(value)[indexes[k + 1]][w].value = value[w]
        BY <2>5, SolderKeepsValues
      <4> QED
        BY <2>1, <4>1, <4>2
    <3>3. \A i \in finalized : [w \in Wires |-> cases(value)[i][w].value] = value
      BY <3>2 DEF Values
    <3>4. results' = [i \in finalized |-> value]
      BY <3>1, <3>3
    <3>5. fault[Base] # "input"
      BY <2>1, <2>5, <2>7, CrossedInputFails
    <3> QED
      BY <2>1, <2>4, <3>4, <3>5 DEF OnlyTrue
  <2> QED
    BY <2>4, <2>5, <2>6, <2>7
<1>16. CASE EvaluatorRecvFails
  BY <1>16 DEF EvaluatorRecvFails
<1>17. CASE \E i \in Instances : StreamCiphertext(i)
  BY <1>17 DEF StreamCiphertext
<1>18. CASE \E i \in Instances : StreamEnds(i)
  BY <1>18 DEF StreamEnds
<1>19. CASE \E i \in Instances : StartTask(i)
  BY <1>19 DEF StartTask
<1>20. CASE \E i \in Instances : DrainOne(i)
  BY <1>20 DEF DrainOne
<1>21. CASE \E i \in Instances : EndDrain(i)
  BY <1>21 DEF EndDrain
<1>22. CASE \E i \in Instances : Regarble(i)
  BY <1>22 DEF Regarble
<1>23. CASE GarblerCrash
  BY <1>23 DEF GarblerCrash
<1>24. CASE EvaluatorCrash
  BY <1>24 DEF EvaluatorCrash
<1>25. CASE UNCHANGED vars
  BY <1>25 DEF vars
<1>26. QED
  BY <1>2, <1>3, <1>4, <1>5, <1>6, <1>7, <1>8, <1>9, <1>10, <1>11, <1>12, <1>13, <1>14, <1>15,
     <1>16, <1>17, <1>18, <1>19, <1>20, <1>21, <1>22, <1>23, <1>24, <1>25
     DEF Next, GarblerStep, EvaluatorStep, StreamStep, WorkerStep

-----------------------------------------------------------------------------
(* Without a fault or a crash: who waits for what, and what is on the way. *)
Kinds(q) == [j \in 1 .. Len(q) |-> q[j].kind]
Row(g, e, toEvaluator, toGarbler) ==
  gpc = g /\ epc = e /\ Kinds(g2e) = toEvaluator /\ Kinds(e2g) = toGarbler

OpeningRows ==
  \/ Row("commit1", "commit1", <<>>, <<>>)
  \/ Row("nonce", "commit1", <<"Commit1">>, <<>>)
  \/ Row("nonce", "commit2", <<>>, <<"Commit2Nonce">>)
  \/ Row("challenge", "commit2", <<"Commit2">>, <<>>)
  \/ Row("challenge", "seeds", <<>>, <<"FinalizeChallenge">>)
  \/ Row("join", "seeds", <<"OpenSeeds">>, <<>>)
  \/ Row("join", "check", <<>>, <<>>)
VanillaRows ==
  \/ Row("join", "inputs", <<>>, <<>>)
  \/ Row("done", "seeds", <<"OpenSeeds", "AllInputs">>, <<>>)
  \/ Row("done", "check", <<"AllInputs">>, <<>>)
  \/ Row("done", "inputs", <<"AllInputs">>, <<>>)
  \/ Row("done", "done", <<>>, <<>>)
SolderingRows ==
  \/ Row("join", "proof", <<>>, <<>>)
  \/ Row("base", "seeds", <<"OpenSeeds", "SolderingProof">>, <<>>)
  \/ Row("base", "check", <<"SolderingProof">>, <<>>)
  \/ Row("base", "proof", <<"SolderingProof">>, <<>>)
  \/ Row("base", "base", <<>>, <<>>)
  \/ Row("done", "seeds", <<"OpenSeeds", "SolderingProof", "BaseInput">>, <<>>)
  \/ Row("done", "check", <<"SolderingProof", "BaseInput">>, <<>>)
  \/ Row("done", "proof", <<"SolderingProof", "BaseInput">>, <<>>)
  \/ Row("done", "base", <<"BaseInput">>, <<>>)
  \/ Row("done", "done", <<>>, <<>>)

Honest == crash = "none" /\ \A i \in Instances : fault[i] = "none"
NoError == Honest => \A i \in Instances : task[i] # "err"
Lockstep ==
  Honest => OpeningRows \/ (flow = "vanilla" /\ VanillaRows) \/ (flow = "soldering" /\ SolderingRows)

(* Sending and receiving, seen by the kinds of the messages.               *)
LEMMA KindsMove ==
  ASSUME NEW S, NEW q \in Seq(S)
  PROVE  /\ \A m : Kinds(Append(q, m)) = Append(Kinds(q), m.kind)
         /\ q # <<>> => Kinds(Tail(q)) = Tail(Kinds(q)) /\ Head(q).kind = Head(Kinds(q))
         /\ q = <<>> <=> Kinds(q) = <<>>
<1>1. Len(q) \in Nat
  OBVIOUS
<1>2. ASSUME NEW m PROVE Kinds(Append(q, m)) = Append(Kinds(q), m.kind)
  <2>1. q \in Seq(S \cup {m})
    BY SeqMonotonic
  <2> QED
    BY <1>1, <2>1 DEF Kinds
<1>3. q # <<>> => Kinds(Tail(q)) = Tail(Kinds(q))
  BY <1>1 DEF Kinds
<1>4. q # <<>> => Head(q).kind = Head(Kinds(q))
  BY <1>1 DEF Kinds
<1>5. q = <<>> <=> Kinds(q) = <<>>
  BY <1>1 DEF Kinds
<1> QED
  BY <1>2, <1>3, <1>4, <1>5

(* A third element, appended.                                              *)
LEMMA AppendToTwo ==
  ASSUME NEW a, NEW b, NEW c
  PROVE  Append(<<a, b>>, c) = <<a, b, c>>
<1> DEFINE s == <<a, b>>
           t == <<a, b, c>>
<1>1. s \in Seq({a, b, c}) /\ Len(s) = 2 /\ s[1] = a /\ s[2] = b
  OBVIOUS
<1>2. t \in Seq({a, b, c}) /\ Len(t) = 3 /\ t[1] = a /\ t[2] = b /\ t[3] = c
  OBVIOUS
<1> HIDE DEF s, t
<1>3. /\ Append(s, c) \in Seq({a, b, c}) /\ Len(Append(s, c)) = 3
      /\ Append(s, c)[1] = a /\ Append(s, c)[2] = b /\ Append(s, c)[3] = c
  <2>1. c \in {a, b, c} /\ 1 \in 1 .. Len(s) /\ 2 \in 1 .. Len(s)
    BY <1>1
  <2>2. /\ Append(s, c) \in Seq({a, b, c}) /\ Len(Append(s, c)) = Len(s) + 1
        /\ \A k \in 1 .. Len(s) : Append(s, c)[k] = s[k]
        /\ Append(s, c)[Len(s) + 1] = c
    <3>1. ASSUME NEW T, NEW q \in Seq(T), NEW e \in T
          PROVE  /\ Append(q, e) \in Seq(T) /\ Len(Append(q, e)) = Len(q) + 1
                 /\ \A k \in 1 .. Len(q) : Append(q, e)[k] = q[k]
                 /\ Append(q, e)[Len(q) + 1] = e
      BY AppendProperties
    <3>2. c \in {a, b, c}
      OBVIOUS
    <3> QED
      BY ONLY <1>1, <3>1, <3>2
  <2> QED
    BY <1>1, <2>1, <2>2
<1>4. \A k \in 1 .. 3 : k = 1 \/ k = 2 \/ k = 3
  OBVIOUS
<1>5. \A k \in 1 .. Len(t) : Append(s, c)[k] = t[k]
  BY <1>2, <1>3, <1>4
<1>6. Append(s, c) = t
  BY <1>2, <1>3, <1>5, SeqEqual
<1> QED
  BY <1>6 DEF s, t

(* What becomes of queues of at most three messages.                       *)
LEMMA ShortQueues ==
  ASSUME NEW a, NEW b, NEW c
  PROVE  /\ Tail(<<a>>) = <<>> /\ Tail(<<a, b>>) = <<b>> /\ Tail(<<a, b, c>>) = <<b, c>>
         /\ Append(<<>>, a) = <<a>> /\ Append(<<a>>, b) = <<a, b>>
         /\ Append(<<a, b>>, c) = <<a, b, c>>
         /\ Head(<<a>>) = a /\ Head(<<a, b>>) = a /\ Head(<<a, b, c>>) = a
         /\ <<a>> # <<>> /\ <<a, b>> # <<>> /\ <<a, b, c>> # <<>>
<1>1. Tail(<<a>>) = <<>>
  OBVIOUS
<1>2. Tail(<<a, b>>) = <<b>>
  OBVIOUS
<1>3. Tail(<<a, b, c>>) = <<b, c>>
  OBVIOUS
<1>4. Append(<<>>, a) = <<a>>
  OBVIOUS
<1>5. Append(<<a>>, b) = <<a, b>>
  <2> DEFINE s == <<a>>
             t == <<a, b>>
  <2>1. s \in Seq({a, b}) /\ Len(s) = 1 /\ s[1] = a
    OBVIOUS
  <2>2. t \in Seq({a, b}) /\ Len(t) = 2 /\ t[1] = a /\ t[2] = b
    OBVIOUS
  <2> HIDE DEF s, t
  <2>3. /\ Append(s, b) \in Seq({a, b}) /\ Len(Append(s, b)) = 2
        /\ Append(s, b)[1] = a /\ Append(s, b)[2] = b
    <3>1. b \in {a, b} /\ 1 \in 1 .. Len(s)
      BY <2>1
    <3>2. /\ Append(s, b) \in Seq({a, b}) /\ Len(Append(s, b)) = Len(s) + 1
          /\ \A k \in 1 .. Len(s) : Append(s, b)[k] = s[k]
          /\ Append(s, b)[Len(s) + 1] = b
      <4>1. b \in {a, b}
        OBVIOUS
      <4> QED
        BY ONLY ZenonT(40), <2>1, <4>1, AppendProperties
    <3> QED
      BY <2>1, <3>1, <3>2
  <2>4. \A k \in 1 .. 2 : k = 1 \/ k = 2
    OBVIOUS
  <2>5. \A k \in 1 .. Len(t) : Append(s, b)[k] = t[k]
    BY <2>2, <2>3, <2>4
  <2>6. Append(s, b) = t
    BY <2>2, <2>3, <2>5, SeqEqual
  <2> QED
    BY <2>6 DEF s, t
<1>6. Append(<<a, b>>, c) = <<a, b, c>>
  BY AppendToTwo
<1>7. Head(<<a>>) = a /\ Head(<<a, b>>) = a /\ Head(<<a, b, c>>) = a
  OBVIOUS
<1>8. <<a>> # <<>> /\ <<a, b>> # <<>> /\ <<a, b, c>> # <<>>
  OBVIOUS
<1> QED
  BY <1>1, <1>2, <1>3, <1>4, <1>5, <1>6, <1>7, <1>8

(* Whether somebody may crash is given.                                    *)
LEMMA CrashStays ==
  ASSUME Inv, [Next]_vars
  PROVE  crash' = crash
<1> USE DEF given
<1>1. CASE GarblerCommitsOne
  BY <1>1 DEF GarblerCommitsOne, GarblerSends
<1>2. CASE GarblerCommitsTwo
  BY <1>2 DEF GarblerCommitsTwo, GarblerSends
<1>3. CASE GarblerOpens
  BY <1>3 DEF GarblerOpens, OpenSeeds, GarblerSends
<1>4. CASE GarblerSendsInputs
  BY <1>4 DEF GarblerSendsInputs, GarblerSends
<1>5. CASE GarblerSolders
  BY <1>5 DEF GarblerSolders, GarblerSends
<1>6. CASE GarblerSendsBase
  BY <1>6 DEF GarblerSendsBase, GarblerSends
<1>7. CASE GarblerRecvFails
  BY <1>7 DEF GarblerRecvFails
<1>8. CASE EvaluatorCreates
  BY <1>8 DEF EvaluatorCreates, EvaluatorSends
<1>9. CASE EvaluatorChallenges
  BY <1>9 DEF EvaluatorChallenges, EvaluatorSends
<1>10. CASE EvaluatorTakesSeeds
  BY <1>10 DEF EvaluatorTakesSeeds
<1>11. CASE CheckEnds
  BY <1>11 DEF CheckEnds
<1>12. CASE EvaluatorEvaluates
  BY <1>12 DEF EvaluatorEvaluates, evaluate_from
<1>13. CASE EvaluatorVerifiesSoldering
  BY <1>13 DEF EvaluatorVerifiesSoldering
<1>14. CASE EvaluatorEvaluatesSoldered
  BY <1>14 DEF EvaluatorEvaluatesSoldered, evaluate_from
<1>15. CASE EvaluatorRecvFails
  BY <1>15 DEF EvaluatorRecvFails
<1>16. CASE \E i \in Instances : StreamCiphertext(i)
  BY <1>16 DEF StreamCiphertext
<1>17. CASE \E i \in Instances : StreamEnds(i)
  BY <1>17 DEF StreamEnds
<1>18. CASE \E i \in Instances : StartTask(i)
  BY <1>18 DEF StartTask
<1>19. CASE \E i \in Instances : DrainOne(i)
  BY <1>19 DEF DrainOne
<1>20. CASE \E i \in Instances : EndDrain(i)
  BY <1>20 DEF EndDrain
<1>21. CASE \E i \in Instances : Regarble(i)
  BY <1>21 DEF Regarble
<1>22. CASE GarblerCrash
  BY <1>22 DEF GarblerCrash
<1>23. CASE EvaluatorCrash
  BY <1>23 DEF EvaluatorCrash
<1>24. CASE UNCHANGED vars
  BY <1>24 DEF vars
<1>25. QED
  BY <1>1, <1>2, <1>3, <1>4, <1>5, <1>6, <1>7, <1>8, <1>9, <1>10, <1>11, <1>12, <1>13, <1>14,
     <1>15, <1>16, <1>17, <1>18, <1>19, <1>20, <1>21, <1>22, <1>23, <1>24
     DEF Next, GarblerStep, EvaluatorStep, StreamStep, WorkerStep

(* Without a fault no check fails: the thread of a stream that ended has   *)
(* sent all of it, for its receiver is still there, and every opened       *)
(* instance has its seed.                                                  *)
LEMMA NextNoError ==
  ASSUME Inv, NoError, [Next]_vars
  PROVE  NoError'
<1>1. Honest' => /\ Honest /\ \A i \in Instances : task[i] # "err" /\ fault[i] = "none"
                  /\ task \in [Instances -> {"todo", "busy", "ok", "err"}]
  BY CrashStays, Settled DEF Honest, NoError, Inv, Checking
<1> SUFFICES ASSUME Honest', NEW j \in Instances
             PROVE  task'[j] # "err"
  BY DEF NoError
<1> USE <1>1 DEF given, answers, streams, garbler, check
<1>2. CASE GarblerCommitsOne
  BY <1>2 DEF GarblerCommitsOne, GarblerSends
<1>3. CASE GarblerCommitsTwo
  BY <1>3 DEF GarblerCommitsTwo, GarblerSends
<1>4. CASE GarblerOpens
  BY <1>4 DEF GarblerOpens, OpenSeeds, GarblerSends
<1>5. CASE GarblerSendsInputs
  BY <1>5 DEF GarblerSendsInputs, GarblerSends
<1>6. CASE GarblerSolders
  BY <1>6 DEF GarblerSolders, GarblerSends
<1>7. CASE GarblerSendsBase
  BY <1>7 DEF GarblerSendsBase, GarblerSends
<1>8. CASE GarblerRecvFails
  BY <1>8 DEF GarblerRecvFails
<1>9. CASE EvaluatorCreates
  BY <1>9 DEF EvaluatorCreates, EvaluatorSends
<1>10. CASE EvaluatorChallenges
  BY <1>10 DEF EvaluatorChallenges, EvaluatorSends
<1>11. CASE EvaluatorTakesSeeds
  BY <1>11 DEF EvaluatorTakesSeeds
<1>12. CASE CheckEnds
  BY <1>12 DEF CheckEnds
<1>13. CASE EvaluatorEvaluates
  BY <1>13 DEF EvaluatorEvaluates, evaluate_from
<1>14. CASE EvaluatorVerifiesSoldering
  BY <1>14 DEF EvaluatorVerifiesSoldering
<1>15. CASE EvaluatorEvaluatesSoldered
  BY <1>15 DEF EvaluatorEvaluatesSoldered, evaluate_from
<1>16. CASE EvaluatorRecvFails
  BY <1>16 DEF EvaluatorRecvFails
<1>17. CASE \E i \in Instances : StreamCiphertext(i)
  BY <1>17 DEF StreamCiphertext
<1>18. CASE \E i \in Instances : StreamEnds(i)
  BY <1>18 DEF StreamEnds
<1>19. CASE \E i \in Instances : StartTask(i)
  BY <1>19 DEF StartTask
<1>20. CASE \E i \in Instances : DrainOne(i)
  BY <1>20 DEF DrainOne
<1>21. CASE \E i \in Instances : EndDrain(i)
  <2>1. PICK i \in Instances : EndDrain(i)
    BY <1>21
  <2>2. epc = "check" /\ ~EvaluatorGone
    BY <2>1 DEF EndDrain, Inv, Checking, EvaluatorGone, Ended
  <2>3. sent[i] = Ciphertexts /\ flight[i] = 0 /\ file[i] \in Nat /\ sent[i] = flight[i] + file[i]
    BY <2>1, <2>2 DEF EndDrain, Inv, Streaming, StreamLength
  <2>4. StreamMatches(i)
    BY <2>3 DEF StreamMatches
  <2> QED
    BY <2>1, <2>4 DEF EndDrain
<1>22. CASE \E i \in Instances : Regarble(i)
  <2>1. PICK i \in Instances : Regarble(i)
    BY <1>22
  <2>2. i \in seeds
    BY <2>1 DEF Regarble, Inv, Opening, Opened
  <2> QED
    BY <2>1, <2>2 DEF Regarble, RegarblesToCommits
<1>23. CASE GarblerCrash
  BY <1>23 DEF GarblerCrash
<1>24. CASE EvaluatorCrash
  BY <1>24 DEF EvaluatorCrash
<1>25. CASE UNCHANGED vars
  BY <1>25 DEF vars
<1>26. QED
  BY <1>2, <1>3, <1>4, <1>5, <1>6, <1>7, <1>8, <1>9, <1>10, <1>11, <1>12, <1>13, <1>14, <1>15,
     <1>16, <1>17, <1>18, <1>19, <1>20, <1>21, <1>22, <1>23, <1>24, <1>25
     DEF Next, GarblerStep, EvaluatorStep, StreamStep, WorkerStep

(* Without a fault or a crash the two sides move through the rows in step: *)
(* each finds the message that it waits for, and accepts it.               *)
LEMMA NextLockstep ==
  ASSUME Inv, Soldered, NoError, Lockstep, [Next]_vars
  PROVE  Lockstep'
<1> DEFINE Kg == Kinds(g2e)
           Ke == Kinds(e2g)
<1> SUFFICES ASSUME Honest'
             PROVE  OpeningRows' \/ (flow' = "vanilla" /\ VanillaRows')
                      \/ (flow' = "soldering" /\ SolderingRows')
  BY DEF Lockstep
<1>1. /\ Honest /\ crash = "none" /\ flow' = flow /\ fault' = fault /\ Control
      /\ flow \in {"vanilla", "soldering"}
      /\ \A i \in Instances : fault[i] = "none" /\ task[i] # "err"
  BY Settled, CrashStays DEF Honest, Inv, Given, NoError
<1>2. OpeningRows \/ (flow = "vanilla" /\ VanillaRows) \/ (flow = "soldering" /\ SolderingRows)
  BY <1>1 DEF Lockstep
<1>3. /\ \A m : Kinds(Append(g2e, m)) = Append(Kg, m.kind)
      /\ g2e # <<>> => Kinds(Tail(g2e)) = Tail(Kg) /\ Head(g2e).kind = Head(Kg)
      /\ g2e = <<>> <=> Kg = <<>>
  BY KindsMove DEF Inv, Queues
<1>4. /\ \A m : Kinds(Append(e2g, m)) = Append(Ke, m.kind)
      /\ e2g # <<>> => Kinds(Tail(e2g)) = Tail(Ke) /\ Head(e2g).kind = Head(Ke)
      /\ e2g = <<>> <=> Ke = <<>>
  BY KindsMove DEF Inv, Queues
<1>5. ASSUME UNCHANGED <<gpc, epc, g2e, e2g>>
      PROVE  OpeningRows' \/ (flow' = "vanilla" /\ VanillaRows')
               \/ (flow' = "soldering" /\ SolderingRows')
  <2>1. Kg' = Kg /\ Ke' = Ke
    BY <1>5
  <2> QED
    BY <1>1, <1>2, <1>5, <2>1 DEF OpeningRows, VanillaRows, SolderingRows, Row
<1> HIDE DEF Kg, Ke
<1>6. /\ Kg = Kinds(g2e) /\ Kg' = Kinds(g2e)' /\ Ke = Kinds(e2g) /\ Ke' = Kinds(e2g)'
      /\ Kg' = Kinds(g2e') /\ Ke' = Kinds(e2g')
  BY DEF Kg, Ke, Kinds
<1>7. CASE GarblerCommitsOne
  <2>1. \/ Row("commit1", "commit1", <<>>, <<>>)
    BY <1>7, <1>1, <1>2, <1>3, <1>4, <1>6, ShortQueues
    DEF given, streams, GarblerCommitsOne, Next1, OpeningRows, VanillaRows, SolderingRows, Row
  <2>2. ~EvaluatorGone
    BY <2>1 DEF EvaluatorGone, GarblerGone, Ended, Row
  <2>3. Kg' = Append(Kg, "Commit1")
    <3>1. \E m : m.kind = "Commit1" /\ g2e' = Append(g2e, m)
      BY <1>7, <2>2 DEF given, streams, GarblerCommitsOne, GarblerSends
    <3> QED
      BY <3>1, <1>3, <1>4, <1>6
  <2>4. Ke' = Ke
    BY <1>7, <1>6 DEF given, streams, GarblerCommitsOne, GarblerSends
  <2>5. gpc' = "nonce" /\ epc' = epc
    BY <1>7, <1>1, <2>2 DEF given, streams, GarblerCommitsOne, GarblerSends
  <2>6. Append(<<>>, "Commit1") = <<"Commit1">>
    BY ShortQueues
  <2>7. \/ Row("nonce", "commit1", <<"Commit1">>, <<>>)'
    BY <1>1, <1>6, <2>1, <2>3, <2>4, <2>5, <2>6 DEF Row
  <2> QED
    BY <1>1, <2>7 DEF OpeningRows, VanillaRows, SolderingRows
<1>8. CASE GarblerCommitsTwo
  <2>1. \/ Row("nonce", "commit2", <<>>, <<"Commit2Nonce">>)
    BY <1>8, <1>1, <1>2, <1>3, <1>4, <1>6, ShortQueues
    DEF GarblerCommitsTwo, Next1, OpeningRows, VanillaRows, SolderingRows, Row
  <2>2. ~EvaluatorGone
    BY <2>1 DEF EvaluatorGone, GarblerGone, Ended, Row
  <2>3. Kg' = Append(Kg, "Commit2")
    <3>1. \E m : m.kind = "Commit2" /\ g2e' = Append(g2e, m)
      BY <1>8, <2>2 DEF GarblerCommitsTwo, GarblerSends
    <3> QED
      BY <3>1, <1>3, <1>4, <1>6
  <2>4. Ke' = Tail(Ke)
    <3>1. e2g # <<>> /\ e2g' = Tail(e2g)
      BY <1>8 DEF GarblerCommitsTwo, Next1
    <3> QED
      BY <3>1, <1>3, <1>4, <1>6
  <2>5. gpc' = "challenge" /\ epc' = epc
    BY <1>8, <1>1, <2>2 DEF GarblerCommitsTwo, GarblerSends
  <2>6. /\ Append(<<>>, "Commit2") = <<"Commit2">>
        /\ Tail(<<"Commit2Nonce">>) = <<>>
    BY ShortQueues
  <2>7. \/ Row("challenge", "commit2", <<"Commit2">>, <<>>)'
    BY <1>1, <1>6, <2>1, <2>3, <2>4, <2>5, <2>6 DEF Row
  <2> QED
    BY <1>1, <2>7 DEF OpeningRows, VanillaRows, SolderingRows
<1>9. CASE GarblerOpens
  <2>1. \/ Row("challenge", "seeds", <<>>, <<"FinalizeChallenge">>)
    BY <1>9, <1>1, <1>2, <1>3, <1>4, <1>6, ShortQueues
    DEF GarblerOpens, Next1, OpeningRows, VanillaRows, SolderingRows, Row
  <2>2. ~EvaluatorGone
    BY <2>1 DEF EvaluatorGone, GarblerGone, Ended, Row
  <2>3. Kg' = Append(Kg, "OpenSeeds")
    <3>1. \E m : m.kind = "OpenSeeds" /\ g2e' = Append(g2e, m)
      BY <1>9, <2>2 DEF GarblerOpens, OpenSeeds, GarblerSends
    <3> QED
      BY <3>1, <1>3, <1>4, <1>6
  <2>4. Ke' = Tail(Ke)
    <3>1. e2g # <<>> /\ e2g' = Tail(e2g)
      BY <1>9 DEF GarblerOpens, Next1
    <3> QED
      BY <3>1, <1>3, <1>4, <1>6
  <2>5. gpc' = "join" /\ epc' = epc
    BY <1>9, <1>1, <2>2 DEF GarblerOpens, OpenSeeds, GarblerSends
  <2>6. /\ Append(<<>>, "OpenSeeds") = <<"OpenSeeds">>
        /\ Tail(<<"FinalizeChallenge">>) = <<>>
    BY ShortQueues
  <2>7. \/ Row("join", "seeds", <<"OpenSeeds">>, <<>>)'
    BY <1>1, <1>6, <2>1, <2>3, <2>4, <2>5, <2>6 DEF Row
  <2> QED
    BY <1>1, <2>7 DEF OpeningRows, VanillaRows, SolderingRows
<1>10. CASE GarblerSendsInputs
  <2>1. \/ flow = "vanilla" /\ Row("join", "seeds", <<"OpenSeeds">>, <<>>)
        \/ flow = "vanilla" /\ Row("join", "check", <<>>, <<>>)
        \/ flow = "vanilla" /\ Row("join", "inputs", <<>>, <<>>)
    BY <1>10, <1>1, <1>2, <1>3, <1>4, <1>6, ShortQueues
    DEF GarblerSendsInputs, Next1, OpeningRows, VanillaRows, SolderingRows, Row
  <2>2. ~EvaluatorGone
    BY <2>1 DEF EvaluatorGone, GarblerGone, Ended, Row
  <2>3. Kg' = Append(Kg, "AllInputs")
    <3>1. \E m : m.kind = "AllInputs" /\ g2e' = Append(g2e, m)
      BY <1>10, <2>2 DEF GarblerSendsInputs, GarblerSends
    <3> QED
      BY <3>1, <1>3, <1>4, <1>6
  <2>4. Ke' = Ke
    BY <1>10, <1>6 DEF GarblerSendsInputs, GarblerSends
  <2>5. gpc' = "done" /\ epc' = epc
    BY <1>10, <1>1, <2>2 DEF GarblerSendsInputs, GarblerSends
  <2>6. /\ Append(<<"OpenSeeds">>, "AllInputs") = <<"OpenSeeds", "AllInputs">>
        /\ Append(<<>>, "AllInputs") = <<"AllInputs">>
    BY ShortQueues
  <2>7. \/ flow = "vanilla" /\ Row("done", "seeds", <<"OpenSeeds", "AllInputs">>, <<>>)'
        \/ flow = "vanilla" /\ Row("done", "check", <<"AllInputs">>, <<>>)'
        \/ flow = "vanilla" /\ Row("done", "inputs", <<"AllInputs">>, <<>>)'
    BY <1>1, <1>6, <2>1, <2>3, <2>4, <2>5, <2>6 DEF Row
  <2> QED
    BY <1>1, <2>7 DEF OpeningRows, VanillaRows, SolderingRows
<1>11. CASE GarblerSolders
  <2>1. \/ flow = "soldering" /\ Row("join", "seeds", <<"OpenSeeds">>, <<>>)
        \/ flow = "soldering" /\ Row("join", "check", <<>>, <<>>)
        \/ flow = "soldering" /\ Row("join", "proof", <<>>, <<>>)
    BY <1>11, <1>1, <1>2, <1>3, <1>4, <1>6, ShortQueues
    DEF GarblerSolders, Next1, OpeningRows, VanillaRows, SolderingRows, Row
  <2>2. ~EvaluatorGone
    BY <2>1 DEF EvaluatorGone, GarblerGone, Ended, Row
  <2>3. Kg' = Append(Kg, "SolderingProof")
    <3>1. \E m : m.kind = "SolderingProof" /\ g2e' = Append(g2e, m)
      BY <1>11, <2>2 DEF GarblerSolders, GarblerSends
    <3> QED
      BY <3>1, <1>3, <1>4, <1>6
  <2>4. Ke' = Ke
    BY <1>11, <1>6 DEF GarblerSolders, GarblerSends
  <2>5. gpc' = "base" /\ epc' = epc
    BY <1>11, <1>1, <2>2 DEF GarblerSolders, GarblerSends
  <2>6. /\ Append(<<"OpenSeeds">>, "SolderingProof") = <<"OpenSeeds", "SolderingProof">>
        /\ Append(<<>>, "SolderingProof") = <<"SolderingProof">>
    BY ShortQueues
  <2>7. \/ flow = "soldering" /\ Row("base", "seeds", <<"OpenSeeds", "SolderingProof">>, <<>>)'
        \/ flow = "soldering" /\ Row("base", "check", <<"SolderingProof">>, <<>>)'
        \/ flow = "soldering" /\ Row("base", "proof", <<"SolderingProof">>, <<>>)'
    BY <1>1, <1>6, <2>1, <2>3, <2>4, <2>5, <2>6 DEF Row
  <2> QED
    BY <1>1, <2>7 DEF OpeningRows, VanillaRows, SolderingRows
<1>12. CASE GarblerSendsBase
  <2>1. \/ flow = "soldering" /\ Row("base", "seeds", <<"OpenSeeds", "SolderingProof">>, <<>>)
        \/ flow = "soldering" /\ Row("base", "check", <<"SolderingProof">>, <<>>)
        \/ flow = "soldering" /\ Row("base", "proof", <<"SolderingProof">>, <<>>)
        \/ flow = "soldering" /\ Row("base", "base", <<>>, <<>>)
    BY <1>12, <1>1, <1>2, <1>3, <1>4, <1>6, ShortQueues
    DEF GarblerSendsBase, Next1, OpeningRows, VanillaRows, SolderingRows, Row
  <2>2. ~EvaluatorGone
    BY <2>1 DEF EvaluatorGone, GarblerGone, Ended, Row
  <2>3. Kg' = Append(Kg, "BaseInput")
    <3>1. \E m : m.kind = "BaseInput" /\ g2e' = Append(g2e, m)
      BY <1>12, <2>2 DEF GarblerSendsBase, GarblerSends
    <3> QED
      BY <3>1, <1>3, <1>4, <1>6
  <2>4. Ke' = Ke
    BY <1>12, <1>6 DEF GarblerSendsBase, GarblerSends
  <2>5. gpc' = "done" /\ epc' = epc
    BY <1>12, <1>1, <2>2 DEF GarblerSendsBase, GarblerSends
  <2>6. /\ Append(<<"OpenSeeds", "SolderingProof">>, "BaseInput") = <<"OpenSeeds", "SolderingProof", "BaseInput">>
        /\ Append(<<"SolderingProof">>, "BaseInput") = <<"SolderingProof", "BaseInput">>
        /\ Append(<<>>, "BaseInput") = <<"BaseInput">>
    <3>1. Append(<<"OpenSeeds", "SolderingProof">>, "BaseInput") = <<"OpenSeeds", "SolderingProof", "BaseInput">>
      BY AppendToTwo, Zenon
    <3>2. Append(<<"SolderingProof">>, "BaseInput") = <<"SolderingProof", "BaseInput">>
      BY ShortQueues
    <3>3. Append(<<>>, "BaseInput") = <<"BaseInput">>
      BY ShortQueues
    <3> QED
      BY <3>1, <3>2, <3>3
  <2>7. \/ flow = "soldering" /\ Row("done", "seeds", <<"OpenSeeds", "SolderingProof", "BaseInput">>, <<>>)'
        \/ flow = "soldering" /\ Row("done", "check", <<"SolderingProof", "BaseInput">>, <<>>)'
        \/ flow = "soldering" /\ Row("done", "proof", <<"SolderingProof", "BaseInput">>, <<>>)'
        \/ flow = "soldering" /\ Row("done", "base", <<"BaseInput">>, <<>>)'
    BY <1>1, <1>6, <2>1, <2>3, <2>4, <2>5, <2>6 DEF Row
  <2> QED
    BY <1>1, <2>7 DEF OpeningRows, VanillaRows, SolderingRows
<1>13. CASE GarblerRecvFails
  <2>1. OpeningRows \/ VanillaRows \/ SolderingRows
    BY <1>2
  <2>2. FALSE
    BY <1>13, <1>1, <1>6, <2>1, ShortQueues
       DEF GarblerRecvFails, EvaluatorGone, GarblerGone, Ended, OpeningRows, VanillaRows,
       SolderingRows, Row
  <2> QED
    BY <2>2
<1>14. CASE EvaluatorCreates
  <2>1. \/ Row("nonce", "commit1", <<"Commit1">>, <<>>)
    BY <1>14, <1>1, <1>2, <1>3, <1>4, <1>6, ShortQueues
    DEF EvaluatorCreates, Next1, OpeningRows, VanillaRows, SolderingRows, Row
  <2>2. ~GarblerGone
    BY <2>1 DEF EvaluatorGone, GarblerGone, Ended, Row
  <2>3. Ke' = Append(Ke, "Commit2Nonce")
    <3>1. \E m : m.kind = "Commit2Nonce" /\ e2g' = Append(e2g, m)
      BY <1>14, <2>2 DEF EvaluatorCreates, EvaluatorSends
    <3> QED
      BY <3>1, <1>3, <1>4, <1>6
  <2>4. Kg' = Tail(Kg)
    <3>1. g2e # <<>> /\ g2e' = Tail(g2e)
      BY <1>14 DEF EvaluatorCreates, Next1
    <3> QED
      BY <3>1, <1>3, <1>4, <1>6
  <2>5. epc' = "commit2" /\ gpc' = gpc
    BY <1>14, <1>1, <2>2 DEF EvaluatorCreates, EvaluatorSends, garbler
  <2>6. /\ Append(<<>>, "Commit2Nonce") = <<"Commit2Nonce">>
        /\ Tail(<<"Commit1">>) = <<>>
    BY ShortQueues
  <2>7. \/ Row("nonce", "commit2", <<>>, <<"Commit2Nonce">>)'
    BY <1>1, <1>6, <2>1, <2>3, <2>4, <2>5, <2>6 DEF Row
  <2> QED
    BY <1>1, <2>7 DEF OpeningRows, VanillaRows, SolderingRows
<1>15. CASE EvaluatorChallenges
  <2>1. \/ Row("challenge", "commit2", <<"Commit2">>, <<>>)
    BY <1>15, <1>1, <1>2, <1>3, <1>4, <1>6, ShortQueues
    DEF EvaluatorChallenges, Next1, OpeningRows, VanillaRows, SolderingRows, Row
  <2>2. ~GarblerGone
    BY <2>1 DEF EvaluatorGone, GarblerGone, Ended, Row
  <2>3. Ke' = Append(Ke, "FinalizeChallenge")
    <3>1. \E m : m.kind = "FinalizeChallenge" /\ e2g' = Append(e2g, m)
      BY <1>15, <2>2 DEF EvaluatorChallenges, EvaluatorSends
    <3> QED
      BY <3>1, <1>3, <1>4, <1>6
  <2>4. Kg' = Tail(Kg)
    <3>1. g2e # <<>> /\ g2e' = Tail(g2e)
      BY <1>15 DEF EvaluatorChallenges, Next1
    <3> QED
      BY <3>1, <1>3, <1>4, <1>6
  <2>5. epc' = "seeds" /\ gpc' = gpc
    BY <1>15, <1>1, <2>2 DEF EvaluatorChallenges, EvaluatorSends, garbler
  <2>6. /\ Append(<<>>, "FinalizeChallenge") = <<"FinalizeChallenge">>
        /\ Tail(<<"Commit2">>) = <<>>
    BY ShortQueues
  <2>7. \/ Row("challenge", "seeds", <<>>, <<"FinalizeChallenge">>)'
    BY <1>1, <1>6, <2>1, <2>3, <2>4, <2>5, <2>6 DEF Row
  <2> QED
    BY <1>1, <2>7 DEF OpeningRows, VanillaRows, SolderingRows
<1>16. CASE EvaluatorTakesSeeds
  <2>1. \/ Row("join", "seeds", <<"OpenSeeds">>, <<>>)
        \/ flow = "vanilla" /\ Row("done", "seeds", <<"OpenSeeds", "AllInputs">>, <<>>)
        \/ flow = "soldering" /\ Row("base", "seeds", <<"OpenSeeds", "SolderingProof">>, <<>>)
        \/ flow = "soldering" /\ Row("done", "seeds", <<"OpenSeeds", "SolderingProof", "BaseInput">>, <<>>)
    BY <1>16, <1>1, <1>2, <1>3, <1>4, <1>6, ShortQueues
    DEF EvaluatorTakesSeeds, Next1, OpeningRows, VanillaRows, SolderingRows, Row
  <2>2. Ke' = Ke
    BY <1>16, <1>6 DEF EvaluatorTakesSeeds
  <2>3. Kg' = Tail(Kg)
    <3>1. g2e # <<>> /\ g2e' = Tail(g2e)
      BY <1>16 DEF EvaluatorTakesSeeds, Next1
    <3> QED
      BY <3>1, <1>3, <1>4, <1>6
  <2>4. epc' = "check" /\ gpc' = gpc
    BY <1>16, <1>1 DEF EvaluatorTakesSeeds, garbler
  <2>5. /\ Tail(<<"OpenSeeds">>) = <<>>
        /\ Tail(<<"OpenSeeds", "AllInputs">>) = <<"AllInputs">>
        /\ Tail(<<"OpenSeeds", "SolderingProof">>) = <<"SolderingProof">>
        /\ Tail(<<"OpenSeeds", "SolderingProof", "BaseInput">>) = <<"SolderingProof", "BaseInput">>
    BY ShortQueues
  <2>6. \/ Row("join", "check", <<>>, <<>>)'
        \/ flow = "vanilla" /\ Row("done", "check", <<"AllInputs">>, <<>>)'
        \/ flow = "soldering" /\ Row("base", "check", <<"SolderingProof">>, <<>>)'
        \/ flow = "soldering" /\ Row("done", "check", <<"SolderingProof", "BaseInput">>, <<>>)'
    BY <1>1, <1>6, <2>1, <2>2, <2>3, <2>4, <2>5 DEF Row
  <2> QED
    BY <1>1, <2>6 DEF OpeningRows, VanillaRows, SolderingRows
<1>17. CASE CheckEnds
  <2>1. \/ Row("join", "check", <<>>, <<>>)
        \/ flow = "vanilla" /\ Row("done", "check", <<"AllInputs">>, <<>>)
        \/ flow = "soldering" /\ Row("base", "check", <<"SolderingProof">>, <<>>)
        \/ flow = "soldering" /\ Row("done", "check", <<"SolderingProof", "BaseInput">>, <<>>)
    BY <1>17, <1>1, <1>2, <1>3, <1>4, <1>6, ShortQueues
    DEF CheckEnds, Next1, OpeningRows, VanillaRows, SolderingRows, Row
  <2>2. Ke' = Ke
    BY <1>17, <1>6 DEF CheckEnds
  <2>3. Kg' = Kg
    BY <1>17, <1>6 DEF CheckEnds
  <2>4. epc' = (IF flow = "vanilla" THEN "inputs" ELSE "proof") /\ gpc' = gpc
    BY <1>17, <1>1 DEF CheckEnds, garbler
  <2>5. \/ flow = "vanilla" /\ Row("join", "inputs", <<>>, <<>>)'
        \/ flow = "vanilla" /\ Row("done", "inputs", <<"AllInputs">>, <<>>)'
        \/ flow = "soldering" /\ Row("join", "proof", <<>>, <<>>)'
        \/ flow = "soldering" /\ Row("base", "proof", <<"SolderingProof">>, <<>>)'
        \/ flow = "soldering" /\ Row("done", "proof", <<"SolderingProof", "BaseInput">>, <<>>)'
    BY <1>1, <1>6, <2>1, <2>2, <2>3, <2>4 DEF Row
  <2> QED
    BY <1>1, <2>5 DEF OpeningRows, VanillaRows, SolderingRows
<1>18. CASE EvaluatorEvaluates
  <2>1. \/ Row("done", "inputs", <<"AllInputs">>, <<>>)
    BY <1>18, <1>1, <1>2, <1>3, <1>4, <1>6, ShortQueues
    DEF EvaluatorEvaluates, Next1, OpeningRows, VanillaRows, SolderingRows, Row
  <2>2. epc' = "done"
    <3>1. finalized \in SUBSET Instances /\ \A i \in finalized : file[i] = Ciphertexts
      BY <1>18, <1>1 DEF EvaluatorEvaluates, Inv, Checking, Checked, Control
    <3>2. PICK value \in Values : Head(g2e).body = [i \in finalized |-> input_for(i, value)]
      BY <1>18, HeadToEvaluator DEF EvaluatorEvaluates, Next1, Inv
    <3>3. \A i \in finalized : EvaluatesToCommit(i, input_for(i, value))
      BY <1>1, <3>1, TrueInputEvaluates
    <3> QED
      BY <1>18, <3>2, <3>3 DEF EvaluatorEvaluates, evaluate_from
  <2>3. Ke' = Ke
    BY <1>18, <1>6 DEF EvaluatorEvaluates, evaluate_from
  <2>4. Kg' = Tail(Kg)
    <3>1. g2e # <<>> /\ g2e' = Tail(g2e)
      BY <1>18 DEF EvaluatorEvaluates, Next1
    <3> QED
      BY <3>1, <1>3, <1>4, <1>6
  <2>5. epc' = "done" /\ gpc' = gpc
    BY <1>18, <1>1, <2>2 DEF EvaluatorEvaluates, evaluate_from, garbler
  <2>6. Tail(<<"AllInputs">>) = <<>>
    BY ShortQueues
  <2>7. \/ Row("done", "done", <<>>, <<>>)'
    BY <1>1, <1>6, <2>1, <2>3, <2>4, <2>5, <2>6 DEF Row
  <2> QED
    BY <1>1, <2>7 DEF OpeningRows, VanillaRows, SolderingRows
<1>19. CASE EvaluatorVerifiesSoldering
  <2>1. \/ flow = "soldering" /\ Row("base", "proof", <<"SolderingProof">>, <<>>)
        \/ flow = "soldering" /\ Row("done", "proof", <<"SolderingProof", "BaseInput">>, <<>>)
    BY <1>19, <1>1, <1>2, <1>3, <1>4, <1>6, ShortQueues
    DEF EvaluatorVerifiesSoldering, Next1, OpeningRows, VanillaRows, SolderingRows, Row
  <2>2. epc' = "base"
    <3>1. finalized \in SUBSET Instances /\ finalized # {}
      BY <1>19 DEF EvaluatorVerifiesSoldering, Inv, Control, Ended
    <3>2. Head(g2e).body = do_soldering(finalized)
      BY <1>19, HeadToEvaluator DEF EvaluatorVerifiesSoldering, Next1, Inv
    <3>3. Accepted(finalized)
      BY <1>1, <3>1, HonestAccepted
    <3> QED
      BY <1>19, <3>2, <3>3 DEF EvaluatorVerifiesSoldering, Accepted
  <2>3. Ke' = Ke
    BY <1>19, <1>6 DEF EvaluatorVerifiesSoldering
  <2>4. Kg' = Tail(Kg)
    <3>1. g2e # <<>> /\ g2e' = Tail(g2e)
      BY <1>19 DEF EvaluatorVerifiesSoldering, Next1
    <3> QED
      BY <3>1, <1>3, <1>4, <1>6
  <2>5. epc' = "base" /\ gpc' = gpc
    BY <1>19, <1>1, <2>2 DEF EvaluatorVerifiesSoldering, garbler
  <2>6. /\ Tail(<<"SolderingProof">>) = <<>>
        /\ Tail(<<"SolderingProof", "BaseInput">>) = <<"BaseInput">>
    BY ShortQueues
  <2>7. \/ flow = "soldering" /\ Row("base", "base", <<>>, <<>>)'
        \/ flow = "soldering" /\ Row("done", "base", <<"BaseInput">>, <<>>)'
    BY <1>1, <1>6, <2>1, <2>3, <2>4, <2>5, <2>6 DEF Row
  <2> QED
    BY <1>1, <2>7 DEF OpeningRows, VanillaRows, SolderingRows
<1>20. CASE EvaluatorEvaluatesSoldered
  <2>1. \/ flow = "soldering" /\ Row("done", "base", <<"BaseInput">>, <<>>)
    BY <1>20, <1>1, <1>2, <1>3, <1>4, <1>6, ShortQueues
    DEF EvaluatorEvaluatesSoldered, Next1, OpeningRows, VanillaRows, SolderingRows, Row
  <2>2. epc' = "done"
    <3> DEFINE indexes == Indexes(finalized)
               cases(value) == soldered_cases(input_for(Base, value), indexes, soldered.deltas)
    <3>1. /\ finalized \in SUBSET Instances /\ finalized # {}
          /\ \A i \in finalized : file[i] = Ciphertexts
          /\ soldered.deltas = TrueDeltas(finalized)
      BY <1>20, <1>1
         DEF EvaluatorEvaluatesSoldered, Inv, Checking, Checked, Control, Ended, Soldered
    <3>2. Head(indexes) = Base /\ Base \in finalized
      BY <3>1, HeadAndTail DEF Base
    <3>3. PICK value \in Values : Head(g2e).body = base_case(finalized, value)
      BY <1>20, HeadToEvaluator DEF EvaluatorEvaluatesSoldered, Next1, Inv
    <3>4. Head(g2e).body = [index |-> Base, input |-> input_for(Base, value)]
      BY <3>2, <3>3 DEF base_case
    <3>5. DOMAIN cases(value) = finalized
      BY <3>1, SolderedCases
    <3>6. input_for(Base, value) = TrueInput(Base, value)
      BY <1>1, <3>1, <3>2, TrueInputEvaluates
    <3>7. \A i \in finalized : EvaluatesToCommit(i, cases(value)[i])
      <4>1. \A i \in finalized : cases(value)[i] = TrueInput(i, value)
        BY <3>1, <3>6, TrueDeltasCarry DEF Base
      <4>2. \A i \in finalized : EvaluatesToCommit(i, TrueInput(i, value))
        BY <1>1, <3>1, TrueInputEvaluates
      <4> QED
        BY <4>1, <4>2
    <3>8. evaluate_from(cases(value))
      BY <1>20, <3>2, <3>4 DEF EvaluatorEvaluatesSoldered
    <3> QED
      BY <3>5, <3>7, <3>8 DEF evaluate_from
  <2>3. Ke' = Ke
    BY <1>20, <1>6 DEF EvaluatorEvaluatesSoldered, evaluate_from
  <2>4. Kg' = Tail(Kg)
    <3>1. g2e # <<>> /\ g2e' = Tail(g2e)
      BY <1>20 DEF EvaluatorEvaluatesSoldered, Next1
    <3> QED
      BY <3>1, <1>3, <1>4, <1>6
  <2>5. epc' = "done" /\ gpc' = gpc
    BY <1>20, <1>1, <2>2 DEF EvaluatorEvaluatesSoldered, evaluate_from, garbler
  <2>6. Tail(<<"BaseInput">>) = <<>>
    BY ShortQueues
  <2>7. \/ flow = "soldering" /\ Row("done", "done", <<>>, <<>>)'
    BY <1>1, <1>6, <2>1, <2>3, <2>4, <2>5, <2>6 DEF Row
  <2> QED
    BY <1>1, <2>7 DEF OpeningRows, VanillaRows, SolderingRows
<1>21. CASE EvaluatorRecvFails
  <2>1. OpeningRows \/ VanillaRows \/ SolderingRows
    BY <1>2
  <2>2. FALSE
    BY <1>21, <1>1, <1>3, <1>6, <2>1, ShortQueues
       DEF EvaluatorRecvFails, EvaluatorGone, GarblerGone, Ended, OpeningRows, VanillaRows,
       SolderingRows, Row
  <2> QED
    BY <2>2
<1>22. CASE \E i \in Instances : StreamCiphertext(i)
  BY <1>22, <1>5 DEF StreamCiphertext, given, answers, streams, garbler, check
<1>23. CASE \E i \in Instances : StreamEnds(i)
  BY <1>23, <1>5 DEF StreamEnds, given, answers, streams, garbler, check
<1>24. CASE \E i \in Instances : StartTask(i)
  BY <1>24, <1>5 DEF StartTask, given, answers, streams, garbler, check
<1>25. CASE \E i \in Instances : DrainOne(i)
  BY <1>25, <1>5 DEF DrainOne, given, answers, streams, garbler, check
<1>26. CASE \E i \in Instances : EndDrain(i)
  BY <1>26, <1>5 DEF EndDrain, given, answers, streams, garbler, check
<1>27. CASE \E i \in Instances : Regarble(i)
  BY <1>27, <1>5 DEF Regarble, given, answers, streams, garbler, check
<1>28. CASE GarblerCrash
  BY <1>28, <1>1 DEF GarblerCrash
<1>29. CASE EvaluatorCrash
  BY <1>29, <1>1 DEF EvaluatorCrash
<1>30. CASE UNCHANGED vars
  BY <1>30, <1>5 DEF vars
<1>31. QED
  BY <1>7, <1>8, <1>9, <1>10, <1>11, <1>12, <1>13, <1>14, <1>15, <1>16, <1>17, <1>18, <1>19,
     <1>20, <1>21, <1>22, <1>23, <1>24, <1>25, <1>26, <1>27, <1>28, <1>29, <1>30
     DEF Next, GarblerStep, EvaluatorStep, StreamStep, WorkerStep

-----------------------------------------------------------------------------
(* The inductive invariant.                                               *)
IInv == Inv /\ Soldered /\ Evaluated /\ NoError /\ Lockstep

(* The inductive invariant holds when both programs start.                 *)
LEMMA InitInv ==
  ASSUME Init
  PROVE  IInv
<1>1. Given
  BY DEF Init, Given
<1>2. Control
  BY DEF Init, Control, Generating, Before, Ended
<1>3. Queues
  BY DEF Init, Queues
<1>4. Opening
  BY DEF Init, Opening
<1>5. Streaming
  <2>1. \A i \in Instances : StreamLength(i) >= 0
    BY CutAssumption DEF StreamLength
  <2>2. 0 \in 0 .. StreamBound
    BY CutAssumption
  <2> QED
    BY <2>1, <2>2 DEF Init, Streaming
<1>6. Checking
  BY DEF Init, Checking
<1>7. Soldered /\ Evaluated /\ NoError
  BY DEF Init, Soldered, Evaluated, NoError
<1>8. Lockstep
  <2>1. Kinds(<<>>) = <<>>
    <3>1. <<>> \in Seq({})
      BY EmptySeq
    <3> QED
      BY <3>1, KindsMove
  <2> QED
    BY <2>1 DEF Init, Lockstep, OpeningRows, Row
<1> QED
  BY <1>1, <1>2, <1>3, <1>4, <1>5, <1>6, <1>7, <1>8 DEF IInv, Inv

(* And every step of a thread preserves it.                                *)
LEMMA NextInv ==
  ASSUME IInv, [Next]_vars
  PROVE  IInv'
<1>1. Inv /\ Soldered /\ Evaluated /\ NoError /\ Lockstep
  BY DEF IInv
<1>2. Given' /\ Control' /\ Queues'
  BY <1>1, NextGiven, NextControl, NextQueues DEF Inv
<1>3. Opening' /\ Streaming' /\ Checking'
  BY <1>1, NextOpening, NextStreaming, NextChecking
<1>4. Soldered' /\ Evaluated' /\ NoError' /\ Lockstep'
  BY <1>1, NextSoldered, NextEvaluated, NextNoError, NextLockstep
<1> QED
  BY <1>2, <1>3, <1>4 DEF IInv, Inv

(* In every run, whatever fails: the inductive invariant of the setup.     *)
THEOREM Invariance == Spec => []IInv
<1>1. Init => IInv
  BY InitInv
<1>2. IInv /\ [Next]_vars => IInv'
  BY NextInv
<1> QED
  BY <1>1, <1>2, PTL DEF Spec
-----------------------------------------------------------------------------
(* After the check the seeds are those of all instances but the sealed     *)
(* ones, and there are sealed ones.                                        *)
LEMMA RegarbledMeans ==
  ASSUME Inv, regarbled
  PROVE  seeds = Instances \ finalized /\ finalized \in SUBSET Instances /\ finalized # {}
<1>1. 1 \in Instances
  BY CutAssumption DEF Instances
<1>2. Opened
  BY <1>1 DEF Inv, Checking, Opening
<1> QED
  BY <1>2 DEF Opened, Inv, Control, Sealed, Generating

(* The labels of an instance are labels.                                   *)
LEMMA LabelTypes ==
  ASSUME NEW i \in Instances, NEW w \in Wires
  PROVE  input_labels_for(i)[w].label0 \in Labels /\ input_labels_for(i)[w].label1 \in Labels
<1>1. /\ input_labels_for(i)[w].label0 = {<<i, w>>}
      /\ input_labels_for(i)[w].label1 = XOR({<<i, w>>}, {<<i, 0>>})
  BY DEF input_labels_for, Offset
<1>2. <<i, w>> \in (0 .. Total) \X (0 .. NumInputs) /\ <<i, 0>> \in (0 .. Total) \X (0 .. NumInputs)
  BY CutAssumption DEF Instances, Wires
<1> QED
  BY <1>1, <1>2 DEF Labels, XOR, SymDiff

(* What is sent as an input is one.                                        *)
LEMMA InputTypes ==
  ASSUME NEW i \in Instances, NEW value \in Values
  PROVE  input_for(i, value) \in Input
<1>1. ASSUME NEW w \in Wires
      PROVE  select(CrossedIf(i, "input")[w], value[w]) \in Labels /\ value[w] \in BOOLEAN
  BY LabelTypes DEF select, CrossedIf, Crossed, Values
<1> QED
  BY <1>1 DEF input_for, Input

(* What is sent as deltas, and what is kept of it, are deltas.             *)
LEMMA DeltaTypes ==
  ASSUME NEW S \in SUBSET Instances, S # {}
  PROVE  do_soldering(S).deltas \in Deltas /\ TrueDeltas(S) \in Deltas
<1> DEFINE D == [Wires -> [delta0 : Labels, delta1 : Labels]]
<1>1. \A a, b \in Labels : XOR(a, b) \in Labels
  BY DEF XOR, SymDiff, Labels
<1>2. Cardinality(S) - 1 \in Nat /\ \A k \in Others(S) : Indexes(S)[k + 1] \in S
  BY HeadAndTail
<1>3. Indexes(S)[1] \in S
  BY HeadAndTail
<1>4. ASSUME NEW k \in Others(S) PROVE TrueDelta(S, k) \in D
  BY <1>1, <1>2, <1>3, LabelTypes DEF TrueDelta
<1>5. ASSUME NEW i \in Instances, NEW w \in Wires
      PROVE  CrossedIf(i, "guest")[w].label0 \in Labels /\ CrossedIf(i, "guest")[w].label1 \in Labels
  BY LabelTypes DEF CrossedIf, Crossed
<1>6. ASSUME NEW k \in Others(S) PROVE GuestDelta(S, k) \in D
  BY <1>1, <1>2, <1>3, <1>5 DEF GuestDelta, GuestLabels
<1>7. ASSUME NEW k \in Others(S) PROVE SentDelta(S, k) \in D
  <2>1. GuestDelta(S, k) \in D
    BY <1>6
  <2>2. CrossedDelta(GuestDelta(S, k)) \in D
    BY <2>1 DEF CrossedDelta
  <2> QED
    BY <2>1, <2>2 DEF SentDelta
<1> HIDE DEF D
<1>8. \A f : f \in [Others(S) -> D] => f \in Seq(D)
  BY <1>2, SeqDef DEF Others
<1>9. TrueDeltas(S) \in Seq(D)
  BY <1>4, <1>8 DEF TrueDeltas
<1>10. do_soldering(S).deltas \in Seq(D)
  <2>1. do_soldering(S).deltas = [k \in Others(S) |-> SentDelta(S, k)]
    BY DoSoldering
  <2> QED
    BY <1>7, <1>8, <2>1
<1> QED
  BY <1>9, <1>10 DEF D, Deltas

(* Every message on the way has the body of its kind.                      *)
LEMMA MessageTypes ==
  ASSUME Inv
  PROVE  /\ \A j \in DOMAIN g2e : Message(g2e[j])
         /\ \A j \in DOMAIN e2g : Message(e2g[j])
<1>1. ASSUME NEW m \in ToEvaluator PROVE Message(m)
  <2>1. stage # Generating => stage = Sealed /\ finalized \in SUBSET Instances /\ finalized # {}
    BY DEF Inv, Control
  <2>2. CASE m \in Commits
    <3>1. m.kind \in {"Commit1", "Commit2"} /\ m.body = {}
      BY <2>2 DEF Commits
    <3> QED
      BY <3>1 DEF Message
  <2>3. CASE stage # Generating /\ m = Seeds
    BY <2>3 DEF Seeds, Message
  <2>4. CASE stage # Generating /\ m \in InputMessages
    <3>1. PICK value \in Values :
             m = [kind |-> "AllInputs", body |-> [i \in finalized |-> input_for(i, value)]]
      BY <2>4 DEF InputMessages
    <3>2. stage.finalized = finalized /\ finalized \in SUBSET Instances
      BY <2>1, <2>4 DEF Sealed
    <3>3. \A i \in finalized : input_for(i, value) \in Input
      BY <3>2, InputTypes
    <3>4. m.body \in [stage.finalized -> Input]
      BY <3>1, <3>2, <3>3
    <3> QED
      BY <3>1, <3>4 DEF Message
  <2>5. CASE stage # Generating /\ m = ProofMessage
    BY <2>1, <2>5, DeltaTypes DEF ProofMessage, Message
  <2>6. CASE stage # Generating /\ m \in BaseMessages
    <3>1. PICK value \in Values : m = [kind |-> "BaseInput", body |-> base_case(finalized, value)]
      BY <2>6 DEF BaseMessages
    <3>2. Head(Indexes(finalized)) \in Instances
      BY <2>1, <2>6, HeadAndTail
    <3>3. base_case(finalized, value) \in [index : Instances, input : Input]
      BY <3>2, InputTypes DEF base_case
    <3> QED
      BY <3>1, <3>3 DEF Message
  <2> QED
    BY <2>2, <2>3, <2>4, <2>5, <2>6 DEF ToEvaluator
<1>2. ASSUME NEW m \in ToGarbler PROVE Message(m)
  <2>1. CASE m = [kind |-> "Commit2Nonce", body |-> {}]
    <3>1. m.kind = "Commit2Nonce" /\ m.body = {}
      BY <2>1
    <3> QED
      BY <3>1 DEF Message
  <2>2. CASE m = [kind |-> "FinalizeChallenge", body |-> finalized]
    <3>1. m.kind = "FinalizeChallenge" /\ m.body \subseteq Instances
      BY <2>2 DEF Inv, Control
    <3> QED
      BY <3>1 DEF Message
  <2> QED
    BY <2>1, <2>2 DEF ToGarbler
<1>3. /\ \A j \in DOMAIN g2e : g2e[j] \in ToEvaluator
      /\ \A j \in DOMAIN e2g : e2g[j] \in ToGarbler
  BY LenProperties DEF Inv, Queues
<1> QED
  BY <1>1, <1>2, <1>3

(* Results are values of the circuit's input.                              *)
LEMMA ResultTypes ==
  ASSUME IInv
  PROVE  DOMAIN results \subseteq Instances /\ Range(results) \subseteq [Wires -> BOOLEAN]
<1>1. CASE results = <<>>
  <2>1. DOMAIN results = {}
    BY <1>1
  <2> QED
    BY <2>1 DEF Range
<1>2. CASE results # <<>>
  <2>1. PICK value \in Values : results = [i \in finalized |-> value]
    BY <1>2 DEF IInv, Evaluated
  <2> QED
    BY <2>1 DEF Range, Values, IInv, Inv, Control
<1> QED
  BY <1>1, <1>2

(* Every variable of the setup has its type: in particular no file,        *)
(* channel or thread holds more ciphertexts than the stream has or         *)
(* STREAM_BOUND_CIPHERTEXTS allows, and every message has the body its     *)
(* receiver expects.                                                       *)
THEOREM TypeCorrect == Spec => []TypeOK
<1>1. IInv => TypeOK
  <2> SUFFICES ASSUME IInv PROVE TypeOK
    OBVIOUS
  <2>1. /\ gpc \in {"commit1", "nonce", "challenge", "join", "base"} \cup Ended
        /\ epc \in {"commit1", "commit2", "seeds", "check", "inputs", "proof", "base"} \cup Ended
        /\ stage \in [name : {"Generating", "PreparedForEval"}, finalized : SUBSET Instances]
        /\ finalized \subseteq Instances /\ seeds \subseteq Instances
    BY DEF IInv, Inv, Control, Opening, Opened, Sealed, Generating
  <2>2. /\ thread \in [Instances -> {"idle", "running", "ended"}]
        /\ sent \in [Instances -> 0 .. Ciphertexts]
        /\ flight \in [Instances -> 0 .. StreamBound]
        /\ file \in [Instances -> 0 .. Ciphertexts]
    BY StreamBounds DEF IInv, Inv, Streaming
  <2>3. /\ \A j \in DOMAIN g2e : Message(g2e[j])
        /\ \A j \in DOMAIN e2g : Message(e2g[j])
    BY MessageTypes DEF IInv
  <2>4. soldered \in [name : {"Vanilla", "Soldered"}, deltas : Deltas]
    <3>1. CASE soldered = [name |-> "Vanilla", deltas |-> <<>>]
      BY <3>1 DEF Deltas
    <3>2. CASE soldered = [name |-> "Soldered", deltas |-> TrueDeltas(finalized)] /\ regarbled
      <4>1. finalized \in SUBSET Instances /\ finalized # {}
        BY <3>2, RegarbledMeans DEF IInv
      <4> QED
        BY <3>2, <4>1, DeltaTypes
    <3> QED
      BY <3>1, <3>2 DEF IInv, Soldered
  <2>5. /\ task \in [Instances -> {"todo", "busy", "ok", "err"}]
        /\ regarbled \in BOOLEAN
        /\ pool \in PoolSizes
    BY DEF IInv, Inv, Checking, Given
  <2> QED
    BY <2>1, <2>2, <2>3, <2>4, <2>5, ResultTypes DEF TypeOK
<1> QED
  BY <1>1, Invariance, PTL

(* Between the streaming thread's `send` and the worker's file no          *)
(* ciphertext of any instance is lost or doubled, whatever the bound of    *)
(* the channel and whoever panics.                                         *)
THEOREM NothingLost == Spec => []StreamConserved
<1>1. IInv => StreamConserved
  BY DEF IInv, Inv, Streaming, StreamConserved
<1> QED
  BY <1>1, Invariance, PTL

(* `open_commit` never gives away the seed of an instance that is          *)
(* streamed, kept for evaluation or evaluated, not even in a message still *)
(* on the way, and both sides seal the same instances.                     *)
THEOREM SeedsSealed == Spec => []SeedsStaySealed
<1>1. IInv => SeedsStaySealed
  <2> SUFFICES ASSUME IInv PROVE SeedsStaySealed
    OBVIOUS
  <2>1. ASSUME NEW i \in Revealed PROVE stage = Sealed /\ i \in Instances \ finalized
    <3>1. CASE i \in seeds
      BY <3>1 DEF IInv, Inv, Opening, Opened
    <3>2. CASE \E j \in DOMAIN g2e : g2e[j].kind = "OpenSeeds" /\ i \in g2e[j].body
      <4>1. PICK j \in DOMAIN g2e : g2e[j].kind = "OpenSeeds" /\ i \in g2e[j].body
        BY <3>2
      <4>2. g2e[j] \in ToEvaluator
        BY LenProperties DEF IInv, Inv, Queues
      <4>3. stage # Generating /\ g2e[j] = Seeds
        BY <4>1, <4>2 DEF ToEvaluator, Commits, InputMessages, ProofMessage, BaseMessages
      <4> QED
        BY <4>1, <4>3 DEF Seeds, IInv, Inv, Control
    <3> QED
      BY <3>1, <3>2 DEF Revealed
  <2>2. \A i \in Revealed : thread[i] = "idle" /\ i \notin finalized
    BY <2>1 DEF IInv, Inv, Streaming
  <2>3. stage.name = "PreparedForEval" => stage.finalized = finalized
    BY DEF IInv, Inv, Control, Generating, Sealed
  <2>4. DOMAIN results \cap Revealed = {}
    <3>1. DOMAIN results \subseteq finalized
      BY DEF IInv, Evaluated
    <3> QED
      BY <2>1, <3>1
  <2> QED
    BY <2>2, <2>3, <2>4 DEF SeedsStaySealed
<1> QED
  BY <1>1, Invariance, PTL

(* Garbler and Evaluator of any size, when nothing is wrong with any       *)
(* instance and no thread crashes, never panic: every `expect` of the two  *)
(* programs holds.                                                         *)
THEOREM Honesty == Spec => []HonestNeverPanics
<1>1. IInv => HonestNeverPanics
  <2> SUFFICES ASSUME IInv, Honest PROVE gpc # "panicked" /\ epc # "panicked"
    BY DEF HonestNeverPanics, Honest
  <2>1. OpeningRows \/ VanillaRows \/ SolderingRows
    BY DEF IInv, Lockstep
  <2> QED
    BY <2>1 DEF OpeningRows, VanillaRows, SolderingRows, Row
<1> QED
  BY <1>1, Invariance, PTL

(* True deltas carry every committed label of the base to that of the same *)
(* bit of each instance.                                                   *)
LEMMA SolderingHolds ==
  ASSUME NEW S \in SUBSET Instances, S # {}, finalized = S, soldered.deltas = TrueDeltas(S),
         \A i \in S : fault[i] # "labels", NEW i \in S
  PROVE  Soldering(i)
<1> DEFINE indexes == Indexes(finalized)
           b == Indexes(S)[1]
           input(bit) == [w \in Wires |->
              [active_label |-> commit_for_value(FirstCommit[Head(indexes)][w], bit).sha256,
               value |-> bit]]
<1>1. Head(indexes) = b /\ b \in S /\ b \in Instances /\ i \in Instances
  BY HeadAndTail
<1>2. ASSUME NEW bit \in BOOLEAN
      PROVE  LET carried == soldered_cases(input(bit), indexes, soldered.deltas)[i]
             IN \A w \in Wires :
                  hash_label(carried[w].active_label) = commit_for_value(FirstCommit[i][w], bit)
  <2> DEFINE value == [w \in Wires |-> bit]
             carried == soldered_cases(input(bit), indexes, soldered.deltas)[i]
  <2>1. value \in Values /\ \A w \in Wires : value[w] = bit
    BY DEF Values
  <2>2. \A w \in Wires : commit_for_value(FirstCommit[b][w], bit).sha256
                           = select(input_labels_for(b)[w], bit)
    <3>1. \A x : hash_label(x).sha256 = x
      BY DEF hash_label
    <3>2. \A w \in Wires : commit_for_value(FirstCommit[b][w], bit)
                             = hash_label(select(input_labels_for(b)[w], bit))
      BY <1>1, HashesTo
    <3> QED
      BY <3>1, <3>2
  <2>3. input(bit) = TrueInput(b, value)
    BY <1>1, <2>1, <2>2 DEF TrueInput
  <2> HIDE DEF value
  <2>4. carried = TrueInput(i, value)
    BY <2>1, <2>3, TrueDeltasCarry
  <2>5. ASSUME NEW w \in Wires
        PROVE  hash_label(carried[w].active_label) = commit_for_value(FirstCommit[i][w], bit)
    <3>1. carried[w].active_label = select(input_labels_for(i)[w], bit)
      BY <2>1, <2>4 DEF TrueInput
    <3> QED
      BY <1>1, <3>1, HashesTo
  <2> QED
    BY <2>5
<1> QED
  BY <1>2 DEF Soldering

(* `full_check_commit` and `verify_soldering_against_commits` accept only  *)
(* what evaluation relies on: opened instances that garble to both         *)
(* commitments, sealed ones whose whole stream is on disk with its         *)
(* committed hash, and deltas that turn any committed label of the base    *)
(* into that of the same bit.                                              *)
THEOREM Acceptance == Spec => []AcceptedSound
<1>1. IInv => AcceptedSound
  <2> SUFFICES ASSUME IInv PROVE AcceptedSound
    OBVIOUS
  <2>1. ASSUME regarbled
        PROVE  /\ seeds = Instances \ finalized
               /\ \A i \in seeds : fault[i] \notin {"hash", "labels", "second"}
               /\ \A i \in finalized : file[i] = Ciphertexts /\ fault[i] \notin {"hash", "stream"}
    <3>1. seeds = Instances \ finalized /\ finalized \subseteq Instances
      BY <2>1, RegarbledMeans DEF IInv
    <3>2. \A i \in Instances : Checked(i)
      BY <2>1 DEF IInv, Inv, Checking
    <3> QED
      BY <3>1, <3>2 DEF Checked
  <2>2. ASSUME soldered.name = "Soldered", NEW i \in finalized
        PROVE  regarbled /\ Soldering(i)
    <3>1. /\ regarbled /\ soldered.deltas = TrueDeltas(finalized)
          /\ \A j \in finalized : fault[j] # "labels"
      BY <2>2 DEF IInv, Soldered, OnlyTrue
    <3>2. finalized \in SUBSET Instances /\ finalized # {}
      BY <3>1, RegarbledMeans DEF IInv
    <3> QED
      BY <3>1, <3>2, SolderingHolds
  <2>3. soldered.name = "Soldered" => regarbled
    BY DEF IInv, Soldered
  <2> QED
    BY <2>1, <2>2, <2>3 DEF AcceptedSound
<1> QED
  BY <1>1, Invariance, PTL

(* `evaluate_from` gives results for all sealed instances or for none,     *)
(* after the check, for one and the same input, and only by the labels     *)
(* that were committed to.                                                 *)
THEOREM Evaluation == Spec => []EvaluatedSound
<1>1. IInv => EvaluatedSound
  <2> SUFFICES ASSUME IInv, results # <<>>
               PROVE  /\ regarbled
                      /\ DOMAIN results = finalized
                      /\ Cardinality(Range(results)) = 1
                      /\ LET base == Head(Indexes(finalized))
                         IN \A i \in finalized :
                              /\ fault[i] \notin {"hash", "labels", "stream", "guest"}
                              /\ fault[i] = "input" => flow = "soldering" /\ i # base
                              /\ fault[i] = "delta" => i = base
    BY DEF EvaluatedSound
  <2>1. /\ regarbled
        /\ \A i \in finalized :
             /\ fault[i] \notin {"labels", "guest"}
             /\ fault[i] = "input" => flow = "soldering" /\ i # Base
             /\ fault[i] = "delta" => i = Base
    BY DEF IInv, Evaluated
  <2>2. PICK value \in Values : results = [i \in finalized |-> value]
    BY DEF IInv, Evaluated
  <2>3. finalized \in SUBSET Instances /\ finalized # {}
    BY <2>1, RegarbledMeans DEF IInv
  <2>4. Cardinality(Range(results)) = 1
    <3>1. Range(results) = {value}
      BY <2>2, <2>3 DEF Range
    <3> QED
      BY <3>1, FS_Singleton
  <2>5. \A i \in finalized : fault[i] \notin {"hash", "stream"}
    BY <2>1, <2>3 DEF IInv, Inv, Checking, Checked
  <2>6. Head(Indexes(finalized)) = Base
    BY <2>3, HeadAndTail DEF Base
  <2> QED
    BY <2>1, <2>2, <2>4, <2>5, <2>6
<1> QED
  BY <1>1, Invariance, PTL
=============================================================================
