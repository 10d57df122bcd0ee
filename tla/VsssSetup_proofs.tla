------------------------- MODULE VsssSetup_proofs -------------------------
(***************************************************************************)
(* Whatever the number of instances, of wires and of threads, whatever an  *)
(* instance is at fault with (that no second one is, is not used), and     *)
(* whoever crashes: what `regarbled` stands for when it is set, and that   *)
(* the opened shares never suffice for a label not asserted.               *)
(*                                                                         *)
(* `regarbled` is set long after the checks it stands for, by other        *)
(* threads, and what they looked at could have changed in between.  The    *)
(* invariant says of every check that is passed what it has seen and that  *)
(* it is still so: the messages of either side name the challenge once     *)
(* made, nothing is opened before it, and only the worker of a stream, as  *)
(* long as it is busy, writes the stream's file.                           *)
(*                                                                         *)
(* That a fault is seen by a check is a matter of arithmetic.  It follows  *)
(* from SharingCorrect, which speaks of honest shares only and which TLC   *)
(* evaluates for the run: shares of which one is another number are not    *)
(* those that `verify` computes, a table under other keys or with other    *)
(* labels is another table.                                                *)
(*                                                                         *)
(* The last parts are about what follows an accepted garbling.  Claims     *)
(* says of the one claim, from its signatures in the queue to the labels   *)
(* and the results, that it is the asserted value's in every instance, and *)
(* needs that RegarbledSound holds by then.  Where the code relies on      *)
(* random numbers being distinct, the theorems do, as NoCoincidence and    *)
(* NoDegeneracy, and where it relies on interpolation, SharesInterpolate.  *)
(***************************************************************************)
EXTENDS VsssSetup, TLAPS, FiniteSetTheorems, WellFoundedInduction

(* The messages in a queue.                                                *)
Items(q) == {q[k] : k \in DOMAIN q}
IsQueue(q) == q \in Seq(Items(q))

(* Sending adds one message, receiving takes the first.                    *)
LEMMA Queues ==
  ASSUME NEW q, IsQueue(q)
  PROVE  /\ \A m : IsQueue(Append(q, m)) /\ Items(Append(q, m)) = Items(q) \cup {m}
         /\ q # <<>> => /\ IsQueue(Tail(q)) /\ Items(Tail(q)) \subseteq Items(q)
                        /\ Head(q) \in Items(q)
<1>1. ASSUME NEW m PROVE IsQueue(Append(q, m)) /\ Items(Append(q, m)) = Items(q) \cup {m}
  <2> DEFINE T == Items(q) \cup {m}
  <2>1. q \in Seq(T) /\ m \in T
    BY DEF IsQueue
  <2> HIDE DEF T
  <2>2. /\ Append(q, m) \in Seq(T) /\ Len(Append(q, m)) = Len(q) + 1 /\ Len(q) \in Nat
        /\ \A k \in 1 .. Len(q) + 1 : Append(q, m)[k] = IF k = Len(q) + 1 THEN m ELSE q[k]
    BY <2>1
  <2>3. DOMAIN Append(q, m) = 1 .. Len(q) + 1 /\ DOMAIN q = 1 .. Len(q)
    BY <2>1, <2>2
  <2>4. Items(Append(q, m)) = T
    <3>1. \A k \in DOMAIN Append(q, m) : Append(q, m)[k] \in T
      BY <2>2, <2>3
    <3>2. m \in Items(Append(q, m))
      <4>1. Len(q) + 1 \in DOMAIN Append(q, m) /\ Append(q, m)[Len(q) + 1] = m
        BY <2>2, <2>3
      <4> QED
        BY <4>1 DEF Items
    <3>3. ASSUME NEW k \in DOMAIN q PROVE q[k] \in Items(Append(q, m))
      <4>1. k \in DOMAIN Append(q, m) /\ Append(q, m)[k] = q[k]
        BY <2>2, <2>3
      <4> QED
        BY <4>1 DEF Items
    <3> QED
      BY <3>1, <3>2, <3>3 DEF Items, T
  <2> QED
    BY <2>2, <2>4 DEF IsQueue, T
<1>2. ASSUME q # <<>>
      PROVE  IsQueue(Tail(q)) /\ Items(Tail(q)) \subseteq Items(q) /\ Head(q) \in Items(q)
  <2>1. q \in Seq(Items(q)) /\ DOMAIN q = 1 .. Len(q) /\ Len(q) \in Nat /\ Len(q) > 0
    BY <1>2 DEF IsQueue
  <2>2. Head(q) \in Items(q)
    <3>1. 1 \in DOMAIN q /\ Head(q) = q[1]
      BY <1>2, <2>1
    <3> QED
      BY <3>1 DEF Items
  <2> DEFINE t == Tail(q)
  <2>3. /\ t \in Seq(Items(q)) /\ DOMAIN t = 1 .. Len(q) - 1
        /\ \A k \in 1 .. Len(q) - 1 : t[k] = q[k + 1]
    <3>1. t \in Seq(Items(q)) /\ Len(t) = Len(q) - 1
      BY <1>2, <2>1
    <3>2. DOMAIN t = 1 .. Len(t)
      BY <3>1
    <3>3. \A k \in 1 .. Len(q) - 1 : t[k] = q[k + 1]
      BY <1>2, <2>1
    <3> QED
      BY <3>1, <3>2, <3>3
  <2> HIDE DEF t
  <2>4. Items(t) \subseteq Items(q)
    BY <2>1, <2>3 DEF Items
  <2>5. t \in Seq(Items(t))
    <3>1. t = [k \in 1 .. Len(q) - 1 |-> t[k]] /\ Len(q) - 1 \in Nat
      BY <2>1, <2>3
    <3>2. \A k \in 1 .. Len(q) - 1 : t[k] \in Items(t)
      BY <2>3 DEF Items
    <3> QED
      BY <3>1, <3>2
  <2> QED
    BY <2>2, <2>4, <2>5 DEF IsQueue, t
<1> QED
  BY <1>1, <1>2

LEMMA EmptyQueue == IsQueue(<<>>) /\ Items(<<>>) = {}
BY DEF IsQueue, Items
-----------------------------------------------------------------------------
(* The evaluator's test of the commitments, in `create`.                   *)
AllVerify == \A l \in 1 .. NumLabels : verify(committed_shares(l), polynomial_commits[l])

(* Types.                                                                  *)
Kinded ==
  /\ fault \in [Instances -> FaultKinds]
  /\ gpc \in {"commit", "challenge", "join"} \cup Ended
  /\ epc \in {"commit", "open", "check", "assert", "extracted"} \cup Ended
  /\ stage \in [name : {"Generating", "PreparedForEval"}, finalized : SUBSET Instances]
  /\ thread \in [Instances -> {"idle", "running", "ended", "panicked"}]
  /\ sent \in [Instances -> Nat] /\ flight \in [Instances -> Nat] /\ file \in [Instances -> Nat]
  /\ finalized \subseteq Instances /\ opened \subseteq Instances
  /\ assert_index \in Instances
  /\ share_check \in {"todo", "ok", "err"}
  /\ task \in [Instances -> {"todo", "busy", "ok", "err"}]
  /\ IsQueue(g2e) /\ IsQueue(e2g)

(* A ciphertext that was sent is under way or in the file.                 *)
Streams ==
  \A i \in Instances :
    sent[i] = flight[i] + file[i] /\ sent[i] <= StreamLength(i) /\ flight[i] <= StreamBound

(* The sealed indexes are chosen once, after the commitments were tested.  *)
Chosen ==
  /\ epc = "commit" => finalized = {}
  /\ finalized # {} => Cardinality(finalized) = Finalize /\ AllVerify

(* What is said of them is said of that choice.                            *)
Messages ==
  /\ \A m \in Items(e2g) :
       m.kind = "FinalizeChallenge" => finalized # {} /\ m.body = finalized
  /\ \A m \in Items(g2e) :
       m.kind = "OpenInstances" => finalized # {} /\ m.body = Instances \ finalized

(* Opened is nothing, or all but the sealed.                               *)
Opening ==
  opened # {} \/ epc \in {"check", "assert", "extracted", "done"} \/ regarbled =>
    finalized # {} /\ opened = Instances \ finalized

(* A check that has been passed would still be passed.                     *)
Checks ==
  /\ epc \in {"commit", "open"} => share_check = "todo" /\ \A i \in Instances : task[i] = "todo"
  /\ share_check = "ok" => SharesMatch
  /\ \A i \in Instances :
       task[i] = "ok" => IF i \in finalized THEN SealedMatches(i) ELSE OpenedMatches(i)
  /\ regarbled => share_check = "ok" /\ \A i \in Instances : task[i] = "ok"

IInv == Kinded /\ Streams /\ Chosen /\ Messages /\ Opening /\ Checks

(* What the constants are.                                                 *)
LEMMA Numbers ==
  /\ Total \in Nat /\ Finalize \in 1 .. Total /\ 0 \in Instances
  /\ Ciphertexts \in Nat \ {0} /\ StreamBound \in Nat \ {0}
  /\ IsFiniteSet(Instances) /\ Cardinality(Instances) = Total
<1>1. /\ Total \in Nat /\ Finalize \in 1 .. Total
      /\ Ciphertexts \in Nat \ {0} /\ StreamBound \in Nat \ {0}
  BY VsssAssumption
<1>2. 0 \in Instances
  BY <1>1 DEF Instances
<1>3. IsFiniteSet(Instances) /\ Cardinality(Instances) = Total
  BY <1>1, FS_Interval DEF Instances
<1> QED
  BY <1>1, <1>2, <1>3

(* The data of an instance is the same in every state, and so is what a    *)
(* check says of it, as long as what it reads is.                          *)
LEMMA Constant ==
  ASSUME UNCHANGED fault
  PROVE  /\ AllVerify' <=> AllVerify
         /\ opened' = opened => (SharesMatch' <=> SharesMatch)
         /\ \A i : file'[i] = file[i] => (SealedMatches(i)' <=> SealedMatches(i))
         /\ \A i : opened' = opened => (OpenedMatches(i)' <=> OpenedMatches(i))
         /\ \A i : StreamLength(i)' = StreamLength(i)
<1>1. \A i : /\ opened_shares(i)' = opened_shares(i)
             /\ committed_tables(i)' = committed_tables(i) /\ sent_tables(i)' = sent_tables(i)
             /\ StreamLength(i)' = StreamLength(i)
             /\ \A l : committed_share(l, i)' = committed_share(l, i)
  BY DEF opened_shares, committed_tables, sent_tables, committed_share, StreamLength
<1>2. \A l : committed_shares(l)' = committed_shares(l)
  BY <1>1 DEF committed_shares
<1>3. AllVerify' <=> AllVerify
  BY <1>2 DEF AllVerify
<1>4. opened' = opened => (SharesMatch' <=> SharesMatch)
  BY <1>1, <1>2 DEF SharesMatch
<1>5. \A i : file'[i] = file[i] => (SealedMatches(i)' <=> SealedMatches(i))
  BY <1>1 DEF SealedMatches
<1>6. \A i : opened' = opened => (OpenedMatches(i)' <=> OpenedMatches(i))
  BY <1>1 DEF OpenedMatches
<1> QED
  BY <1>1, <1>3, <1>4, <1>5, <1>6

(* Nothing has been chosen, sent, opened or checked at first.              *)
LEMMA Start == Init => IInv
<1> SUFFICES ASSUME Init PROVE IInv
  OBVIOUS
<1>1. fault \in [Instances -> FaultKinds]
  BY VsssAssumption DEF Init, FaultKinds
<1>2. \A i \in Instances : StreamLength(i) \in Nat
  BY Numbers DEF StreamLength
<1>3. Kinded
  BY <1>1, Numbers, EmptyQueue DEF Init, Kinded
<1>4. Streams
  BY <1>2, Numbers DEF Init, Streams
<1>5. Chosen /\ Messages /\ Opening /\ Checks
  BY EmptyQueue DEF Init, Chosen, Messages, Opening, Checks
<1> QED
  BY <1>3, <1>4, <1>5 DEF IInv

(* A send queues its message, or its sender panics.                        *)
LEMMA Sent ==
  ASSUME Kinded, NEW m, NEW next
  PROVE  /\ GarblerSends(m, next) =>
              /\ IsQueue(g2e') /\ Items(g2e') \subseteq Items(g2e) \cup {m}
              /\ gpc' \in {next, "panicked"}
         /\ EvaluatorSends(m, next) =>
              /\ IsQueue(e2g') /\ Items(e2g') \subseteq Items(e2g) \cup {m}
              /\ epc' \in {next, "panicked"}
<1>1. IsQueue(g2e) /\ IsQueue(e2g)
  BY DEF Kinded
<1>2. /\ IsQueue(Append(g2e, m)) /\ Items(Append(g2e, m)) = Items(g2e) \cup {m}
      /\ IsQueue(Append(e2g, m)) /\ Items(Append(e2g, m)) = Items(e2g) \cup {m}
  BY <1>1, Queues
<1>3. ASSUME GarblerSends(m, next)
      PROVE  /\ IsQueue(g2e') /\ Items(g2e') \subseteq Items(g2e) \cup {m}
             /\ gpc' \in {next, "panicked"}
  <2>1. \/ g2e' = Append(g2e, m) /\ gpc' = next
        \/ g2e' = g2e /\ gpc' = "panicked"
    BY <1>3 DEF GarblerSends
  <2> QED
    BY <1>1, <1>2, <2>1
<1>4. ASSUME EvaluatorSends(m, next)
      PROVE  /\ IsQueue(e2g') /\ Items(e2g') \subseteq Items(e2g) \cup {m}
             /\ epc' \in {next, "panicked"}
  <2>1. \/ e2g' = Append(e2g, m) /\ epc' = next
        \/ e2g' = e2g /\ epc' = "panicked"
    BY <1>4 DEF EvaluatorSends
  <2> QED
    BY <1>1, <1>2, <2>1
<1> QED
  BY <1>3, <1>4

(* A received message is one that was sent.                                *)
LEMMA Taken ==
  ASSUME Kinded, NEW kind
  PROVE  /\ Arrived(g2e, kind) /\ g2e' = Tail(g2e) =>
              /\ IsQueue(g2e') /\ Items(g2e') \subseteq Items(g2e)
              /\ Head(g2e) \in Items(g2e) /\ Head(g2e).kind = kind
         /\ Arrived(e2g, kind) /\ e2g' = Tail(e2g) =>
              /\ IsQueue(e2g') /\ Items(e2g') \subseteq Items(e2g)
              /\ Head(e2g) \in Items(e2g) /\ Head(e2g).kind = kind
<1>1. /\ g2e # <<>> => /\ IsQueue(Tail(g2e)) /\ Items(Tail(g2e)) \subseteq Items(g2e)
                       /\ Head(g2e) \in Items(g2e)
      /\ e2g # <<>> => /\ IsQueue(Tail(e2g)) /\ Items(Tail(e2g)) \subseteq Items(e2g)
                       /\ Head(e2g) \in Items(e2g)
  BY Queues DEF Kinded
<1> QED
  BY <1>1 DEF Arrived

(* Every step of either party and of their threads keeps the invariant.    *)
LEMMA StepGarblerCommits ==
  ASSUME IInv, GarblerCommits PROVE IInv'
<1>0. UNCHANGED fault
  BY DEF GarblerCommits, given
<1>1. Kinded'
  <2>1. IsQueue(g2e') /\ gpc' \in {"challenge", "panicked"}
    BY Sent DEF IInv, GarblerCommits
  <2> QED
    BY <1>0, <2>1 DEF IInv, GarblerCommits, Kinded, streams, check, chosen, Ended
<1>2. Streams'
  BY <1>0, Constant DEF IInv, GarblerCommits, Streams, streams, check
<1>3. Chosen'
  BY <1>0, Constant DEF IInv, GarblerCommits, Chosen, chosen
<1>4. Messages'
  <2>1. Items(g2e') \subseteq Items(g2e) \cup {[kind |-> "Commit"]}
    BY Sent DEF IInv, GarblerCommits
  <2> QED
    BY <2>1 DEF IInv, GarblerCommits, Messages, chosen
<1>5. Opening'
  BY DEF IInv, GarblerCommits, Opening, chosen
<1>6. Checks'
  BY <1>0, Constant DEF IInv, GarblerCommits, Checks, check, chosen
<1> QED
  BY <1>1, <1>2, <1>3, <1>4, <1>5, <1>6 DEF IInv

LEMMA StepGarblerOpens ==
  ASSUME IInv, GarblerOpens PROVE IInv'
<1>0. UNCHANGED fault
  BY DEF GarblerOpens, given
<1>1. Kinded'
  <2>1. /\ IsQueue(e2g') /\ Head(e2g).body = finalized
        /\ stage' = [name |-> "PreparedForEval", finalized |-> Head(e2g).body]
        /\ IsQueue(g2e') /\ gpc' \in {"join", "panicked"}
    BY Sent, Taken DEF IInv, GarblerOpens, SendOpening, Messages
  <2> QED
    BY <1>0, <2>1 DEF IInv, GarblerOpens, Kinded, check, chosen, Ended
<1>2. Streams'
  BY <1>0, Constant DEF IInv, GarblerOpens, Streams, check
<1>3. Chosen'
  BY <1>0, Constant DEF IInv, GarblerOpens, Chosen, chosen
<1>4. Messages'
  <2> DEFINE m == [kind |-> "OpenInstances", body |-> Instances \ Head(e2g).body]
  <2>1. /\ Items(e2g') \subseteq Items(e2g) /\ Items(g2e') \subseteq Items(g2e) \cup {m}
        /\ Head(e2g).body = finalized /\ finalized # {}
    BY Sent, Taken DEF IInv, GarblerOpens, SendOpening, Messages
  <2>2. m.body = Instances \ finalized /\ finalized' = finalized
    BY <2>1 DEF GarblerOpens, chosen
  <2> HIDE DEF m
  <2> QED
    BY <2>1, <2>2 DEF IInv, Messages
<1>5. Opening'
  BY DEF IInv, GarblerOpens, Opening, chosen
<1>6. Checks'
  BY <1>0, Constant DEF IInv, GarblerOpens, Checks, check, chosen
<1> QED
  BY <1>1, <1>2, <1>3, <1>4, <1>5, <1>6 DEF IInv

LEMMA StepGarblerJoins ==
  ASSUME IInv, GarblerJoins PROVE IInv'
<1>0. UNCHANGED fault
  BY DEF GarblerJoins, given
<1>1. Kinded'
  BY <1>0 DEF IInv, GarblerJoins, Kinded, streams, check, chosen, Ended
<1>2. Streams'
  BY <1>0, Constant DEF IInv, GarblerJoins, Streams, streams, check
<1>3. Chosen'
  BY <1>0, Constant DEF IInv, GarblerJoins, Chosen, chosen
<1>4. Messages'
  BY DEF IInv, GarblerJoins, Messages, chosen
<1>5. Opening'
  BY DEF IInv, GarblerJoins, Opening, chosen
<1>6. Checks'
  BY <1>0, Constant DEF IInv, GarblerJoins, Checks, check, chosen
<1> QED
  BY <1>1, <1>2, <1>3, <1>4, <1>5, <1>6 DEF IInv

LEMMA StepGarblerAsserts ==
  ASSUME IInv, GarblerAsserts PROVE IInv'
<1>0. UNCHANGED fault
  BY DEF GarblerAsserts, given
<1>1. Kinded'
  <2>1. IsQueue(g2e') /\ gpc' \in {"done", "panicked"}
    BY Sent DEF IInv, GarblerAsserts
  <2> QED
    BY <1>0, <2>1 DEF IInv, GarblerAsserts, Kinded, streams, check, chosen, Ended
<1>2. Streams'
  BY <1>0, Constant DEF IInv, GarblerAsserts, Streams, streams, check
<1>3. Chosen'
  BY <1>0, Constant DEF IInv, GarblerAsserts, Chosen, chosen
<1>4. Messages'
  <2>1. PICK value \in Values :
          GarblerSends([kind |-> "Assert", body |-> compute_signatures(value)], "done")
    BY DEF GarblerAsserts
  <2>2. Items(g2e')
          \subseteq Items(g2e) \cup {[kind |-> "Assert", body |-> compute_signatures(value)]}
    BY <2>1, Sent DEF IInv
  <2> QED
    BY <2>2 DEF IInv, GarblerAsserts, Messages, chosen
<1>5. Opening'
  BY DEF IInv, GarblerAsserts, Opening, chosen
<1>6. Checks'
  BY <1>0, Constant DEF IInv, GarblerAsserts, Checks, check, chosen
<1> QED
  BY <1>1, <1>2, <1>3, <1>4, <1>5, <1>6 DEF IInv

LEMMA StepGarblerRecvFails ==
  ASSUME IInv, GarblerRecvFails PROVE IInv'
<1>0. UNCHANGED fault
  BY DEF GarblerRecvFails, given
<1>1. Kinded'
  BY <1>0 DEF IInv, GarblerRecvFails, Kinded, streams, check, chosen, Ended
<1>2. Streams'
  BY <1>0, Constant DEF IInv, GarblerRecvFails, Streams, streams, check
<1>3. Chosen'
  BY <1>0, Constant DEF IInv, GarblerRecvFails, Chosen, chosen
<1>4. Messages'
  BY DEF IInv, GarblerRecvFails, Messages, chosen
<1>5. Opening'
  BY DEF IInv, GarblerRecvFails, Opening, chosen
<1>6. Checks'
  BY <1>0, Constant DEF IInv, GarblerRecvFails, Checks, check, chosen
<1> QED
  BY <1>1, <1>2, <1>3, <1>4, <1>5, <1>6 DEF IInv

LEMMA StepGarblerCrash ==
  ASSUME IInv, GarblerCrash PROVE IInv'
<1>0. UNCHANGED fault
  BY DEF GarblerCrash, given
<1>1. Kinded'
  BY <1>0 DEF IInv, GarblerCrash, Kinded, streams, check, chosen, Ended
<1>2. Streams'
  BY <1>0, Constant DEF IInv, GarblerCrash, Streams, streams, check
<1>3. Chosen'
  BY <1>0, Constant DEF IInv, GarblerCrash, Chosen, chosen
<1>4. Messages'
  BY DEF IInv, GarblerCrash, Messages, chosen
<1>5. Opening'
  BY DEF IInv, GarblerCrash, Opening, chosen
<1>6. Checks'
  BY <1>0, Constant DEF IInv, GarblerCrash, Checks, check, chosen
<1> QED
  BY <1>1, <1>2, <1>3, <1>4, <1>5, <1>6 DEF IInv

LEMMA StepStreamCiphertext ==
  ASSUME IInv, NEW i \in Instances, StreamCiphertext(i) PROVE IInv'
<1>0. UNCHANGED fault
  BY DEF StreamCiphertext, given
<1>1. Kinded'
  <2>1. sent' \in [Instances -> Nat] /\ flight' \in [Instances -> Nat]
    BY DEF IInv, StreamCiphertext, Kinded
  <2> QED
    BY <1>0, <2>1 DEF IInv, StreamCiphertext, Kinded, check, chosen
<1>2. Streams'
  <2> SUFFICES ASSUME NEW j \in Instances
               PROVE  (/\ sent[j] = flight[j] + file[j]
                       /\ sent[j] <= StreamLength(j) /\ flight[j] <= StreamBound)'
    BY DEF Streams
  <2>1. /\ sent[j] = flight[j] + file[j] /\ sent[j] <= StreamLength(j) /\ flight[j] <= StreamBound
        /\ {sent[j], flight[j], file[j]} \subseteq Nat
    BY DEF IInv, Streams, Kinded
  <2>2. StreamLength(j)' = StreamLength(j) /\ StreamLength(j) \in Nat /\ StreamBound \in Nat
    BY <1>0, Constant, Numbers DEF StreamLength
  <2>3. /\ sent'[j] = IF j = i THEN sent[j] + 1 ELSE sent[j]
        /\ flight'[j] = IF j = i THEN flight[j] + 1 ELSE flight[j]
        /\ file' = file /\ sent[i] < StreamLength(i) /\ flight[i] < StreamBound
    BY DEF IInv, StreamCiphertext, Kinded, check
  <2> QED
    BY <2>1, <2>2, <2>3
<1>3. Chosen'
  BY <1>0, Constant DEF IInv, StreamCiphertext, Chosen, chosen
<1>4. Messages'
  BY DEF IInv, StreamCiphertext, Messages, chosen
<1>5. Opening'
  BY DEF IInv, StreamCiphertext, Opening, chosen
<1>6. Checks'
  BY <1>0, Constant DEF IInv, StreamCiphertext, Checks, check, chosen
<1> QED
  BY <1>1, <1>2, <1>3, <1>4, <1>5, <1>6 DEF IInv

LEMMA StepStreamEnds ==
  ASSUME IInv, NEW i \in Instances, StreamEnds(i) PROVE IInv'
<1>0. UNCHANGED fault
  BY DEF StreamEnds, given
<1>1. Kinded'
  BY <1>0 DEF IInv, StreamEnds, Kinded, check, chosen
<1>2. Streams'
  BY <1>0, Constant DEF IInv, StreamEnds, Streams, check
<1>3. Chosen'
  BY <1>0, Constant DEF IInv, StreamEnds, Chosen, chosen
<1>4. Messages'
  BY DEF IInv, StreamEnds, Messages, chosen
<1>5. Opening'
  BY DEF IInv, StreamEnds, Opening, chosen
<1>6. Checks'
  BY <1>0, Constant DEF IInv, StreamEnds, Checks, check, chosen
<1> QED
  BY <1>1, <1>2, <1>3, <1>4, <1>5, <1>6 DEF IInv

LEMMA StepEvaluatorCreates ==
  ASSUME IInv, EvaluatorCreates PROVE IInv'
<1>1. UNCHANGED <<fault, gpc, stage, thread, sent, flight, file, opened, share_check, task,
                  regarbled>>
  BY DEF EvaluatorCreates, given, streams, check
<1>2. IsQueue(g2e') /\ Items(g2e') \subseteq Items(g2e)
  BY Taken DEF IInv, EvaluatorCreates
<1>3. /\ finalized = {} /\ opened = {} /\ ~regarbled /\ share_check = "todo"
      /\ \A i \in Instances : task[i] = "todo"
  BY DEF IInv, EvaluatorCreates, Chosen, Opening, Checks
<1>4. CASE AllVerify
  <2>1. PICK S \in SUBSET Instances, a \in Instances :
          /\ Cardinality(S) = Finalize /\ finalized' = S /\ assert_index' = a
          /\ EvaluatorSends([kind |-> "FinalizeChallenge", body |-> S], "open")
    BY <1>4 DEF EvaluatorCreates, AllVerify
  <2>2. S # {}
    BY <2>1, Numbers, FS_EmptySet
  <2>3. /\ IsQueue(e2g') /\ epc' \in {"open", "panicked"}
        /\ Items(e2g') \subseteq Items(e2g) \cup {[kind |-> "FinalizeChallenge", body |-> S]}
    BY <2>1, Sent DEF IInv
  <2>4. Kinded'
    BY <1>1, <1>2, <2>1, <2>3 DEF IInv, Kinded, Ended
  <2>5. Streams'
    BY <1>1, Constant DEF IInv, Streams
  <2>6. Chosen'
    BY <1>1, <1>4, <2>1, <2>2, <2>3, Constant DEF Chosen
  <2>7. Messages'
    BY <1>2, <1>3, <2>1, <2>2, <2>3 DEF IInv, Messages
  <2>8. Opening'
    BY <1>1, <1>3, <2>3 DEF Opening
  <2>9. Checks'
    BY <1>1, <1>3, <2>3 DEF Checks
  <2> QED
    BY <2>4, <2>5, <2>6, <2>7, <2>8, <2>9 DEF IInv
<1>5. CASE ~AllVerify
  <2>1. epc' = "panicked" /\ UNCHANGED <<finalized, assert_index, e2g>>
    BY <1>5 DEF EvaluatorCreates, AllVerify, chosen
  <2>2. Kinded'
    BY <1>1, <1>2, <2>1 DEF IInv, Kinded, Ended
  <2>3. Streams'
    BY <1>1, Constant DEF IInv, Streams
  <2>4. Chosen' /\ Opening' /\ Checks'
    BY <1>1, <1>3, <2>1 DEF Chosen, Opening, Checks
  <2>5. Messages'
    BY <1>2, <2>1 DEF IInv, Messages
  <2> QED
    BY <2>2, <2>3, <2>4, <2>5 DEF IInv
<1> QED
  BY <1>4, <1>5

LEMMA StepEvaluatorTakesOpening ==
  ASSUME IInv, EvaluatorTakesOpening PROVE IInv'
<1>0. UNCHANGED fault
  BY DEF EvaluatorTakesOpening, given
<1>1. Kinded'
  <2>1. /\ IsQueue(g2e') /\ epc' = "check"
        /\ finalized # {} /\ opened' = Instances \ finalized
    BY Taken DEF IInv, EvaluatorTakesOpening, Messages
  <2> QED
    BY <1>0, <2>1 DEF IInv, EvaluatorTakesOpening, Kinded, streams, check, chosen
<1>2. Streams'
  BY <1>0, Constant DEF IInv, EvaluatorTakesOpening, Streams, streams, check
<1>3. Chosen'
  BY <1>0, Constant DEF IInv, EvaluatorTakesOpening, Chosen, chosen
<1>4. Messages'
  BY Taken DEF IInv, EvaluatorTakesOpening, Messages, chosen
<1>5. Opening'
  <2>1. /\ finalized # {} /\ opened' = Instances \ finalized /\ finalized' = finalized
    BY Taken DEF IInv, EvaluatorTakesOpening, Messages, chosen
  <2> QED
    BY <2>1 DEF Opening
<1>6. Checks'
  BY <1>0, Constant DEF IInv, EvaluatorTakesOpening, Checks, check, chosen
<1> QED
  BY <1>1, <1>2, <1>3, <1>4, <1>5, <1>6 DEF IInv

LEMMA StepCheckShares ==
  ASSUME IInv, CheckShares PROVE IInv'
<1>0. UNCHANGED fault
  BY DEF CheckShares, given
<1>1. Kinded'
  BY <1>0 DEF IInv, CheckShares, Kinded, streams, chosen
<1>2. Streams'
  BY <1>0, Constant DEF IInv, CheckShares, Streams, streams
<1>3. Chosen'
  BY <1>0, Constant DEF IInv, CheckShares, Chosen, chosen
<1>4. Messages'
  BY DEF IInv, CheckShares, Messages, chosen
<1>5. Opening'
  BY DEF IInv, CheckShares, Opening, chosen
<1>6. Checks'
  BY <1>0, Constant DEF IInv, CheckShares, Checks, chosen, Kinded
<1> QED
  BY <1>1, <1>2, <1>3, <1>4, <1>5, <1>6 DEF IInv

LEMMA StepStartTask ==
  ASSUME IInv, NEW i \in Instances, StartTask(i) PROVE IInv'
<1>0. UNCHANGED fault
  BY DEF StartTask, given
<1>1. Kinded'
  BY <1>0 DEF IInv, StartTask, Kinded, streams, chosen
<1>2. Streams'
  BY <1>0, Constant DEF IInv, StartTask, Streams, streams
<1>3. Chosen'
  BY <1>0, Constant DEF IInv, StartTask, Chosen, chosen
<1>4. Messages'
  BY DEF IInv, StartTask, Messages, chosen
<1>5. Opening'
  BY DEF IInv, StartTask, Opening, chosen
<1>6. Checks'
  BY <1>0, Constant DEF IInv, StartTask, Checks, chosen, Kinded
<1> QED
  BY <1>1, <1>2, <1>3, <1>4, <1>5, <1>6 DEF IInv

LEMMA StepDrainOne ==
  ASSUME IInv, NEW i \in Instances, DrainOne(i) PROVE IInv'
<1>0. UNCHANGED fault
  BY DEF DrainOne, given
<1>1. Kinded'
  BY <1>0 DEF IInv, DrainOne, Kinded, chosen
<1>2. Streams'
  BY <1>0, Constant, Numbers DEF IInv, DrainOne, Streams, Kinded
<1>3. Chosen'
  BY <1>0, Constant DEF IInv, DrainOne, Chosen, chosen
<1>4. Messages'
  BY DEF IInv, DrainOne, Messages, chosen
<1>5. Opening'
  BY DEF IInv, DrainOne, Opening, chosen
<1>6. Checks'
  BY <1>0, Constant DEF IInv, DrainOne, Checks, chosen, Kinded
<1> QED
  BY <1>1, <1>2, <1>3, <1>4, <1>5, <1>6 DEF IInv

LEMMA StepEndDrain ==
  ASSUME IInv, NEW i \in Instances, EndDrain(i) PROVE IInv'
<1>0. UNCHANGED fault
  BY DEF EndDrain, given
<1>1. Kinded'
  BY <1>0 DEF IInv, EndDrain, Kinded, streams, chosen
<1>2. Streams'
  BY <1>0, Constant DEF IInv, EndDrain, Streams, streams
<1>3. Chosen'
  BY <1>0, Constant DEF IInv, EndDrain, Chosen, chosen
<1>4. Messages'
  BY DEF IInv, EndDrain, Messages, chosen
<1>5. Opening'
  BY DEF IInv, EndDrain, Opening, chosen
<1>6. Checks'
  BY <1>0, Constant DEF IInv, EndDrain, Checks, chosen, Kinded
<1> QED
  BY <1>1, <1>2, <1>3, <1>4, <1>5, <1>6 DEF IInv

LEMMA StepRegarble ==
  ASSUME IInv, NEW i \in Instances, Regarble(i) PROVE IInv'
<1>0. UNCHANGED fault
  BY DEF Regarble, given
<1>1. Kinded'
  BY <1>0 DEF IInv, Regarble, Kinded, streams, chosen
<1>2. Streams'
  BY <1>0, Constant DEF IInv, Regarble, Streams, streams
<1>3. Chosen'
  BY <1>0, Constant DEF IInv, Regarble, Chosen, chosen
<1>4. Messages'
  BY DEF IInv, Regarble, Messages, chosen
<1>5. Opening'
  BY DEF IInv, Regarble, Opening, chosen
<1>6. Checks'
  BY <1>0, Constant DEF IInv, Regarble, Checks, chosen, Kinded
<1> QED
  BY <1>1, <1>2, <1>3, <1>4, <1>5, <1>6 DEF IInv

LEMMA StepCheckEnds ==
  ASSUME IInv, CheckEnds PROVE IInv'
<1>0. UNCHANGED fault
  BY DEF CheckEnds, given
<1>1. Kinded'
  BY <1>0 DEF IInv, CheckEnds, Kinded, streams, check, chosen, Ended
<1>2. Streams'
  BY <1>0, Constant DEF IInv, CheckEnds, Streams, streams, check
<1>3. Chosen'
  BY <1>0, Constant DEF IInv, CheckEnds, Chosen, chosen
<1>4. Messages'
  BY DEF IInv, CheckEnds, Messages, chosen
<1>5. Opening'
  BY DEF IInv, CheckEnds, Opening, chosen
<1>6. Checks'
  BY <1>0, Constant DEF IInv, CheckEnds, Checks, check, chosen
<1> QED
  BY <1>1, <1>2, <1>3, <1>4, <1>5, <1>6 DEF IInv

LEMMA StepEvaluatorExtracts ==
  ASSUME IInv, EvaluatorExtracts PROVE IInv'
<1>0. UNCHANGED fault
  BY DEF EvaluatorExtracts, given
<1>1. Kinded'
  BY <1>0, Taken DEF IInv, EvaluatorExtracts, Kinded, streams, check, chosen, Ended
<1>2. Streams'
  BY <1>0, Constant DEF IInv, EvaluatorExtracts, Streams, streams, check
<1>3. Chosen'
  BY <1>0, Constant DEF IInv, EvaluatorExtracts, Chosen, chosen
<1>4. Messages'
  BY Taken DEF IInv, EvaluatorExtracts, Messages, chosen
<1>5. Opening'
  BY DEF IInv, EvaluatorExtracts, Opening, chosen
<1>6. Checks'
  BY <1>0, Constant DEF IInv, EvaluatorExtracts, Checks, check, chosen
<1> QED
  BY <1>1, <1>2, <1>3, <1>4, <1>5, <1>6 DEF IInv

LEMMA StepEvaluatorEvaluates ==
  ASSUME IInv, EvaluatorEvaluates PROVE IInv'
<1>0. UNCHANGED fault
  BY DEF EvaluatorEvaluates, given
<1>1. Kinded'
  BY <1>0 DEF IInv, EvaluatorEvaluates, Kinded, streams, check, chosen, Ended
<1>2. Streams'
  BY <1>0, Constant DEF IInv, EvaluatorEvaluates, Streams, streams, check
<1>3. Chosen'
  BY <1>0, Constant DEF IInv, EvaluatorEvaluates, Chosen, chosen
<1>4. Messages'
  BY DEF IInv, EvaluatorEvaluates, Messages, chosen
<1>5. Opening'
  BY DEF IInv, EvaluatorEvaluates, Opening, chosen
<1>6. Checks'
  BY <1>0, Constant DEF IInv, EvaluatorEvaluates, Checks, check, chosen
<1> QED
  BY <1>1, <1>2, <1>3, <1>4, <1>5, <1>6 DEF IInv

LEMMA StepEvaluatorRecvFails ==
  ASSUME IInv, EvaluatorRecvFails PROVE IInv'
<1>0. UNCHANGED fault
  BY DEF EvaluatorRecvFails, given
<1>1. Kinded'
  BY <1>0 DEF IInv, EvaluatorRecvFails, Kinded, streams, check, chosen, Ended
<1>2. Streams'
  BY <1>0, Constant DEF IInv, EvaluatorRecvFails, Streams, streams, check
<1>3. Chosen'
  BY <1>0, Constant DEF IInv, EvaluatorRecvFails, Chosen, chosen
<1>4. Messages'
  BY DEF IInv, EvaluatorRecvFails, Messages, chosen
<1>5. Opening'
  BY DEF IInv, EvaluatorRecvFails, Opening, chosen
<1>6. Checks'
  BY <1>0, Constant DEF IInv, EvaluatorRecvFails, Checks, check, chosen
<1> QED
  BY <1>1, <1>2, <1>3, <1>4, <1>5, <1>6 DEF IInv

LEMMA StepEvaluatorCrash ==
  ASSUME IInv, EvaluatorCrash PROVE IInv'
<1>0. UNCHANGED fault
  BY DEF EvaluatorCrash, given
<1>1. Kinded'
  BY <1>0 DEF IInv, EvaluatorCrash, Kinded, streams, check, chosen, Ended
<1>2. Streams'
  BY <1>0, Constant DEF IInv, EvaluatorCrash, Streams, streams, check
<1>3. Chosen'
  BY <1>0, Constant DEF IInv, EvaluatorCrash, Chosen, chosen
<1>4. Messages'
  BY DEF IInv, EvaluatorCrash, Messages, chosen
<1>5. Opening'
  BY DEF IInv, EvaluatorCrash, Opening, chosen
<1>6. Checks'
  BY <1>0, Constant DEF IInv, EvaluatorCrash, Checks, check, chosen
<1> QED
  BY <1>1, <1>2, <1>3, <1>4, <1>5, <1>6 DEF IInv

(* All steps of both parties, their threads and workers keep it.           *)
THEOREM Invariance == Spec => []IInv
<1>1. IInv /\ [Next]_vars => IInv'
  <2> SUFFICES ASSUME IInv, [Next]_vars PROVE IInv'
    OBVIOUS
  <2>1. CASE GarblerStep
    BY <2>1, StepGarblerCommits, StepGarblerOpens, StepGarblerJoins, StepGarblerAsserts,
       StepGarblerRecvFails DEF GarblerStep
  <2>2. CASE EvaluatorStep
    BY <2>2, StepEvaluatorCreates, StepEvaluatorTakesOpening, StepCheckShares, StepCheckEnds,
       StepEvaluatorExtracts, StepEvaluatorEvaluates, StepEvaluatorRecvFails DEF EvaluatorStep
  <2>3. ASSUME NEW i \in Instances, StreamStep(i) PROVE IInv'
    BY <2>3, StepStreamCiphertext, StepStreamEnds DEF StreamStep
  <2>4. ASSUME NEW i \in Instances, WorkerStep(i) PROVE IInv'
    BY <2>4, StepStartTask, StepDrainOne, StepEndDrain, StepRegarble DEF WorkerStep
  <2>5. CASE GarblerCrash \/ EvaluatorCrash
    BY <2>5, StepGarblerCrash, StepEvaluatorCrash
  <2>6. CASE UNCHANGED vars
    <3>1. UNCHANGED <<fault, file, opened>>
      BY <2>6 DEF vars
    <3>2. Kinded' /\ Streams' /\ Messages' /\ Opening'
      BY <2>6, <3>1, Constant DEF vars, IInv, Kinded, Streams, Messages, Opening
    <3>3. Chosen' /\ Checks'
      BY <2>6, <3>1, Constant DEF vars, IInv, Chosen, Checks
    <3> QED
      BY <3>2, <3>3 DEF IInv
  <2> QED
    BY <2>1, <2>2, <2>3, <2>4, <2>5, <2>6 DEF Next
<1> QED
  BY <1>1, Start, PTL DEF Spec

(* The types, with the bounds of channels and of files: what is in a file  *)
(* or under way was sent once.                                             *)
THEOREM TypeCorrect == Spec => []TypeOK
<1>1. IInv => TypeOK
  <2> SUFFICES ASSUME IInv PROVE TypeOK
    OBVIOUS
  <2>1. ASSUME NEW i \in Instances
        PROVE  /\ sent[i] \in 0 .. Ciphertexts /\ flight[i] \in 0 .. StreamBound
               /\ file[i] \in 0 .. Ciphertexts
    <3>1. /\ {sent[i], flight[i], file[i]} \subseteq Nat
          /\ sent[i] = flight[i] + file[i] /\ sent[i] <= StreamLength(i) /\ flight[i] <= StreamBound
      BY DEF IInv, Kinded, Streams
    <3>2. StreamLength(i) <= Ciphertexts /\ StreamLength(i) \in Nat
      BY Numbers DEF StreamLength
    <3> QED
      BY <3>1, <3>2, Numbers
  <2> QED
    BY <2>1 DEF IInv, Kinded, TypeOK
<1> QED
  BY <1>1, Invariance, PTL

(* Before and after the assert, the evaluator knows of a label it is not   *)
(* to learn fewer points than its polynomial takes: only one set of        *)
(* instances is ever opened, and it leaves Finalize of them out.           *)
THEOREM Secrecy == Spec => []RevealedBelowThreshold
<1>1. IInv => RevealedBelowThreshold
  <2> SUFFICES ASSUME IInv, NEW l \in 1 .. NumLabels,
                      ~(asserted # <<>> /\ \E c \in 1 .. NumChunks :
                          l = FirstLabel(c) + ChunkValue(asserted, c))
               PROVE  Cardinality(KnownPoints(l)) < Len(polynomials[l])
    BY DEF RevealedBelowThreshold
  <2>1. Len(polynomials[l]) = Total - Finalize + 1
    <3>1. Degree + 1 \in Nat
      BY Numbers DEF Degree
    <3>2. polynomials[l] = [k \in 1 .. Degree + 1 |-> Coefficient(l, k - 1)]
      BY DEF polynomials
    <3> QED
      BY <3>1, <3>2 DEF Degree
  <2>2. \A x \in KnownPoints(l) : finalized # {} /\ x \in Instances \ finalized
    <3>1. \A j \in DOMAIN g2e : g2e[j].kind = "OpenInstances" =>
            finalized # {} /\ g2e[j].body = Instances \ finalized
      BY DEF IInv, Messages, Items
    <3>2. opened # {} => finalized # {} /\ opened = Instances \ finalized
      BY DEF IInv, Opening
    <3>3. ASSUME NEW x \in KnownPoints(l)
          PROVE  \/ \E j \in DOMAIN g2e : g2e[j].kind = "OpenInstances" /\ x \in g2e[j].body
                 \/ x \in opened
      <4> DEFINE bodies == {g2e[j].body : j \in {k \in DOMAIN g2e : g2e[k].kind = "OpenInstances"}}
                 published == UNION bodies
                 given_away == {a \in {assert_index} :
                                  asserted # <<>> /\ \E c \in 1 .. NumChunks :
                                    l = FirstLabel(c) + ChunkValue(asserted, c)}
      <4>1. KnownPoints(l) = published \cup opened \cup given_away
        BY DEF KnownPoints
      <4>2. given_away = {}
        OBVIOUS
      <4>3. ASSUME x \in published
            PROVE  \E j \in DOMAIN g2e : g2e[j].kind = "OpenInstances" /\ x \in g2e[j].body
        <5>1. PICK body \in bodies : x \in body
          BY <4>3
        <5> QED
          BY <5>1
      <4> HIDE DEF given_away, published
      <4> QED
        BY <3>3, <4>1, <4>2, <4>3
    <3> QED
      BY <3>1, <3>2, <3>3
  <2>3. CASE KnownPoints(l) = {}
    BY <2>1, <2>3, Numbers, FS_EmptySet
  <2>4. CASE KnownPoints(l) # {}
    <3>1. finalized # {} /\ KnownPoints(l) \subseteq Instances \ finalized
      BY <2>2, <2>4
    <3>2. /\ finalized \subseteq Instances /\ Cardinality(finalized) = Finalize
          /\ IsFiniteSet(finalized)
      BY <3>1, Numbers, FS_Subset DEF IInv, Kinded, Chosen
    <3>3. /\ IsFiniteSet(Instances \ finalized)
          /\ Cardinality(Instances \ finalized) = Total - Finalize
      <4>1. Instances \cap finalized = finalized
        BY <3>2
      <4> QED
        BY <3>2, <4>1, Numbers, FS_Difference
    <3>4. Cardinality(KnownPoints(l)) <= Total - Finalize /\ Cardinality(KnownPoints(l)) \in Nat
      BY <3>1, <3>3, FS_Subset, FS_CardinalityType
    <3> QED
      BY <2>1, <3>4, Numbers
  <2> QED
    BY <2>3, <2>4
<1> QED
  BY <1>1, Invariance, PTL

(* There is a first chunk, with a first wire and a first label.            *)
LEMMA FirstChunk ==
  ASSUME SharingCorrect
  PROVE  /\ 1 \in 1 .. NumLabels /\ 1 \in 1 .. NumChunks /\ 1 \in Wires
         /\ FirstLabel(1) = 1 /\ FirstWire(1) = 1 /\ Width(1) \in 1 .. ChunkBits
         /\ 2 ^ Width(1) \in Int /\ 2 ^ Width(1) > 0
<1>1. NumInputs \in Nat \ {0} /\ ChunkBits \in Nat \ {0}
  BY VsssAssumption
<1>2. NumChunks \in Nat \ {0}
  BY <1>1 DEF NumChunks
<1>3. NumInputs - (NumChunks - 1) * ChunkBits \in 1 .. ChunkBits
  BY <1>1, <1>2 DEF NumChunks
<1>4. Width(NumChunks) \in 1 .. ChunkBits
  BY <1>1, <1>2, <1>3 DEF Width, FirstWire
<1>5. Width(1) \in 1 .. ChunkBits
  BY <1>1, <1>2, <1>4 DEF Width
<1>6. FirstLabel(1) = 1 /\ FirstWire(1) = 1
  BY <1>1 DEF FirstLabel, FirstWire
<1>7. \A n \in 1 .. ChunkBits : 2 ^ n \in Int /\ 2 ^ n > 0
  BY <1>1 DEF SharingCorrect
<1>8. (NumChunks - 1) * 2 ^ ChunkBits \in Nat
  <2>1. 2 ^ ChunkBits \in Nat
    BY <1>1, <1>7
  <2> QED
    BY <1>2, <2>1
<1>9. NumLabels \in Nat /\ NumLabels >= 1
  <2>1. 2 ^ Width(NumChunks) \in Int /\ 2 ^ Width(NumChunks) > 0
    BY <1>4, <1>7
  <2> QED
    BY <1>8, <2>1 DEF NumLabels, FirstLabel
<1> QED
  BY <1>1, <1>2, <1>5, <1>6, <1>7, <1>9 DEF Wires

(* A changed scalar is another scalar.                                     *)
LEMMA PerturbedDiffers ==
  ASSUME SharingCorrect, NEW s \in Fr
  PROVE  Perturbed(s) \in Fr /\ Perturbed(s) # s
BY DEF SharingCorrect, Fr, Perturbed

(* A commitment to a share is known by the share itself.                   *)
LEMMA HonestCommits ==
  ASSUME SharingCorrect, NEW l \in 1 .. NumLabels
  PROVE  /\ ShareCommits[l] = Shares[l]
         /\ \A i \in Instances : wide_labels_for(i)[l] = Shares[l][i + 1] /\ Shares[l][i + 1] \in Fr
<1>1. Shares[l] \in [1 .. Total -> Fr]
  BY DEF SharingCorrect
<1>2. \A s \in Fr : OnValue(windowed_mul, s) = s
  <2>1. \A s \in Fr : windowed_mul(s) = s
    BY DEF SharingCorrect
  <2>2. \A s \in Fr : OnValue(windowed_mul, s) = windowed_mul(s)
    BY DEF OnValue
  <2> QED
    BY <2>1, <2>2
<1>3. ShareCommits[l] = generator_batch_mul(Shares[l])
  BY DEF ShareCommits, share_commits, Shares
<1>4. generator_batch_mul(Shares[l]) = Shares[l]
  BY <1>1, <1>2 DEF generator_batch_mul
<1>5. \A i \in Instances : i + 1 \in 1 .. Total
  BY Numbers DEF Instances
<1> QED
  BY <1>1, <1>3, <1>4, <1>5 DEF wide_labels_for

(* A committed share that is not the polynomial's fails `verify`.          *)
LEMMA ForeignShareFound ==
  ASSUME SharingCorrect, AllVerify, NEW i \in Instances
  PROVE  fault[i] # "poly"
<1> SUFFICES ASSUME fault[i] = "poly" PROVE FALSE
  OBVIOUS
<1> DEFINE c == committed_shares(1)
           h == ShareCommits[1]
<1>1. 1 \in 1 .. NumLabels /\ i + 1 \in 1 .. Total
  BY FirstChunk, Numbers DEF Instances
<1>2. h \in [1 .. Total -> Fr]
  BY <1>1, HonestCommits DEF SharingCorrect
<1>3. c = [k \in 1 .. Total |-> committed_share(1, k - 1)]
  BY DEF committed_shares
<1>4. c[i + 1] = Perturbed(h[i + 1])
  <2>1. (i + 1) - 1 = i
    BY DEF Instances
  <2> QED
    BY <1>1, <1>3, <2>1 DEF committed_share
<1>5. verify(c, polynomial_commits[1]) /\ verify(h, polynomial_commits[1])
  BY <1>1 DEF AllVerify, SharingCorrect
<1>6. Len(c) = Total /\ Len(h) = Total
  BY <1>2, <1>3, Numbers
<1> HIDE DEF c, h
<1>7. c = h
  BY <1>5, <1>6 DEF verify
<1> QED
  BY <1>1, <1>2, <1>4, <1>7, PerturbedDiffers

(* An opened share that is not the committed one fails `verify_shares`.    *)
LEMMA ChangedShareFound ==
  ASSUME SharingCorrect, SharesMatch, NEW i \in opened, i \in Instances
  PROVE  fault[i] # "share"
<1> SUFFICES ASSUME fault[i] = "share" PROVE FALSE
  OBVIOUS
<1> DEFINE s == Shares[1][i + 1]
<1>1. 1 \in 1 .. NumLabels /\ i + 1 \in 1 .. Total
  BY FirstChunk, Numbers DEF Instances
<1>2. s \in Fr /\ wide_labels_for(i)[1] = s /\ ShareCommits[1][i + 1] = s
  BY <1>1, HonestCommits
<1>3. committed_shares(1)[i + 1] = s
  <2>1. (i + 1) - 1 = i
    BY DEF Instances
  <2> QED
    BY <1>1, <1>2, <2>1 DEF committed_shares, committed_share
<1>4. opened_shares(i)[1] = Perturbed(s)
  BY <1>1, <1>2 DEF opened_shares
<1> HIDE DEF s
<1>5. committed_shares(1)[i + 1] = OnValue(windowed_mul, opened_shares(i)[1])
  <2>1. verify_shares(committed_shares(1), {<<j, opened_shares(j)[1]>> : j \in opened})
    BY <1>1 DEF SharesMatch
  <2> DEFINE p == <<i, opened_shares(i)[1]>>
  <2>2. p \in {<<j, opened_shares(j)[1]>> : j \in opened}
    OBVIOUS
  <2>3. committed_shares(1)[p[1] + 1] = OnValue(windowed_mul, p[2])
    BY <2>1, <2>2 DEF verify_shares
  <2> QED
    BY <2>3
<1>6. OnValue(windowed_mul, Perturbed(s)) = Perturbed(s)
  <2>1. windowed_mul(Perturbed(s)) = Perturbed(s)
    BY <1>2, PerturbedDiffers DEF SharingCorrect
  <2> QED
    BY <2>1 DEF OnValue
<1> QED
  BY <1>2, <1>3, <1>4, <1>5, <1>6, PerturbedDiffers

(* The first entry of the first table.                                     *)
LEMMA FirstEntry ==
  ASSUME SharingCorrect, NEW keys, NEW labels
  PROVE  /\ build_all(keys, labels)[1][0].key = keys[1]
         /\ build_all(keys, labels)[1][0].labels[1]
              = IF BitValue(0, Width(1), 1) THEN labels[1].label1 ELSE labels[1].label0
<1> DEFINE n == Width(1)
           wires == ChunkWires(labels, 1)
           chunk == ChunkLabels(keys, 1)
<1>1. /\ n \in Nat \ {0} /\ 2 ^ n \in Int /\ 2 ^ n > 0
      /\ FirstLabel(1) = 1 /\ FirstWire(1) = 1
  BY FirstChunk, VsssAssumption
<1>2. wires = [k \in 1 .. n |-> labels[k]] /\ Len(wires) = n
  BY <1>1 DEF ChunkWires
<1>3. chunk[1] = keys[1]
  BY <1>1 DEF ChunkLabels
<1>4. build_all(keys, labels)[1] = GarbledWideLabelTable_new(chunk, wires)
  BY FirstChunk DEF build_all
<1> HIDE DEF n, wires, chunk
<1> DEFINE entry(index) ==
             [key |-> chunk[index + 1],
              labels |-> [bit \in 1 .. n |->
                            IF BitValue(index, n, bit) THEN wires[bit].label1
                            ELSE wires[bit].label0]]
<1>5. GarbledWideLabelTable_new(chunk, wires) = [index \in 0 .. 2 ^ n - 1 |-> entry(index)]
  BY <1>2 DEF GarbledWideLabelTable_new
<1>6. GarbledWideLabelTable_new(chunk, wires)[0] = entry(0)
  <2> HIDE DEF entry
  <2> QED
    BY <1>1, <1>5
<1>7. /\ entry(0).key = chunk[1]
      /\ entry(0).labels[1] = IF BitValue(0, n, 1) THEN wires[1].label1 ELSE wires[1].label0
  BY <1>1
<1>8. wires[1] = labels[1]
  BY <1>1, <1>2
<1> HIDE DEF entry
<1> QED
  BY <1>3, <1>4, <1>6, <1>7, <1>8 DEF n

(* Tables of other keys or labels than the commitment's are not equal to   *)
(* it.                                                                     *)
LEMMA TableFaultsFound ==
  ASSUME SharingCorrect, NEW i \in Instances
  PROVE  /\ i \in opened /\ fault[i] # "share" /\ OpenedMatches(i) =>
              fault[i] \notin {"keys", "tables"}
         /\ SealedMatches(i) => fault[i] # "lookup"
<1> DEFINE own == wide_labels_for(i)
           labels == input_labels_for(i)
           other == [l \in 1 .. NumLabels |-> Perturbed(own[l])]
<1>1. 1 \in 1 .. NumLabels /\ 1 \in Wires
  BY FirstChunk
<1>2. own[1] \in Fr /\ own = [l \in 1 .. NumLabels |-> own[l]]
  BY <1>1, HonestCommits DEF wide_labels_for
<1>3. other[1] # own[1]
  BY <1>1, <1>2, PerturbedDiffers
<1>4. /\ labels[1].label0 = <<i, 1, FALSE>> /\ labels[1].label1 = <<i, 1, TRUE>>
      /\ Swapped(labels)[1].label0 = <<i, 1, TRUE>> /\ Swapped(labels)[1].label1 = <<i, 1, FALSE>>
  BY <1>1 DEF input_labels_for, Swapped
<1>5. <<i, 1, FALSE>> # <<i, 1, TRUE>>
  <2>1. <<i, 1, FALSE>>[3] = FALSE /\ <<i, 1, TRUE>>[3] = TRUE
    OBVIOUS
  <2> QED
    BY <2>1
<1> HIDE DEF own, labels, other
<1>6. build_all(own, Swapped(labels)) # build_all(own, labels)
  <2> DEFINE first(table) == table[1][0].labels[1]
  <2>1. /\ first(build_all(own, labels))
             = IF BitValue(0, Width(1), 1) THEN labels[1].label1 ELSE labels[1].label0
        /\ first(build_all(own, Swapped(labels)))
             = IF BitValue(0, Width(1), 1) THEN Swapped(labels)[1].label1
               ELSE Swapped(labels)[1].label0
    BY FirstEntry
  <2> HIDE DEF first
  <2>2. first(build_all(own, labels)) # first(build_all(own, Swapped(labels)))
    <3>1. CASE BitValue(0, Width(1), 1)
      BY <1>4, <1>5, <2>1, <3>1
    <3>2. CASE ~BitValue(0, Width(1), 1)
      BY <1>4, <1>5, <2>1, <3>2
    <3> QED
      BY <3>1, <3>2
  <2> QED
    BY <2>2
<1>7. ASSUME i \in opened, fault[i] # "share", OpenedMatches(i)
      PROVE  fault[i] \notin {"keys", "tables"}
  <2>1. opened_shares(i) = own
    BY <1>2, <1>7 DEF opened_shares, own
  <2>2. build_all(own, labels) = committed_tables(i)
    BY <1>7, <2>1 DEF OpenedMatches, labels
  <2>3. CASE fault[i] = "keys"
    <3>1. committed_tables(i) = build_all(other, labels)
      BY <2>3 DEF committed_tables, other, own, labels
    <3> QED
      BY <1>3, <2>2, <3>1, FirstEntry
  <2>4. CASE fault[i] = "tables"
    <3>1. committed_tables(i) = build_all(own, Swapped(labels))
      BY <2>4 DEF committed_tables, own, labels
    <3> QED
      BY <1>6, <2>2, <3>1
  <2> QED
    BY <2>3, <2>4
<1>8. ASSUME SealedMatches(i) PROVE fault[i] # "lookup"
  <2> SUFFICES ASSUME fault[i] = "lookup" PROVE FALSE
    OBVIOUS
  <2>1. /\ sent_tables(i) = build_all(own, Swapped(labels))
        /\ committed_tables(i) = build_all(own, labels)
    BY DEF sent_tables, committed_tables, own, labels
  <2>2. build_all(own, Swapped(labels)) = build_all(own, labels)
    BY <1>8, <2>1 DEF SealedMatches
  <2> QED
    BY <1>6, <2>2
<1> QED
  BY <1>7, <1>8

(* What `regarbled` stands for is still so when it is used.                *)
LEMMA SoundlyRegarbled == ASSUME SharingCorrect, IInv PROVE RegarbledSound
<1> SUFFICES ASSUME regarbled PROVE RegarbledSound
  BY DEF RegarbledSound
<1>1. /\ finalized # {} /\ opened = Instances \ finalized /\ finalized \subseteq Instances
      /\ AllVerify /\ SharesMatch
  BY DEF IInv, Kinded, Chosen, Opening, Checks
<1>2. ASSUME NEW i \in opened
      PROVE  fault[i] \notin {"share", "keys", "tables", "hash", "labels"}
  <2>1. i \in Instances /\ OpenedMatches(i)
    BY <1>1, <1>2 DEF IInv, Checks
  <2>2. fault[i] # "share"
    BY <1>1, <1>2, <2>1, ChangedShareFound
  <2>3. fault[i] \notin {"keys", "tables"}
    BY <1>2, <2>1, <2>2, TableFaultsFound
  <2>4. fault[i] \notin {"hash", "labels"}
    BY <2>1 DEF OpenedMatches
  <2> QED
    BY <2>2, <2>3, <2>4
<1>3. ASSUME NEW i \in finalized
      PROVE  file[i] = Ciphertexts /\ fault[i] \notin {"lookup", "hash", "stream"}
  <2>1. i \in Instances /\ SealedMatches(i)
    BY <1>1, <1>3 DEF IInv, Checks
  <2>2. file[i] = Ciphertexts /\ fault[i] # "hash"
    BY <2>1 DEF SealedMatches
  <2>3. fault[i] # "lookup"
    BY <2>1, TableFaultsFound
  <2>4. fault[i] # "stream"
    <3>1. sent[i] = flight[i] + file[i] /\ sent[i] <= StreamLength(i) /\ flight[i] \in Nat
      BY <2>1 DEF IInv, Kinded, Streams
    <3> QED
      BY <2>2, <3>1, Numbers DEF StreamLength
  <2> QED
    BY <2>2, <2>3, <2>4
<1>4. \A i \in Instances : fault[i] # "poly"
  BY <1>1, ForeignShareFound
<1> QED
  BY <1>1, <1>2, <1>3, <1>4 DEF RegarbledSound

(* When `regarbled` is set, evaluated_wires and evaluate_from can rely on  *)
(* the opened shares, on the tables and on the streams they will read.     *)
THEOREM Regarbling ==
  ASSUME SharingCorrect
  PROVE  Spec => []RegarbledSound
<1>1. IInv => RegarbledSound
  BY SoundlyRegarbled
<1> QED
  BY <1>1, Invariance, PTL
-----------------------------------------------------------------------------
(* Induction, for a set in place of a predicate.                           *)
LEMMA SetInduction ==
  ASSUME NEW S, 0 \in S, \A n \in Nat : n \in S => n + 1 \in S
  PROVE  Nat \subseteq S
<1> DEFINE T == Nat \ S
<1> SUFFICES ASSUME T # {} PROVE FALSE
  OBVIOUS
<1>1. PICK x \in T : \A y \in T : ~ (<<y, x>> \in OpToRel(<, Nat))
  BY NatLessThanWellFounded, WFMin, T \subseteq Nat
<1>2. x # 0 /\ x - 1 \in Nat /\ x - 1 < x /\ (x - 1) + 1 = x
  OBVIOUS
<1>3. x - 1 \in T
  BY <1>2
<1> QED
  BY <1>1, <1>2, <1>3 DEF OpToRel

(* Division, and what is left by it.                                       *)
LEMMA Halves ==
  ASSUME NEW a \in Nat, NEW b \in {0, 1}
  PROVE  /\ (2 * a + b) % 2 = b
         /\ \A P \in Nat \ {0} : (2 * a + b) \div (2 * P) = a \div P
<1>1. (2 * a + b) % 2 = b
  OBVIOUS
<1>2. ASSUME NEW P \in Nat \ {0} PROVE (2 * a + b) \div (2 * P) = a \div P
  <2> DEFINE q == a \div P
             r == a % P
  <2>1. a = P * q + r /\ r \in 0 .. P - 1 /\ q \in Nat
    OBVIOUS
  <2> HIDE DEF q, r
  <2>2. 2 * a + b = (2 * P) * q + (2 * r + b) /\ 2 * r + b \in 0 .. 2 * P - 1 /\ 2 * P \in Nat \ {0}
    BY <2>1
  <2>3. \A B \in Nat \ {0} : \A x \in Nat, y \in 0 .. B - 1 : (B * x + y) \div B = x
    OBVIOUS
  <2> DEFINE B == 2 * P
             y == 2 * r + b
  <2>4. B \in Nat \ {0} /\ y \in 0 .. B - 1 /\ 2 * a + b = B * q + y
    BY <2>2
  <2> HIDE DEF B, y
  <2>5. (B * q + y) \div B = q
    BY <2>1, <2>3, <2>4
  <2> QED
    BY <2>4, <2>5 DEF B, q
<1> QED
  BY <1>1, <1>2

(* The powers of two below a chunk's.                                      *)
LEMMA Powers ==
  ASSUME SharingCorrect
  PROVE  /\ 2 ^ 0 = 1
         /\ \A n \in 0 .. ChunkBits : 2 ^ n \in Nat \ {0}
         /\ \A n \in 1 .. ChunkBits : 2 ^ n = 2 * 2 ^ (n - 1)
<1>1. ChunkBits \in Nat
  BY VsssAssumption
<1>2. 2 ^ 0 = 1 /\ \A n \in 1 .. ChunkBits : 2 ^ n = 2 * 2 ^ (n - 1) /\ 2 ^ n > 0
  BY DEF SharingCorrect
<1>3. \A n \in 0 .. ChunkBits : 2 ^ n \in Int
  BY <1>1, <1>2
<1>4. ASSUME NEW n \in 0 .. ChunkBits PROVE 2 ^ n \in Nat \ {0}
  <2>1. CASE n = 0
    BY <1>2, <2>1
  <2>2. CASE n \in 1 .. ChunkBits
    BY <1>2, <1>3, <2>2
  <2> QED
    BY <1>1, <2>1, <2>2
<1> QED
  BY <1>2, <1>4

(* The wires and the labels of a chunk are there.                          *)
LEMMA Layout ==
  ASSUME SharingCorrect, NEW c \in 1 .. NumChunks
  PROVE  /\ Width(c) \in 1 .. ChunkBits /\ 2 ^ Width(c) \in Nat \ {0}
         /\ FirstWire(c) \in Nat \ {0} /\ FirstWire(c) + Width(c) - 1 <= NumInputs
         /\ FirstLabel(c) \in Nat \ {0}
         /\ \A k \in 0 .. 2 ^ Width(c) - 1 :
              FirstLabel(c) + k \in 1 .. NumLabels /\ FirstLabel(c) + k \in LabelsOf(c)
<1>1. NumInputs \in Nat \ {0} /\ ChunkBits \in Nat \ {0}
  BY VsssAssumption
<1>2. NumChunks \in Nat \ {0} /\ c \in Nat \ {0}
  BY <1>1 DEF NumChunks
<1>3. NumInputs - (NumChunks - 1) * ChunkBits \in 1 .. ChunkBits
  BY <1>1, <1>2 DEF NumChunks
<1>4. (c - 1) * ChunkBits \in Nat /\ FirstWire(c) = (c - 1) * ChunkBits + 1
  BY <1>1, <1>2 DEF FirstWire
<1>5. Width(c) \in 1 .. ChunkBits
  BY <1>1, <1>2, <1>3, <1>4 DEF Width
<1>6. FirstWire(c) + Width(c) - 1 <= NumInputs
  <2>1. CASE c = NumChunks
    BY <1>1, <1>4, <1>5, <2>1 DEF Width
  <2>2. CASE c < NumChunks
    <3>1. c * ChunkBits <= (NumChunks - 1) * ChunkBits /\ (c - 1) * ChunkBits + ChunkBits = c * ChunkBits
      BY <1>1, <1>2, <2>2
    <3> QED
      BY <1>1, <1>2, <1>3, <1>4, <2>2, <3>1 DEF Width
  <2> QED
    BY <1>2, <2>1, <2>2
<1>7. 2 ^ Width(c) \in Nat \ {0} /\ 2 ^ ChunkBits \in Nat \ {0}
  BY <1>1, <1>5, Powers
<1> DEFINE P == 2 ^ ChunkBits
           m == 2 ^ Width(c)
<1>8. FirstLabel(c) = (c - 1) * P + 1 /\ (c - 1) * P \in Nat
  BY <1>2, <1>7 DEF FirstLabel
<1>9. FirstLabel(c) + m - 1 <= NumLabels /\ NumLabels \in Nat
  <2>1. NumChunks \in 1 .. NumChunks /\ Width(NumChunks) \in 1 .. ChunkBits
    BY <1>1, <1>2, <1>3 DEF Width, FirstWire
  <2>2. 2 ^ Width(NumChunks) \in Nat \ {0}
    BY <1>1, <2>1, Powers
  <2>3. NumLabels = (NumChunks - 1) * P + 2 ^ Width(NumChunks) /\ (NumChunks - 1) * P \in Nat
    BY <1>2, <1>7, <2>2 DEF NumLabels, FirstLabel
  <2>4. CASE c = NumChunks
    BY <1>8, <2>2, <2>3, <2>4
  <2>5. CASE c < NumChunks
    <3>1. m = P
      BY <2>5 DEF Width
    <3>2. c * P <= (NumChunks - 1) * P /\ (c - 1) * P + P = c * P
      BY <1>2, <1>7, <2>5
    <3> HIDE DEF P, m
    <3> QED
      BY <1>7, <1>8, <2>2, <2>3, <3>1, <3>2 DEF P
  <2> QED
    BY <1>2, <2>4, <2>5
<1>10. ASSUME NEW k \in 0 .. m - 1
       PROVE  FirstLabel(c) + k \in 1 .. NumLabels /\ FirstLabel(c) + k \in LabelsOf(c)
  BY <1>7, <1>8, <1>9 DEF LabelsOf
<1> QED
  BY <1>4, <1>5, <1>6, <1>7, <1>8, <1>10

(* Every wire is one of a chunk.                                           *)
LEMMA PlaceInChunk ==
  ASSUME SharingCorrect, NEW w \in Wires
  PROVE  /\ (w - 1) \div ChunkBits + 1 \in 1 .. NumChunks
         /\ w - FirstWire((w - 1) \div ChunkBits + 1) + 1
              \in 1 .. Width((w - 1) \div ChunkBits + 1)
<1>1. NumInputs \in Nat \ {0} /\ ChunkBits \in Nat \ {0} /\ w \in 1 .. NumInputs
  BY VsssAssumption DEF Wires
<1> DEFINE q == (w - 1) \div ChunkBits
           r == (w - 1) % ChunkBits
           N == NumChunks - 1
           s == NumInputs - N * ChunkBits
<1>2. w - 1 = ChunkBits * q + r /\ r \in 0 .. ChunkBits - 1 /\ q \in Nat
  BY <1>1
<1>3. N \in Nat /\ NumChunks = N + 1
  BY <1>1 DEF NumChunks
<1>4. s \in 1 .. ChunkBits
  BY <1>1, <1>3 DEF NumChunks
<1> HIDE DEF q, r, s
<1>5. NumInputs = N * ChunkBits + s
  BY <1>1, <1>3, <1>4 DEF s
<1> HIDE DEF N
<1>6. q <= N
  <2> SUFFICES ASSUME q >= N + 1 PROVE FALSE
    BY <1>2, <1>3
  <2>1. ChunkBits * q >= ChunkBits * (N + 1) /\ ChunkBits * (N + 1) = N * ChunkBits + ChunkBits
    BY <1>1, <1>2, <1>3
  <2> QED
    BY <1>1, <1>2, <1>3, <1>4, <1>5, <2>1
<1>7. q + 1 \in 1 .. NumChunks
  BY <1>2, <1>3, <1>6
<1>8. FirstWire(q + 1) = ChunkBits * q + 1
  BY <1>1, <1>2 DEF FirstWire
<1>9. w - FirstWire(q + 1) + 1 = r + 1
  BY <1>1, <1>2, <1>8
<1>10. r + 1 \in 1 .. Width(q + 1)
  <2>1. CASE q < N
    BY <1>1, <1>2, <1>3, <2>1 DEF Width
  <2>2. CASE q = N
    <3>1. Width(q + 1) = NumInputs - FirstWire(q + 1) + 1
      BY <1>2, <1>3, <2>2 DEF Width
    <3>2. Width(q + 1) = s
      BY <1>1, <1>2, <1>3, <1>4, <1>5, <1>8, <2>2, <3>1
    <3>3. w = N * ChunkBits + r + 1
      BY <1>1, <1>2, <1>3, <2>2
    <3> QED
      BY <1>1, <1>2, <1>3, <1>4, <1>5, <3>2, <3>3
  <2> QED
    BY <1>2, <1>3, <1>6, <2>1, <2>2
<1> QED
  BY <1>7, <1>9, <1>10 DEF q

(* The number that n wires from f on make of a value's bits.               *)
Bit(value, w) == IF value[w] THEN 1 ELSE 0
IsNumber(value, f, n, A) ==
  A = [w \in f - 1 .. f + n - 1 |-> IF w < f THEN 0 ELSE A[w - 1] * 2 + Bit(value, w)]
Number(value, f, n) == CHOOSE A : IsNumber(value, f, n, A)

LEMMA NumbersExist ==
  ASSUME NEW value, NEW f \in Nat \ {0} PROVE \A n \in Nat : \E A : IsNumber(value, f, n, A)
<1> DEFINE S == {n \in Nat : \E A : IsNumber(value, f, n, A)}
<1>1. 0 \in S
  <2> DEFINE A == [w \in f - 1 .. f - 1 |-> 0]
  <2>1. IsNumber(value, f, 0, A)
    BY DEF IsNumber
  <2> QED BY <2>1
<1>2. ASSUME NEW n \in Nat, n \in S PROVE n + 1 \in S
  <2>1. PICK A : IsNumber(value, f, n, A)
    BY <1>2
  <2> DEFINE D == f - 1 .. f + (n + 1) - 1
             e(w, x) == IF w < f THEN 0 ELSE x * 2 + Bit(value, w)
             C == [w \in D |-> e(w, A[w - 1])]
  <2>2. \A w \in f - 1 .. f + n - 1 : w \in D /\ A[w] = e(w, A[w - 1])
    <3>1. A = [w \in f - 1 .. f + n - 1 |-> e(w, A[w - 1])]
      BY <2>1 DEF IsNumber
    <3> HIDE DEF e
    <3> QED BY <3>1
  <2>3. \A w \in D : w \in Int /\ (w >= f => w - 1 \in f - 1 .. f + n - 1)
    OBVIOUS
  <2>4. \A w \in D : C[w] = e(w, A[w - 1])
    <3> HIDE DEF e, D
    <3> QED BY DEF C
  <2>5. \A w \in f - 1 .. f + n - 1 : C[w] = A[w]
    <3> HIDE DEF e, D, C
    <3> QED BY <2>2, <2>4
  <2>6. \A w \in D : e(w, A[w - 1]) = e(w, C[w - 1])
    <3> HIDE DEF C, D
    <3> QED BY <2>3, <2>5
  <2>7. C = [w \in D |-> e(w, C[w - 1])]
    <3>1. C = [w \in D |-> C[w]]
      OBVIOUS
    <3> HIDE DEF C, D, e
    <3> QED BY <2>4, <2>6, <3>1
  <2>8. IsNumber(value, f, n + 1, C)
    <3> HIDE DEF C
    <3> QED BY <2>7 DEF IsNumber
  <2> QED BY <2>8
<1> HIDE DEF S
<1>3. Nat \subseteq S
  BY <1>1, <1>2, SetInduction
<1> QED BY <1>3 DEF S

(* Its steps.                                                              *)
LEMMA NumberSteps ==
  ASSUME NEW value, NEW f \in Nat \ {0}, NEW n \in Nat
  PROVE  /\ Number(value, f, n)[f - 1] = 0
         /\ \A w \in f .. f + n - 1 :
              Number(value, f, n)[w] = 2 * Number(value, f, n)[w - 1] + Bit(value, w)
<1> DEFINE A == Number(value, f, n)
           e(w) == IF w < f THEN 0 ELSE A[w - 1] * 2 + Bit(value, w)
<1>1. IsNumber(value, f, n, A)
  BY NumbersExist DEF Number
<1>2. A = [w \in f - 1 .. f + n - 1 |-> e(w)]
  BY <1>1 DEF IsNumber
<1> HIDE DEF A, e
<1>3. \A w \in f - 1 .. f + n - 1 : A[w] = e(w)
  BY <1>2
<1>4. \A w \in f .. f + n - 1 : A[w] = A[w - 1] * 2 + Bit(value, w)
  <2> SUFFICES ASSUME NEW w \in f .. f + n - 1 PROVE A[w] = A[w - 1] * 2 + Bit(value, w)
    OBVIOUS
  <2>1. w \in f - 1 .. f + n - 1 /\ ~(w < f)
    OBVIOUS
  <2> QED BY <1>3, <2>1 DEF e
<1>5. A[f - 1] = 0
  <2>1. f - 1 \in f - 1 .. f + n - 1 /\ f - 1 < f
    OBVIOUS
  <2> QED BY <1>3, <2>1 DEF e
<1>6. \A w \in f .. f + n - 1 : A[w] = 2 * A[w - 1] + Bit(value, w)
  <2>1. \A x : Bit(value, x) \in Int
    BY DEF Bit
  <2> DEFINE S == {j \in Nat : j <= n => A[f - 1 + j] \in Int}
  <2>2. 0 \in S
    BY <1>5
  <2>3. ASSUME NEW j \in Nat, j \in S PROVE j + 1 \in S
    <3>1. SUFFICES ASSUME j + 1 <= n PROVE A[f - 1 + (j + 1)] \in Int
      OBVIOUS
    <3>2. f + j \in f .. f + n - 1 /\ f + j - 1 = f - 1 + j /\ f - 1 + (j + 1) = f + j
      BY <3>1
    <3>3. A[f + j] = A[f + j - 1] * 2 + Bit(value, f + j) /\ A[f + j - 1] \in Int
      BY <1>4, <2>3, <3>1, <3>2
    <3> QED BY <2>1, <3>2, <3>3
  <2> HIDE DEF S
  <2>4. Nat \subseteq S
    BY <2>2, <2>3, SetInduction
  <2> SUFFICES ASSUME NEW w \in f .. f + n - 1 PROVE A[w] = 2 * A[w - 1] + Bit(value, w)
    OBVIOUS
  <2>5. w - f \in Nat /\ w - f <= n /\ f - 1 + (w - f) = w - 1
    OBVIOUS
  <2>6. A[w - 1] \in Int
    <3>1. w - f \in S
      BY <2>4, <2>5
    <3> QED BY <2>5, <3>1 DEF S
  <2> QED BY <1>4, <2>1, <2>6
<1> QED
  BY <1>5, <1>6 DEF A

(* A chunk's value has the bits of its wires, the first one highest.       *)
HasBits(value, f, j, A) ==
  /\ A[f - 1 + j] \in Nat /\ A[f - 1 + j] < 2 ^ j
  /\ \A i \in 1 .. j : (A[f - 1 + j] \div 2 ^ (j - i)) % 2 = Bit(value, f - 1 + i)

LEMMA NextBit ==
  ASSUME SharingCorrect, NEW value, NEW f \in Nat \ {0}, NEW A, NEW j \in 0 .. ChunkBits - 1,
         A[f + j] = 2 * A[f + j - 1] + Bit(value, f + j), HasBits(value, f, j, A)
  PROVE  HasBits(value, f, j + 1, A)
<1> DEFINE a == A[f + j - 1]
           b == Bit(value, f + j)
           x == A[f + j]
<1>1. ChunkBits \in Nat /\ j \in Nat /\ j + 1 \in 1 .. ChunkBits
  BY VsssAssumption
<1>2. f - 1 + j = f + j - 1 /\ f - 1 + (j + 1) = f + j
  BY <1>1
<1>3. /\ a \in Nat /\ a < 2 ^ j
      /\ \A i \in 1 .. j : (a \div 2 ^ (j - i)) % 2 = Bit(value, f - 1 + i)
  BY <1>2 DEF HasBits
<1>4. b \in {0, 1} /\ x = 2 * a + b
  BY DEF Bit
<1>5. 2 ^ (j + 1) = 2 * 2 ^ j /\ 2 ^ j \in Nat \ {0} /\ 2 ^ 0 = 1
  <2>1. (j + 1) - 1 = j
    BY <1>1
  <2> QED BY <1>1, <2>1, Powers
<1> HIDE DEF a, b, x
<1>6. x \in Nat /\ x < 2 ^ (j + 1)
  BY <1>3, <1>4, <1>5
<1>7. ASSUME NEW i \in 1 .. j + 1
      PROVE  (x \div 2 ^ (j + 1 - i)) % 2 = Bit(value, f - 1 + i)
  <2>1. CASE i = j + 1
    <3>1. j + 1 - i = 0 /\ f - 1 + i = f + j
      BY <1>1, <2>1
    <3>2. 2 ^ (j + 1 - i) = 1
      BY <1>5, <3>1
    <3>3. x \div 2 ^ (j + 1 - i) = x
      BY <1>6, <3>2
    <3>4. x % 2 = b
      BY <1>3, <1>4, Halves
    <3> QED BY <3>1, <3>3, <3>4 DEF b
  <2>2. CASE i \in 1 .. j
    <3> DEFINE m == j - i
    <3>1. m \in 0 .. ChunkBits /\ m + 1 \in 1 .. ChunkBits /\ j + 1 - i = m + 1 /\ (m + 1) - 1 = m
      BY <1>1, <2>2
    <3> HIDE DEF m
    <3>2. 2 ^ (m + 1) = 2 * 2 ^ m /\ 2 ^ m \in Nat \ {0}
      BY <3>1, Powers
    <3>3. x \div (2 * 2 ^ m) = a \div 2 ^ m
      BY <1>3, <1>4, <3>2, Halves
    <3>4. x \div 2 ^ (j + 1 - i) = a \div 2 ^ m
      BY <3>1, <3>2, <3>3
    <3> QED BY <1>3, <2>2, <3>4 DEF m
  <2> QED BY <1>1, <2>1, <2>2
<1> QED
  BY <1>2, <1>6, <1>7 DEF HasBits, x

LEMMA BitsOfChunk ==
  ASSUME SharingCorrect, NEW value \in Values, NEW c \in 1 .. NumChunks
  PROVE  /\ ChunkValue(value, c) \in 0 .. 2 ^ Width(c) - 1
         /\ \A bit \in 1 .. Width(c) :
              /\ BitValue(ChunkValue(value, c), Width(c), bit) <=> value[FirstWire(c) + bit - 1]
              /\ value[FirstWire(c) + bit - 1] \in BOOLEAN
<1> DEFINE f == FirstWire(c)
           n == Width(c)
           A == Number(value, f, n)
<1>1. /\ f \in Nat \ {0} /\ n \in 1 .. ChunkBits /\ 2 ^ n \in Nat \ {0} /\ f + n - 1 <= NumInputs
      /\ ChunkBits \in Nat /\ NumInputs \in Nat /\ value \in [1 .. NumInputs -> BOOLEAN]
  BY Layout, VsssAssumption
<1>2. ChunkValue(value, c) = A[f + n - 1]
  BY DEF ChunkValue, Number, IsNumber, Bit
<1> HIDE DEF f, n
<1>3. /\ A[f - 1] = 0
      /\ \A w \in f .. f + n - 1 : A[w] = 2 * A[w - 1] + Bit(value, w)
  BY <1>1, NumberSteps
<1> HIDE DEF A
<1> DEFINE S == {j \in Nat : j <= n => HasBits(value, f, j, A)}
<1>4. 0 \in S
  <2>1. f - 1 + 0 = f - 1 /\ 2 ^ 0 = 1
    BY <1>1, Powers
  <2> QED BY <1>3, <2>1 DEF HasBits
<1>5. ASSUME NEW j \in Nat, j \in S PROVE j + 1 \in S
  <2>1. SUFFICES ASSUME j + 1 <= n PROVE HasBits(value, f, j + 1, A)
    OBVIOUS
  <2>2. HasBits(value, f, j, A) /\ j \in 0 .. ChunkBits - 1 /\ f + j \in f .. f + n - 1
    BY <1>1, <1>5, <2>1
  <2> HIDE DEF S
  <2>3. A[f + j] = 2 * A[f + j - 1] + Bit(value, f + j)
    BY <1>1, <1>3, <2>2
  <2> QED BY <1>1, <2>2, <2>3, NextBit
<1> HIDE DEF S
<1>6. Nat \subseteq S
  BY <1>4, <1>5, SetInduction
<1>7. HasBits(value, f, n, A)
  BY <1>1, <1>6 DEF S
<1>8. /\ f - 1 + n = f + n - 1 /\ \A bit \in 1 .. n : f - 1 + bit = f + bit - 1
      /\ \A bit \in 1 .. n : f + bit - 1 \in 1 .. NumInputs
  BY <1>1
<1>9. ChunkValue(value, c) \in 0 .. 2 ^ n - 1
  BY <1>1, <1>2, <1>7, <1>8 DEF HasBits
<1>10. ASSUME NEW bit \in 1 .. n
       PROVE  /\ BitValue(ChunkValue(value, c), n, bit) <=> value[f + bit - 1]
              /\ value[f + bit - 1] \in BOOLEAN
  <2>1. (A[f + n - 1] \div 2 ^ (n - bit)) % 2 = Bit(value, f + bit - 1)
    BY <1>7, <1>8 DEF HasBits
  <2>2. value[f + bit - 1] \in BOOLEAN
    BY <1>1, <1>8
  <2>3. BitValue(ChunkValue(value, c), n, bit) <=> Bit(value, f + bit - 1) = 1
    BY <1>2, <2>1 DEF BitValue
  <2> QED BY <2>2, <2>3 DEF Bit
<1> QED
  BY <1>9, <1>10 DEF f, n

(* The table of a chunk.                                                   *)
IsTable(T, c, keys) ==
  /\ DOMAIN T = 0 .. 2 ^ Width(c) - 1
  /\ \A k \in DOMAIN T :
       T[k].key = keys[FirstLabel(c) + k] /\ DOMAIN T[k].labels = 1 .. Width(c)
       /\ Len(T[k].labels) = Width(c)

LEMMA Tables ==
  ASSUME SharingCorrect, NEW c \in 1 .. NumChunks, NEW keys, NEW labels
  PROVE  IsTable(build_all(keys, labels)[c], c, keys)
<1> DEFINE n == Width(c)
           wires == ChunkWires(labels, c)
           chunk == ChunkLabels(keys, c)
           f == FirstWire(c)
           l == FirstLabel(c)
<1>1. n \in Nat \ {0} /\ 2 ^ n \in Nat \ {0} /\ f \in Nat \ {0} /\ l \in Nat \ {0}
  BY Layout, VsssAssumption
<1>2. Len(wires) = n
  <2>1. wires = SubSeq(labels, f, f + n - 1)
    BY DEF ChunkWires
  <2> HIDE DEF f, n, wires
  <2>2. wires = [k \in 1 .. n |-> labels[f + k - 1]]
    <3>1. (f + n - 1) - f + 1 = n
      BY <1>1
    <3> QED BY <1>1, <2>1, <3>1
  <2> QED BY <1>1, <2>2
<1>3. \A k \in 0 .. 2 ^ n - 1 : chunk[k + 1] = keys[l + k]
  <2> DEFINE m == 2 ^ n
  <2>1. chunk = SubSeq(keys, l, l + m - 1)
    BY DEF ChunkLabels
  <2>2. m \in Nat \ {0}
    BY <1>1
  <2> HIDE DEF l, m, chunk
  <2>3. \A k \in 1 .. m : chunk[k] = keys[l + k - 1]
    BY <1>1, <2>1, <2>2
  <2>4. \A k \in 0 .. m - 1 : k + 1 \in 1 .. m /\ l + (k + 1) - 1 = l + k
    BY <1>1, <2>2
  <2>5. \A k \in 0 .. m - 1 : chunk[k + 1] = keys[l + k]
    BY <2>3, <2>4
  <2> QED BY <2>5 DEF m
<1>4. build_all(keys, labels)[c] = GarbledWideLabelTable_new(chunk, wires)
  BY DEF build_all
<1> HIDE DEF n, wires, chunk, f, l
<1> DEFINE T == GarbledWideLabelTable_new(chunk, wires)
           here(index) == [bit \in 1 .. n |->
                             IF BitValue(index, n, bit) THEN wires[bit].label1
                             ELSE wires[bit].label0]
           entry(index) == [key |-> chunk[index + 1], labels |-> here(index)]
<1>5. T = [index \in 0 .. 2 ^ n - 1 |-> entry(index)]
  BY <1>2 DEF GarbledWideLabelTable_new
<1>6. \A index : entry(index).key = chunk[index + 1] /\ entry(index).labels = here(index)
  OBVIOUS
<1>7. \A index : DOMAIN here(index) = 1 .. n /\ Len(here(index)) = n
  BY <1>1
<1> HIDE DEF T, entry, here
<1>8. DOMAIN T = 0 .. 2 ^ n - 1 /\ \A k \in DOMAIN T : T[k] = entry(k)
  BY <1>5
<1>9. IsTable(T, c, keys)
  BY <1>3, <1>6, <1>7, <1>8 DEF IsTable, n, l
<1> QED
  BY <1>4, <1>9 DEF T

(* An adaptor of the evaluator's for a commitment and a nonce, and what is *)
(* got back from the signature it is completed to.                         *)
IsInfo(x, commit, nonce) ==
  /\ x.garbler_commit = commit /\ x.evaluator_nonce_commit = nonce
  /\ x.evaluator_s \in Fr

LEMMA Undone ==
  ASSUME SharingCorrect, NEW x, NEW commit, NEW nonce, IsInfo(x, commit, nonce), NEW s \in Fr
  PROVE  /\ extract_secret(x, garbler_signature(x, s)) = s
         /\ garbler_signature(x, s).r = xOf((nonce + commit) % Q)
<1>1. Q \in Nat /\ Q > 1 /\ s \in Nat /\ s < Q
  BY DEF SharingCorrect, Fr
<1> DEFINE e == x.evaluator_s
           odd == is_odd(commit_sum(x))
           sig == garbler_signature(x, s)
<1>2. e \in Nat /\ e < Q
  BY <1>1 DEF IsInfo, Fr
<1>3. commit_sum(x) = (nonce + commit) % Q
  BY DEF commit_sum, IsInfo
<1>4. /\ sig.r = xOf((nonce + commit) % Q)
      /\ sig.s = IF odd THEN (e + minus(s)) % Q ELSE (e + s) % Q
  BY <1>3 DEF garbler_signature
<1>5. /\ \A y \in Nat : y < Q => y % Q = y
      /\ \A y \in Nat : y >= Q /\ y < 2 * Q => y % Q = y - Q
  BY <1>1
<1> DEFINE back(t) == (((e + t) % Q) + minus(e)) % Q
<1> HIDE DEF e, odd
<1>6. \A t \in Nat : t < Q => back(t) = t
  <2> SUFFICES ASSUME NEW t \in Nat, t < Q PROVE back(t) = t
    OBVIOUS
  <2>1. minus(e) = IF e = 0 THEN 0 ELSE Q - e
    <3>1. CASE e = 0
      <4>1. Q >= Q /\ Q < 2 * Q
        BY <1>1
      <4>2. Q % Q = 0
        BY <1>1, <1>5, <4>1
      <4> QED BY <1>1, <3>1, <4>2 DEF minus
    <3>2. CASE e # 0
      <4>1. Q - e \in Nat /\ Q - e < Q
        BY <1>1, <1>2, <3>2
      <4> QED BY <1>5, <3>2, <4>1 DEF minus
    <3> QED BY <3>1, <3>2
  <2>2. CASE e + t < Q
    <3>1. (e + t) % Q = e + t
      BY <1>2, <1>5, <2>2
    <3>2. CASE e = 0
      BY <1>1, <1>5, <2>1, <3>1, <3>2
    <3>3. CASE e # 0
      <4>1. (e + t) + minus(e) = t + Q /\ t + Q >= Q /\ t + Q < 2 * Q /\ t + Q \in Nat
        BY <1>1, <1>2, <2>1, <3>3
      <4>2. (t + Q) % Q = t
        BY <1>1, <1>5, <4>1
      <4> QED BY <3>1, <4>1, <4>2
    <3> QED BY <3>2, <3>3
  <2>3. CASE e + t >= Q
    <3>1. e + t < 2 * Q /\ e + t \in Nat /\ e # 0
      BY <1>1, <1>2, <2>3
    <3>2. (e + t) % Q = e + t - Q
      BY <1>1, <1>2, <1>5, <2>3, <3>1
    <3>3. (e + t - Q) + minus(e) = t
      BY <1>1, <1>2, <2>1, <3>1
    <3> QED BY <1>5, <3>2, <3>3
  <2> QED BY <1>1, <1>2, <2>2, <2>3
<1>7. minus(s) \in Nat /\ minus(s) < Q /\ minus(minus(s)) = s
  <2>1. CASE s = 0
    <3>1. Q % Q = 0
      BY <1>1, <1>5
    <3>2. minus(s) = 0
      BY <1>1, <2>1, <3>1 DEF minus
    <3> QED BY <1>1, <2>1, <3>1, <3>2 DEF minus
  <2>2. CASE s # 0
    <3>1. Q - s \in Nat /\ Q - s < Q /\ Q - (Q - s) = s
      BY <1>1, <2>2
    <3>2. minus(s) = Q - s
      BY <1>5, <3>1 DEF minus
    <3>3. minus(minus(s)) = s % Q
      BY <3>1, <3>2 DEF minus
    <3> QED BY <1>1, <1>5, <3>1, <3>2, <3>3
  <2> QED BY <2>1, <2>2
<1>8. extract_secret(x, sig) = IF odd THEN minus((sig.s + minus(e)) % Q) ELSE (sig.s + minus(e)) % Q
  BY DEF extract_secret, odd, e
<1> HIDE DEF sig
<1>9. CASE odd
  <2>1. (sig.s + minus(e)) % Q = back(minus(s))
    BY <1>4, <1>9
  <2>2. back(minus(s)) = minus(s)
    BY <1>6, <1>7
  <2>3. extract_secret(x, sig) = s
    BY <1>7, <1>8, <1>9, <2>1, <2>2
  <2> QED BY <1>4, <2>3 DEF sig
<1>10. CASE ~odd
  <2>1. (sig.s + minus(e)) % Q = back(s)
    BY <1>4, <1>10
  <2>2. back(s) = s
    BY <1>1, <1>6
  <2>3. extract_secret(x, sig) = s
    BY <1>8, <1>10, <2>1, <2>2
  <2> QED BY <1>4, <2>3 DEF sig
<1> QED
  BY <1>9, <1>10

(* The shares of label l in instance i.                                    *)
LEMMA OwnShares ==
  ASSUME SharingCorrect, NEW a \in Instances, fault[a] # "poly", NEW c \in 1 .. NumChunks,
         NEW k \in 0 .. 2 ^ Width(c) - 1
  PROVE  /\ Shares[FirstLabel(c) + k][a + 1] \in Fr
         /\ wide_labels_for(a)[FirstLabel(c) + k] = Shares[FirstLabel(c) + k][a + 1]
         /\ committed_share(FirstLabel(c) + k, a) = Shares[FirstLabel(c) + k][a + 1]
         /\ ChunkLabels(wide_labels_for(a), c)[k + 1] = Shares[FirstLabel(c) + k][a + 1]
         /\ ChunkLabels(Nonces, c)[k + 1] = Nonce(FirstLabel(c) + k)
         /\ Nonce(FirstLabel(c) + k) \in Fr
<1> DEFINE m == 2 ^ Width(c)
           f == FirstLabel(c)
           l == f + k
<1>1. m \in Nat \ {0} /\ f \in Nat \ {0} /\ l \in 1 .. NumLabels
  BY Layout
<1>2. wide_labels_for(a)[l] = Shares[l][a + 1] /\ Shares[l][a + 1] \in Fr
  BY <1>1, HonestCommits
<1>3. committed_share(l, a) = Shares[l][a + 1]
  BY <1>1, HonestCommits DEF committed_share
<1>4. Nonces[l] = Nonce(l) /\ Nonce(l) \in Fr
  BY <1>1, ScalarAssumption DEF Nonces
<1>5. \A s : ChunkLabels(s, c)[k + 1] = s[l]
  <2> TAKE s
  <2>1. ChunkLabels(s, c) = SubSeq(s, f, f + m - 1)
    BY DEF ChunkLabels
  <2>2. k \in 0 .. m - 1
    OBVIOUS
  <2> HIDE DEF f, m, l
  <2>3. k + 1 \in 1 .. m /\ f + (k + 1) - 1 = f + k
    BY <1>1, <2>2
  <2>4. ChunkLabels(s, c)[k + 1] = s[f + (k + 1) - 1]
    BY <1>1, <2>1, <2>3
  <2> QED BY <2>3, <2>4 DEF l
<1> QED
  BY <1>2, <1>3, <1>4, <1>5

(* The evaluator's adaptors for a chunk of an instance.                    *)
LEMMA Infos ==
  ASSUME SharingCorrect, NEW a \in Instances, fault[a] # "poly", secret \in Secrets,
         NEW c \in 1 .. NumChunks
  PROVE  /\ DOMAIN new_adaptor_sigs(a)[c] = 1 .. 2 ^ Width(c)
         /\ \A k \in 0 .. 2 ^ Width(c) - 1 :
              /\ IsInfo(new_adaptor_sigs(a)[c][k + 1], Shares[FirstLabel(c) + k][a + 1],
                        Nonce(FirstLabel(c) + k))
              /\ new_adaptor_sigs(a)[c][k + 1]
                   = AdaptorInfo_new(secret, Shares[FirstLabel(c) + k][a + 1], c,
                                     Nonce(FirstLabel(c) + k))
<1> DEFINE m == 2 ^ Width(c)
           commits == [k \in 1 .. m |-> committed_share(FirstLabel(c) + k - 1, a)]
           nonces == ChunkLabels(Nonces, c)
           x == new_adaptor_sigs(a)[c]
<1>1. m \in Nat \ {0} /\ FirstLabel(c) \in Nat \ {0}
  BY Layout
<1>2. x = [k \in 1 .. m |-> AdaptorInfo_new(secret, commits[k], c, nonces[k])]
  <2>1. x = wide_new(secret, commits, c, nonces)
    BY DEF new_adaptor_sigs
  <2> HIDE DEF x, nonces
  <2> QED BY <2>1 DEF wide_new
<1>3. Q \in Nat /\ Q > 1 /\ secret \in 1 .. Q - 1
  BY VsssAssumption DEF SharingCorrect
<1> HIDE DEF x, nonces
<1>4. ASSUME NEW k \in 0 .. m - 1
      PROVE  /\ IsInfo(x[k + 1], Shares[FirstLabel(c) + k][a + 1], Nonce(FirstLabel(c) + k))
             /\ x[k + 1] = AdaptorInfo_new(secret, Shares[FirstLabel(c) + k][a + 1], c,
                                           Nonce(FirstLabel(c) + k))
  <2> DEFINE g == Shares[FirstLabel(c) + k][a + 1]
             n == Nonce(FirstLabel(c) + k)
             P == (g + n) % Q
             e == ChallengeHash(xOf(P), xOf(secret), c)
  <2>1. g \in Fr /\ n \in Fr /\ nonces[k + 1] = n /\ committed_share(FirstLabel(c) + k, a) = g
    BY OwnShares DEF nonces
  <2>2. k + 1 \in 1 .. m /\ FirstLabel(c) + (k + 1) - 1 = FirstLabel(c) + k
    BY <1>1
  <2>3. commits[k + 1] = g
    BY <2>1, <2>2
  <2> HIDE DEF commits, g, n, m
  <2>4. x[k + 1] = AdaptorInfo_new(secret, g, c, n)
    BY <1>2, <2>1, <2>2, <2>3
  <2>5. P \in Fr
    BY <1>3, <2>1 DEF Fr
  <2>6. e \in Fr
    BY <2>5, ScalarAssumption
  <2>7. EvenNonce(P, n) \in Int
    BY <1>3, <2>1 DEF EvenNonce, minus, Fr
  <2> HIDE DEF P, e
  <2>8. (EvenNonce(P, n) + e * secret) % Q \in Fr
    <3>1. e \in Int /\ secret \in Int
      BY <1>3, <2>6 DEF Fr
    <3>2. e * secret \in Int
      BY <3>1
    <3>3. EvenNonce(P, n) + e * secret \in Int
      BY <2>7, <3>2
    <3> DEFINE y == EvenNonce(P, n) + e * secret
    <3> HIDE DEF y
    <3>4. y % Q \in Fr
      BY <1>3, <3>3 DEF y, Fr
    <3> QED BY <3>4 DEF y
  <2>9. AdaptorInfo_new(secret, g, c, n)
          = [garbler_commit |-> g, evaluator_nonce_commit |-> n,
             evaluator_s |-> (EvenNonce(P, n) + e * secret) % Q]
    BY DEF AdaptorInfo_new, P, e
  <2>10. IsInfo(x[k + 1], g, n)
    BY <2>4, <2>8, <2>9 DEF IsInfo
  <2> QED BY <2>4, <2>10 DEF g, n
<1>5. DOMAIN x = 1 .. m
  BY <1>2
<1> QED
  BY <1>4, <1>5 DEF x, m

(* The garbler completes the one adaptor that is for the chunk's value, and*)
(* the evaluator gets that value's share from it: no other adaptor of the  *)
(* chunk has its commitment, and no other its nonce's point.               *)
LEMMA Extraction ==
  ASSUME SharingCorrect, NoCoincidence, NEW a \in Instances, fault[a] # "poly", secret \in Secrets,
         NEW c \in 1 .. NumChunks, NEW k \in 0 .. 2 ^ Width(c) - 1
  PROVE  /\ OnValues(wide_extract_secret, new_adaptor_sigs(a)[c],
              OnValues(wide_garbler_signature, new_adaptor_sigs(a)[c],
                ChunkLabels(wide_labels_for(a), c)[k + 1]))
              = Shares[FirstLabel(c) + k][a + 1]
         /\ OnValues(wide_garbler_signature, new_adaptor_sigs(a)[c],
              ChunkLabels(wide_labels_for(a), c)[k + 1])
              = garbler_signature(new_adaptor_sigs(a)[c][k + 1], Shares[FirstLabel(c) + k][a + 1])
<1> DEFINE m == 2 ^ Width(c)
           f == FirstLabel(c)
           share(n) == Shares[f + n][a + 1]
           nonce(n) == Nonce(f + n)
           infos == new_adaptor_sigs(a)[c]
           s == ChunkLabels(wide_labels_for(a), c)[k + 1]
           sig == wide_garbler_signature(infos, s)
<1>1. m \in Nat \ {0} /\ f \in Nat \ {0} /\ \A n \in 0 .. m - 1 : f + n \in LabelsOf(c)
  BY Layout
<1>2. \A n \in 0 .. m - 1 : share(n) \in Fr /\ nonce(n) \in Fr
  BY OwnShares
<1>3. s = share(k) /\ windowed_mul(s) = s
  BY OwnShares DEF SharingCorrect
<1>4. /\ DOMAIN infos = 1 .. m
      /\ \A n \in 0 .. m - 1 : IsInfo(infos[n + 1], share(n), nonce(n))
  BY Infos
<1>5. ASSUME NEW n \in 0 .. m - 1, n # k
      PROVE  /\ share(n) # share(k)
             /\ xOf((nonce(n) + share(n)) % Q) # xOf((nonce(k) + share(k)) % Q)
  <2> DEFINE p == f + n
             q == f + k
  <2>1. p # q /\ p \in LabelsOf(c) /\ q \in LabelsOf(c)
    BY <1>1, <1>5
  <2> HIDE DEF p, q
  <2>2. /\ Shares[p][a + 1] # Shares[q][a + 1]
        /\ xOf((Nonce(p) + Shares[p][a + 1]) % Q) # xOf((Nonce(q) + Shares[q][a + 1]) % Q)
    BY <2>1 DEF NoCoincidence
  <2> QED BY <2>2 DEF p, q
<1> HIDE DEF share, nonce, infos, s
<1>6. \A x \in 1 .. m : x - 1 \in 0 .. m - 1 /\ (x - 1) + 1 = x
  BY <1>1
<1>7. k + 1 \in 1 .. m /\ k \in 0 .. m - 1
  BY <1>1
<1> HIDE DEF m
<1>8. sig = garbler_signature(infos[k + 1], s)
  <2> DEFINE Test(x) == x.garbler_commit = windowed_mul(s)
             j == CHOOSE x \in DOMAIN infos : Test(infos[x]) /\ \A y \in 1 .. x - 1 : ~Test(infos[y])
  <2>1. \A x \in 1 .. m : infos[x].garbler_commit = share(x - 1)
    BY <1>4, <1>6 DEF IsInfo
  <2>2. \A x \in 1 .. m : Test(infos[x]) <=> x = k + 1
    <3>1. infos[k + 1].garbler_commit = share(k)
      BY <1>4, <1>7 DEF IsInfo
    <3>2. ASSUME NEW x \in 1 .. m, x # k + 1 PROVE ~Test(infos[x])
      <4>1. x - 1 \in 0 .. m - 1 /\ x - 1 # k
        BY <1>6, <3>2
      <4>2. share(x - 1) # share(k)
        BY <1>5, <4>1
      <4> QED BY <1>3, <2>1, <4>2
    <3> QED BY <1>3, <3>1, <3>2
  <2> HIDE DEF Test
  <2>3. k \in Int /\ m \in Int
    BY <1>1 DEF m
  <2>4. \A y \in 1 .. (k + 1) - 1 : y \in 1 .. m /\ y # k + 1
    BY <1>7, <2>3
  <2>5. j = k + 1
    <3>1. k + 1 \in DOMAIN infos /\ Test(infos[k + 1]) /\ \A y \in 1 .. (k + 1) - 1 : ~Test(infos[y])
      BY <1>4, <1>7, <2>2, <2>4
    <3>2. j \in DOMAIN infos /\ Test(infos[j])
      BY <3>1
    <3> HIDE DEF j
    <3> QED BY <1>4, <2>2, <3>2
  <2>6. sig = garbler_signature(infos[j], s)
    BY DEF wide_garbler_signature, FirstOf, Test
  <2> QED BY <2>5, <2>6
<1> HIDE DEF sig
<1>9. /\ sig.r = xOf((nonce(k) + share(k)) % Q)
      /\ extract_secret(infos[k + 1], sig) = share(k)
  <2>1. IsInfo(infos[k + 1], share(k), nonce(k)) /\ share(k) \in Fr
    BY <1>2, <1>4, <1>7
  <2> QED BY <1>3, <1>8, <2>1, Undone
<1>10. wide_extract_secret(infos, sig) = share(k)
  <2> DEFINE Test(x) == extracts(x, sig)
             j == CHOOSE x \in DOMAIN infos : Test(infos[x]) /\ \A y \in 1 .. x - 1 : ~Test(infos[y])
  <2>1. \A x \in 1 .. m :
          Test(infos[x]) <=> sig.r = xOf((nonce(x - 1) + share(x - 1)) % Q)
    <3> SUFFICES ASSUME NEW x \in 1 .. m
                 PROVE  extracts(infos[x], sig) <=> sig.r = xOf((nonce(x - 1) + share(x - 1)) % Q)
      OBVIOUS
    <3>1. IsInfo(infos[x], share(x - 1), nonce(x - 1))
      BY <1>4, <1>6
    <3>2. commit_sum(infos[x]) = (nonce(x - 1) + share(x - 1)) % Q
      BY <3>1 DEF commit_sum, IsInfo
    <3> QED BY <3>2 DEF extracts
  <2>2. \A x \in 1 .. m : Test(infos[x]) <=> x = k + 1
    <3>1. Test(infos[k + 1])
      <4>1. (k + 1) - 1 = k
        BY <1>1 DEF m
      <4> QED BY <1>7, <1>9, <2>1, <4>1
    <3>2. ASSUME NEW x \in 1 .. m, x # k + 1 PROVE ~Test(infos[x])
      <4>1. x - 1 \in 0 .. m - 1 /\ x - 1 # k
        BY <1>6, <3>2
      <4>2. xOf((nonce(x - 1) + share(x - 1)) % Q) # xOf((nonce(k) + share(k)) % Q)
        BY <1>5, <4>1
      <4> QED BY <1>9, <2>1, <4>2
    <3> QED BY <3>1, <3>2
  <2> HIDE DEF Test
  <2>3. k \in Int /\ m \in Int
    BY <1>1 DEF m
  <2>4. \A y \in 1 .. (k + 1) - 1 : y \in 1 .. m /\ y # k + 1
    BY <1>7, <2>3
  <2>5. j = k + 1
    <3>1. k + 1 \in DOMAIN infos /\ Test(infos[k + 1]) /\ \A y \in 1 .. (k + 1) - 1 : ~Test(infos[y])
      BY <1>4, <1>7, <2>2, <2>4
    <3>2. j \in DOMAIN infos /\ Test(infos[j])
      BY <3>1
    <3> HIDE DEF j
    <3> QED BY <1>4, <2>2, <3>2
  <2>6. wide_extract_secret(infos, sig) = extract_secret(infos[j], sig)
    BY DEF wide_extract_secret, FirstOf, Test
  <2> QED BY <1>9, <2>5, <2>6
<1>11. OnValues(wide_garbler_signature, infos, s) = sig
  BY DEF OnValues, sig
<1>12. OnValues(wide_extract_secret, infos, sig) = wide_extract_secret(infos, sig)
  BY DEF OnValues
<1> QED
  BY <1>3, <1>8, <1>10, <1>11, <1>12 DEF infos, s, share

(* A share that opens an entry of a sealed instance's table opens the one  *)
(* of its own value, and that one gives the value's bits.                  *)
LEMMA Looked ==
  ASSUME SharingCorrect, NoCoincidence, NEW i \in Instances, fault[i] # "lookup",
         NEW c \in 1 .. NumChunks, NEW k \in 0 .. 2 ^ Width(c) - 1,
         decrypts(sent_tables(i)[c], Shares[FirstLabel(c) + k][i + 1])
  PROVE  /\ lookup_index(sent_tables(i)[c], Shares[FirstLabel(c) + k][i + 1]) = k
         /\ \A bit \in 1 .. Width(c) :
              LET wire == lookup_evaluated_wires(sent_tables(i)[c],
                                                 Shares[FirstLabel(c) + k][i + 1])[bit]
              IN wire = [active_label |-> wire.active_label,
                         value |-> BitValue(k, Width(c), bit)]
<1> DEFINE m == 2 ^ Width(c)
           f == FirstLabel(c)
           T == sent_tables(i)[c]
           share(n) == Shares[f + n][i + 1]
           wrong == [l \in 1 .. NumLabels |-> Perturbed(wide_labels_for(i)[l])]
<1>1. /\ m \in Nat \ {0} /\ f \in Nat \ {0} /\ k \in 0 .. m - 1
      /\ \A n \in 0 .. m - 1 : f + n \in LabelsOf(c) /\ f + n \in 1 .. NumLabels
  BY Layout
<1>2. \A n \in 0 .. m - 1 : share(n) \in Fr /\ wide_labels_for(i)[f + n] = share(n)
  BY <1>1, HonestCommits
<1>3. ASSUME NEW n \in 0 .. m - 1, n # k
      PROVE  share(n) # share(k) /\ Perturbed(share(n)) # share(k)
  <2> DEFINE p == f + n
             q == f + k
  <2>1. p # q /\ p \in LabelsOf(c) /\ q \in LabelsOf(c)
    BY <1>1, <1>3
  <2> HIDE DEF p, q
  <2>2. Shares[q][i + 1] \notin {Shares[p][i + 1], Perturbed(Shares[p][i + 1])}
    BY <2>1 DEF NoCoincidence
  <2> QED BY <2>2 DEF p, q
<1>4. \E labels : \/ sent_tables(i) = build_all(wide_labels_for(i), labels)
                  \/ sent_tables(i) = build_all(wrong, labels)
  BY DEF sent_tables, committed_tables
<1>5. \/ IsTable(T, c, wide_labels_for(i))
      \/ IsTable(T, c, wrong)
  BY <1>4, Tables
<1>6. PICK x \in DOMAIN T : T[x].key = share(k)
  BY DEF decrypts
<1> HIDE DEF T
<1>7. IsTable(T, c, wide_labels_for(i))
  <2> SUFFICES ASSUME IsTable(T, c, wrong) PROVE FALSE
    BY <1>5
  <2>1. x \in 0 .. m - 1 /\ wrong[f + x] = share(k)
    BY <1>6 DEF IsTable
  <2>2. wrong[f + x] = Perturbed(share(x)) /\ Perturbed(share(x)) # share(x)
    BY <1>1, <1>2, <2>1, PerturbedDiffers
  <2>3. x # k
    BY <2>1, <2>2
  <2> QED BY <1>3, <2>1, <2>2, <2>3
<1>8. /\ DOMAIN T = 0 .. m - 1
      /\ \A n \in 0 .. m - 1 : T[n].key = share(n) /\ Len(T[n].labels) = Width(c)
                               /\ DOMAIN T[n].labels = 1 .. Width(c)
  BY <1>2, <1>7 DEF IsTable
<1>9. lookup_index(T, share(k)) = k
  <2> DEFINE Found(n) == T[n].key = share(k) /\ \A before \in 0 .. n - 1 : T[before].key # share(k)
             j == CHOOSE n \in DOMAIN T : Found(n)
  <2> HIDE DEF share
  <2>1. \A n \in 0 .. m - 1 : T[n].key = share(k) => n = k
    BY <1>3, <1>8
  <2>2. k \in DOMAIN T /\ Found(k)
    <3>1. \A before \in 0 .. k - 1 : before \in 0 .. m - 1 /\ before # k
      BY <1>1
    <3> QED BY <1>1, <1>8, <2>1, <3>1
  <2>3. j \in DOMAIN T /\ Found(j)
    BY <2>2
  <2>4. lookup_index(T, share(k)) = j
    BY DEF lookup_index
  <2> HIDE DEF j
  <2> QED BY <1>8, <2>1, <2>3, <2>4
<1>10. ASSUME NEW bit \in 1 .. Width(c)
       PROVE  LET wire == lookup_evaluated_wires(T, share(k))[bit]
              IN wire = [active_label |-> wire.active_label, value |-> BitValue(k, Width(c), bit)]
  <2> DEFINE labels == T[k].labels
             wire(b) == [active_label |-> labels[b], value |-> BitValue(k, Len(labels), b)]
  <2>1. lookup_evaluated_wires(T, share(k)) = [b \in DOMAIN labels |-> wire(b)]
    BY <1>9 DEF lookup_evaluated_wires
  <2>2. bit \in DOMAIN labels /\ Len(labels) = Width(c)
    BY <1>1, <1>8
  <2> HIDE DEF labels, wire
  <2>3. lookup_evaluated_wires(T, share(k))[bit] = wire(bit)
    BY <2>1, <2>2
  <2>4. wire(bit) = [active_label |-> labels[bit], value |-> BitValue(k, Width(c), bit)]
    BY <2>2 DEF wire
  <2>5. wire(bit).active_label = labels[bit]
    BY <2>4
  <2> QED BY <2>3, <2>4, <2>5
<1> QED
  BY <1>9, <1>10 DEF T

(* The wide labels of the sealed instances are the shares of the asserted  *)
(* value's polynomials.                                                    *)
Recovered ==
  \A c \in 1 .. NumChunks, i \in finalized :
    wide_labels[c][i] = Shares[FirstLabel(c) + ChunkValue(asserted, c)][i + 1]

LEMMA AllPoints ==
  ASSUME SharingCorrect, NoCoincidence, SharesInterpolate,
         finalized \subseteq Instances, Cardinality(finalized) = Finalize,
         opened = Instances \ finalized, assert_index \in finalized,
         \A i \in opened : fault[i] # "share",
         fault[assert_index] # "lookup",
         NEW c \in 1 .. NumChunks, NEW k \in 0 .. 2 ^ Width(c) - 1,
         NEW s, s = Shares[FirstLabel(c) + k][assert_index + 1],
         decrypts(sent_tables(assert_index)[c], s)
  PROVE  \A i \in finalized :
           Interpolated(c, s)[i] = Shares[FirstLabel(c) + k][i + 1]
<1> DEFINE a == assert_index
           l == FirstLabel(c) + k
           K == opened \cup {a}
           known(n) == [i \in K |-> IF i = a THEN s ELSE opened_shares(i)[FirstLabel(c) + n]]
<1>1. l \in 1 .. NumLabels
  BY Layout
<1>2. a \in Instances /\ K \in SUBSET Instances /\ Missing = Instances \ K
  BY DEF Missing
<1>3. Cardinality(K) = Degree + 1
  <2>1. IsFiniteSet(finalized) /\ Instances \cap finalized = finalized
    BY Numbers, FS_Subset
  <2>2. IsFiniteSet(opened) /\ Cardinality(opened) = Total - Finalize
    <3>1. IsFiniteSet(Instances) /\ Cardinality(Instances) = Total
      BY Numbers
    <3>2. /\ IsFiniteSet(Instances \ finalized)
          /\ Cardinality(Instances \ finalized)
               = Cardinality(Instances) - Cardinality(Instances \cap finalized)
      BY <3>1, FS_Difference
    <3> QED BY <2>1, <3>1, <3>2
  <2>3. a \notin opened
    OBVIOUS
  <2>4. Cardinality(K) = Total - Finalize + 1
    BY <2>2, <2>3, FS_AddElement
  <2> QED BY <2>4 DEF Degree
<1>4. lookup_index(sent_tables(a)[c], s) = k
  BY <1>2, Looked
<1> DEFINE others == lagrange_interpolate_whole_polynomial(known(k), Missing)
<1>5. Interpolated(c, s) = [i \in Missing \cup {a} |-> IF i = a THEN s ELSE others[i]]
  BY <1>4 DEF Interpolated, OnValue
<1>6. known(k) = [i \in K |-> Shares[l][i + 1]]
  <2>1. \A i \in opened : i \in Instances /\ opened_shares(i)[l] = Shares[l][i + 1]
    BY <1>1, HonestCommits DEF opened_shares
  <2> HIDE DEF l
  <2>2. \A i \in K : (IF i = a THEN s ELSE opened_shares(i)[l]) = Shares[l][i + 1]
    BY <2>1 DEF l
  <2> QED BY <2>2 DEF l
<1> HIDE DEF known, K, l
<1>7. others = [i \in Missing |-> Shares[l][i + 1]]
  <2>1. lagrange_interpolate_whole_polynomial([i \in K |-> Shares[l][i + 1]], Instances \ K)
          = [i \in Instances \ K |-> Shares[l][i + 1]]
    BY <1>1, <1>2, <1>3 DEF SharesInterpolate
  <2> QED BY <1>2, <1>6, <2>1
<1> HIDE DEF others
<1>8. ASSUME NEW i \in finalized PROVE Interpolated(c, s)[i] = Shares[l][i + 1]
  <2>1. i \in Missing \cup {a}
    BY DEF Missing
  <2>2. Interpolated(c, s)[i] = IF i = a THEN s ELSE others[i]
    BY <1>5, <2>1
  <2>3. CASE i = a
    BY <2>2, <2>3 DEF l
  <2>4. CASE i # a
    BY <1>7, <2>1, <2>2, <2>4
  <2> QED BY <2>3, <2>4
<1> QED
  BY <1>8 DEF l
-----------------------------------------------------------------------------
(* What the parties say is about one value and one choice of instances: the*)
(* adaptors are those of the instance chosen, and that is a sealed one; the*)
(* signatures are of the value the garbler has asserted, and it asserts    *)
(* once; the labels got from them are that value's, and so are the wires.  *)
Claimed == gpc \in Ended /\ finalized # {} /\ asserted \in Values
Claims ==
  /\ secret \in Secrets
  /\ finalized # {} =>
       assert_index \in finalized /\ adaptor_sigs = new_adaptor_sigs(assert_index)
  /\ gpc \in {"join", "done"} => finalized # {}
  /\ \A m \in Items(g2e) : m.kind = "Assert" => Claimed /\ m.body = compute_signatures(asserted)
  /\ epc \in {"extracted", "done"} => regarbled /\ Claimed /\ Recovered
  /\ LabelsMatchInput

(* Most steps do not touch what that speaks of.                            *)
Untouched ==
  /\ UNCHANGED <<fault, secret, finalized, assert_index, adaptor_sigs, asserted, wide_labels, results>>
  /\ gpc \in Ended => gpc' \in Ended
  /\ gpc' \in {"join", "done"} => gpc' = gpc \/ finalized # {}
  /\ epc' \in {"extracted", "done"} => epc' = epc
  /\ regarbled => regarbled'
  /\ \A m \in Items(g2e') : m.kind = "Assert" => m \in Items(g2e)

LEMMA SameClaims ==
  /\ UNCHANGED <<fault, secret>> => \A a : new_adaptor_sigs(a)' = new_adaptor_sigs(a)
  /\ UNCHANGED <<adaptor_sigs, assert_index>> =>
       \A v : compute_signatures(v)' = compute_signatures(v)
  /\ UNCHANGED <<finalized, wide_labels, asserted>> => (Recovered' <=> Recovered)
<1>1. UNCHANGED <<fault, secret>> => \A a : new_adaptor_sigs(a)' = new_adaptor_sigs(a)
  BY DEF new_adaptor_sigs, committed_share
<1>2. UNCHANGED <<adaptor_sigs, assert_index>> =>
        \A v : compute_signatures(v)' = compute_signatures(v)
  BY DEF compute_signatures
<1>3. UNCHANGED <<finalized, wide_labels, asserted>> => (Recovered' <=> Recovered)
  BY DEF Recovered
<1> QED
  BY <1>1, <1>2, <1>3

LEMMA UntouchedClaims == ASSUME Claims, Untouched PROVE Claims'
<1>1. UNCHANGED <<fault, secret, finalized, assert_index, adaptor_sigs, asserted, wide_labels, results>>
  BY DEF Untouched
<1>2. /\ \A a : new_adaptor_sigs(a)' = new_adaptor_sigs(a)
      /\ \A v : compute_signatures(v)' = compute_signatures(v)
      /\ Recovered' <=> Recovered
  BY <1>1, SameClaims
<1>3. Claimed => Claimed'
  BY <1>1 DEF Untouched, Claimed
<1>4. secret' \in Secrets
  BY <1>1 DEF Claims
<1>5. (finalized # {} => assert_index \in finalized /\ adaptor_sigs = new_adaptor_sigs(assert_index))'
  BY <1>1, <1>2 DEF Claims
<1>6. (gpc \in {"join", "done"} => finalized # {})'
  BY <1>1 DEF Claims, Untouched
<1>7. ASSUME NEW m \in Items(g2e)', m.kind = "Assert"
      PROVE  Claimed' /\ m.body = compute_signatures(asserted)'
  <2>1. m \in Items(g2e)
    BY <1>7 DEF Untouched
  <2>2. Claimed /\ m.body = compute_signatures(asserted)
    BY <1>7, <2>1 DEF Claims
  <2>3. compute_signatures(asserted)' = compute_signatures(asserted)
    BY <1>1 DEF compute_signatures
  <2> QED BY <1>3, <2>2, <2>3
<1>8. (epc \in {"extracted", "done"} => regarbled /\ Claimed /\ Recovered)'
  BY <1>2, <1>3 DEF Claims, Untouched
<1>9. LabelsMatchInput'
  BY <1>1 DEF Claims, Untouched, LabelsMatchInput
<1> QED
  BY <1>4, <1>5, <1>6, <1>7, <1>8, <1>9 DEF Claims

LEMMA MostUntouched ==
  ASSUME IInv, NEW i \in Instances,
         \/ GarblerCommits \/ GarblerOpens \/ GarblerJoins \/ GarblerRecvFails \/ GarblerCrash
         \/ StreamStep(i) \/ WorkerStep(i)
         \/ EvaluatorTakesOpening \/ CheckShares \/ CheckEnds \/ EvaluatorRecvFails
         \/ EvaluatorCrash
  PROVE  Untouched
<1>1. CASE GarblerCommits
  <2>1. Items(g2e') \subseteq Items(g2e) \cup {[kind |-> "Commit"]} /\ gpc' \in {"challenge", "panicked"}
    BY <1>1, Sent DEF IInv, GarblerCommits
  <2> QED BY <1>1, <2>1 DEF GarblerCommits, given, chosen, claim, check, Untouched, Ended
<1>2. CASE GarblerOpens
  <2>1. finalized # {} /\ gpc' \in {"join", "panicked"}
    BY <1>2, Sent, Taken DEF IInv, GarblerOpens, SendOpening, Messages
  <2>2. \A m \in Items(g2e') : m.kind = "Assert" => m \in Items(g2e)
    <3> DEFINE o == [kind |-> "OpenInstances", body |-> Instances \ Head(e2g).body]
    <3>1. Items(g2e') \subseteq Items(g2e) \cup {o}
      BY <1>2, Sent DEF IInv, GarblerOpens, SendOpening
    <3>2. o.kind = "OpenInstances"
      OBVIOUS
    <3> HIDE DEF o
    <3> QED BY <3>1, <3>2
  <2> QED BY <1>2, <2>1, <2>2 DEF GarblerOpens, given, chosen, claim, check, Untouched, Ended
<1>3. CASE GarblerJoins \/ GarblerRecvFails \/ GarblerCrash
  BY <1>3 DEF GarblerJoins, GarblerRecvFails, GarblerCrash, given, chosen, claim, check, Untouched, Ended
<1>4. CASE StreamStep(i)
  BY <1>4 DEF StreamStep, StreamCiphertext, StreamEnds, given, chosen, claim, check, Untouched
<1>5. CASE WorkerStep(i)
  BY <1>5 DEF WorkerStep, StartTask, DrainOne, EndDrain, Regarble, given, chosen, claim, Untouched
<1>6. CASE EvaluatorTakesOpening
  <2>1. Items(g2e') \subseteq Items(g2e)
    BY <1>6, Taken DEF IInv, EvaluatorTakesOpening
  <2> QED BY <1>6, <2>1 DEF EvaluatorTakesOpening, given, chosen, claim, check, Untouched
<1>7. CASE CheckShares \/ CheckEnds
  BY <1>7 DEF CheckShares, CheckEnds, given, chosen, claim, Untouched
<1>8. CASE EvaluatorRecvFails \/ EvaluatorCrash
  BY <1>8 DEF EvaluatorRecvFails, EvaluatorCrash, given, chosen, claim, check, Untouched
<1> QED
  BY <1>1, <1>2, <1>3, <1>4, <1>5, <1>6, <1>7, <1>8

LEMMA StartClaims == Init => Claims
<1> SUFFICES ASSUME Init PROVE Claims
  OBVIOUS
<1>1. secret \in Secrets
  BY VsssAssumption DEF Init
<1>2. finalized = {} /\ gpc = "commit" /\ epc = "commit" /\ Items(g2e) = {}
  BY EmptyQueue DEF Init
<1> QED
  BY <1>1, <1>2 DEF Claims, LabelsMatchInput

(* The evaluator's choice is made before anything else is said.            *)
LEMMA ClaimsCreated == ASSUME IInv, Claims, EvaluatorCreates PROVE Claims'
<1>1. /\ UNCHANGED <<fault, secret, gpc, asserted, regarbled, wide_labels, results>>
      /\ epc = "commit"
  BY DEF EvaluatorCreates, given, claim
<1>2. Items(g2e') \subseteq Items(g2e)
  BY Taken DEF IInv, EvaluatorCreates
<1>3. finalized = {} /\ \A m \in Items(g2e') : m.kind # "Assert"
  BY <1>1, <1>2 DEF IInv, Chosen, Claims, Claimed
<1>4. gpc \notin {"join", "done"}
  BY <1>3 DEF Claims
<1>5. epc' \in {"open", "panicked"}
  <2>1. CASE AllVerify
    <3>1. PICK S \in SUBSET Instances :
            EvaluatorSends([kind |-> "FinalizeChallenge", body |-> S], "open")
      BY <2>1 DEF EvaluatorCreates, AllVerify
    <3> QED BY <3>1, Sent DEF IInv
  <2>2. CASE ~AllVerify
    BY <2>2 DEF EvaluatorCreates, AllVerify
  <2> QED BY <2>1, <2>2
<1>6. finalized' # {} =>
        assert_index' \in finalized' /\ adaptor_sigs' = new_adaptor_sigs(assert_index)'
  <2>1. CASE AllVerify
    <3>1. PICK a \in Instances :
            a \in finalized' /\ assert_index' = a /\ adaptor_sigs' = new_adaptor_sigs(a)
      BY <2>1 DEF EvaluatorCreates, AllVerify
    <3>2. new_adaptor_sigs(assert_index)' = new_adaptor_sigs(a)
      BY <1>1, <3>1 DEF new_adaptor_sigs, committed_share
    <3> QED BY <3>1, <3>2
  <2>2. CASE ~AllVerify
    BY <1>3, <2>2 DEF EvaluatorCreates, AllVerify, chosen
  <2> QED BY <2>1, <2>2
<1> QED
  BY <1>1, <1>3, <1>4, <1>5, <1>6 DEF Claims, LabelsMatchInput

(* The garbler asserts once.                                               *)
LEMMA ClaimsAsserted == ASSUME IInv, Claims, GarblerAsserts PROVE Claims'
<1>1. /\ UNCHANGED <<fault, secret, finalized, assert_index, adaptor_sigs, epc, regarbled,
                     wide_labels, results>>
      /\ gpc = "join"
  BY DEF GarblerAsserts, given, chosen, check
<1>2. gpc \notin Ended /\ finalized # {}
  BY <1>1 DEF Claims, Ended
<1>3. epc \notin {"extracted", "done"} /\ \A m \in Items(g2e) : m.kind # "Assert"
  BY <1>2 DEF Claims, Claimed
<1>4. PICK value \in Values :
        /\ asserted' = value
        /\ GarblerSends([kind |-> "Assert", body |-> compute_signatures(value)], "done")
  BY DEF GarblerAsserts
<1> DEFINE o == [kind |-> "Assert", body |-> compute_signatures(value)]
<1>5. Items(g2e') \subseteq Items(g2e) \cup {o} /\ gpc' \in {"done", "panicked"}
  BY <1>4, Sent DEF IInv
<1>6. o.body = compute_signatures(asserted)'
  BY <1>1, <1>4 DEF compute_signatures
<1> HIDE DEF o
<1>7. Claimed'
  BY <1>1, <1>2, <1>4, <1>5 DEF Claimed, Ended
<1>8. \A m \in Items(g2e)' : m.kind = "Assert" => m.body = compute_signatures(asserted)'
  BY <1>3, <1>5, <1>6
<1>9. (finalized # {} => assert_index \in finalized /\ adaptor_sigs = new_adaptor_sigs(assert_index))'
  BY <1>1, SameClaims DEF Claims
<1>10. LabelsMatchInput' /\ secret' \in Secrets /\ finalized' # {}
  BY <1>1, <1>2, <1>3 DEF Claims, LabelsMatchInput
<1> QED
  BY <1>1, <1>3, <1>7, <1>8, <1>9, <1>10 DEF Claims

(* The evaluator gets the value's labels of all sealed instances.          *)
LEMMA ClaimsExtracted ==
  ASSUME SharingCorrect, SharesInterpolate, NoCoincidence, IInv, Claims, EvaluatorExtracts
  PROVE  Claims'
<1>1. /\ UNCHANGED <<fault, secret, gpc, finalized, assert_index, adaptor_sigs, asserted, regarbled, results>>
      /\ regarbled /\ epc = "assert" /\ epc' \in {"extracted", "panicked"}
  BY DEF EvaluatorExtracts, given, chosen
<1>2. /\ Items(g2e') \subseteq Items(g2e)
      /\ Head(g2e) \in Items(g2e) /\ Head(g2e).kind = "Assert"
  BY Taken DEF IInv, EvaluatorExtracts
<1> DEFINE a == assert_index
           sigs == Head(g2e).body
           k(c) == ChunkValue(asserted, c)
           extracted(c) == OnValues(wide_extract_secret, adaptor_sigs[c], sigs[c])
           s(c) == Shares[FirstLabel(c) + k(c)][a + 1]
<1>3. /\ Claimed /\ sigs = compute_signatures(asserted)
      /\ a \in finalized /\ adaptor_sigs = new_adaptor_sigs(a) /\ secret \in Secrets
  BY <1>2 DEF Claims, Claimed
<1>4. /\ finalized \subseteq Instances /\ Cardinality(finalized) = Finalize /\ a \in Instances
      /\ asserted \in Values
  BY <1>3 DEF IInv, Kinded, Chosen, Claimed
<1>5. /\ opened = Instances \ finalized /\ fault[a] \notin {"poly", "lookup"}
      /\ \A i \in opened : fault[i] # "share"
  BY <1>1, <1>3, <1>4, SoundlyRegarbled DEF RegarbledSound
<1>6. ASSUME NEW c \in 1 .. NumChunks PROVE extracted(c) = s(c) /\ k(c) \in 0 .. 2 ^ Width(c) - 1
  <2>1. k(c) \in 0 .. 2 ^ Width(c) - 1
    BY <1>4, BitsOfChunk
  <2>2. sigs[c] = OnValues(wide_garbler_signature, new_adaptor_sigs(a)[c],
                    ChunkLabels(wide_labels_for(a), c)[k(c) + 1])
    BY <1>3 DEF compute_signatures
  <2> DEFINE n == k(c)
  <2> HIDE DEF k, sigs
  <2>3. OnValues(wide_extract_secret, new_adaptor_sigs(a)[c],
          OnValues(wide_garbler_signature, new_adaptor_sigs(a)[c],
            ChunkLabels(wide_labels_for(a), c)[n + 1]))
          = Shares[FirstLabel(c) + n][a + 1]
    BY <1>3, <1>4, <1>5, <2>1, Extraction
  <2> QED BY <1>3, <2>1, <2>2, <2>3
<1>7. CASE \E c \in 1 .. NumChunks : ~decrypts(sent_tables(a)[c], extracted(c))
  <2>1. epc' # "extracted"
    BY <1>7 DEF EvaluatorExtracts
  <2> QED BY <1>1, <1>2, <2>1, SameClaims DEF Claims, Claimed, LabelsMatchInput
<1>8. CASE \A c \in 1 .. NumChunks : decrypts(sent_tables(a)[c], extracted(c))
  <2>1. wide_labels' = [c \in 1 .. NumChunks |->
                          OnValue(LAMBDA label : Interpolated(c, label), extracted(c))]
    BY <1>8 DEF EvaluatorExtracts
  <2> HIDE DEF extracted
  <2>2. \A c \in 1 .. NumChunks : wide_labels'[c] = Interpolated(c, extracted(c))
    BY <2>1 DEF OnValue
  <2>3. ASSUME NEW c \in 1 .. NumChunks, NEW i \in finalized
        PROVE  wide_labels'[c][i] = Shares[FirstLabel(c) + k(c)][i + 1]
    <3> DEFINE n == k(c)
               x == s(c)
    <3>1. /\ n \in 0 .. 2 ^ Width(c) - 1 /\ x = Shares[FirstLabel(c) + n][a + 1]
          /\ wide_labels'[c] = Interpolated(c, x) /\ decrypts(sent_tables(a)[c], x)
      BY <1>6, <1>8, <2>2
    <3> HIDE DEF n, x, k, s
    <3>2. Interpolated(c, x)[i] = Shares[FirstLabel(c) + n][i + 1]
      BY <1>3, <1>4, <1>5, <3>1, AllPoints
    <3> QED BY <3>1, <3>2 DEF n
  <2>4. Recovered'
    BY <1>1, <2>3 DEF Recovered
  <2> QED BY <1>1, <1>2, <1>3, <2>4, SameClaims DEF Claims, Claimed, LabelsMatchInput
<1> QED
  BY <1>7, <1>8

(* What it evaluates then is on that instance's labels of the value.       *)
LEMMA ClaimsEvaluated ==
  ASSUME SharingCorrect, NoCoincidence, IInv, Claims, EvaluatorEvaluates
  PROVE  Claims'
<1>1. /\ UNCHANGED <<fault, secret, gpc, g2e, finalized, assert_index, adaptor_sigs, asserted, regarbled,
                     wide_labels>>
      /\ epc = "extracted" /\ epc' \in {"done", "panicked"}
  BY DEF EvaluatorEvaluates, given, chosen, claim
<1>2. regarbled /\ Claimed /\ Recovered
  BY <1>1 DEF Claims
<1>3. finalized \subseteq Instances /\ asserted \in Values
  BY <1>2 DEF IInv, Kinded, Claimed
<1>4. \A i \in finalized : fault[i] # "lookup"
  BY <1>2, SoundlyRegarbled DEF RegarbledSound
<1>5. ASSUME epc' = "done" PROVE LabelsMatchInput'
  <2>1. /\ AllDecrypt /\ \A i \in finalized : EvaluatesToCommit(i)
        /\ results' = [i \in finalized |-> evaluated_wires(i)]
    BY <1>5 DEF EvaluatorEvaluates
  <2>2. ASSUME NEW i \in finalized, NEW w \in Wires
        PROVE  evaluated_wires(i)[w] = [active_label |-> <<i, w, asserted[w]>>, value |-> asserted[w]]
    <3> DEFINE c == (w - 1) \div ChunkBits + 1
               bit == w - FirstWire(c) + 1
               k == ChunkValue(asserted, c)
               x == Shares[FirstLabel(c) + k][i + 1]
               wire == evaluated_wires(i)[w]
    <3>1. c \in 1 .. NumChunks /\ bit \in 1 .. Width(c)
      BY PlaceInChunk
    <3>2. wide_labels[c][i] = x
      BY <1>2, <3>1 DEF Recovered
    <3>3. wire = lookup_evaluated_wires(sent_tables(i)[c], x)[bit]
      BY <3>2 DEF evaluated_wires
    <3>4. decrypts(sent_tables(i)[c], x)
      BY <2>1, <3>1, <3>2 DEF AllDecrypt
    <3>5. FirstWire(c) + bit - 1 = w
      <4>1. w \in Int /\ FirstWire(c) \in Int
        BY <3>1, Layout DEF Wires
      <4> HIDE DEF c
      <4> QED BY <4>1
    <3> HIDE DEF c, bit, wire
    <3>6. /\ k \in 0 .. 2 ^ Width(c) - 1
          /\ BitValue(k, Width(c), bit) <=> asserted[w]
          /\ asserted[w] \in BOOLEAN
      BY <1>3, <3>1, <3>5, BitsOfChunk
    <3> HIDE DEF k
    <3>7. wire = [active_label |-> wire.active_label, value |-> BitValue(k, Width(c), bit)]
      BY <1>3, <1>4, <3>1, <3>3, <3>4, <3>6, Looked
    <3>8. /\ input_labels_for(i)[w].label0 = <<i, w, FALSE>>
          /\ input_labels_for(i)[w].label1 = <<i, w, TRUE>>
      BY DEF input_labels_for
    <3>9. wire.active_label = IF wire.value THEN <<i, w, TRUE>> ELSE <<i, w, FALSE>>
      BY <2>1, <3>8 DEF EvaluatesToCommit, wire
    <3>10. wire.value = BitValue(k, Width(c), bit)
      BY <3>7
    <3> DEFINE v == asserted[w]
    <3>11. v \in BOOLEAN /\ wire.value = v
      <4> DEFINE b == BitValue(k, Width(c), bit)
      <4>1. b \in BOOLEAN
        BY DEF BitValue
      <4>2. (b <=> v) /\ v \in BOOLEAN /\ wire.value = b
        BY <3>6, <3>10
      <4> HIDE DEF b, v
      <4>3. CASE v
        BY <4>1, <4>2, <4>3
      <4>4. CASE ~v
        BY <4>1, <4>2, <4>4
      <4> QED BY <4>3, <4>4
    <3> HIDE DEF v
    <3>12. wire.active_label = <<i, w, v>>
      <4>1. CASE v = TRUE
        BY <3>9, <3>11, <4>1
      <4>2. CASE v = FALSE
        BY <3>9, <3>11, <4>2
      <4> QED BY <3>11, <4>1, <4>2
    <3>13. wire = [active_label |-> <<i, w, v>>, value |-> v]
      BY <3>7, <3>10, <3>11, <3>12
    <3> QED BY <3>13 DEF wire, v
  <2>3. /\ DOMAIN results' = finalized'
        /\ \A i \in finalized', w \in Wires :
             results'[i][w] = [active_label |-> <<i, w, asserted'[w]>>, value |-> asserted'[w]]
    BY <1>1, <2>1, <2>2
  <2> QED BY <2>3 DEF LabelsMatchInput
<1>6. LabelsMatchInput'
  BY <1>5 DEF LabelsMatchInput
<1>7. (epc \in {"extracted", "done"} => regarbled /\ Claimed /\ Recovered)'
  BY <1>1, <1>2, SameClaims DEF Claimed
<1>8. (\A m \in Items(g2e) : m.kind = "Assert" => Claimed /\ m.body = compute_signatures(asserted))'
  BY <1>1, SameClaims DEF Claims, Claimed
<1> QED
  BY <1>1, <1>6, <1>7, <1>8, SameClaims DEF Claims

(* All steps keep it.                                                      *)
LEMMA ClaimsInvariant ==
  ASSUME SharingCorrect, SharesInterpolate, NoCoincidence
  PROVE  Spec => []Claims
<1>1. IInv /\ Claims /\ [Next]_vars => Claims'
  <2> SUFFICES ASSUME IInv, Claims, [Next]_vars PROVE Claims'
    OBVIOUS
  <2>1. 0 \in Instances
    BY Numbers
  <2>2. CASE GarblerStep \/ GarblerCrash
    BY <2>1, <2>2, MostUntouched, UntouchedClaims, ClaimsAsserted DEF GarblerStep
  <2>3. CASE EvaluatorStep \/ EvaluatorCrash
    BY <2>1, <2>3, MostUntouched, UntouchedClaims, ClaimsCreated, ClaimsExtracted, ClaimsEvaluated
    DEF EvaluatorStep
  <2>4. ASSUME NEW i \in Instances, StreamStep(i) \/ WorkerStep(i) PROVE Claims'
    BY <2>4, MostUntouched, UntouchedClaims
  <2>5. CASE UNCHANGED vars
    <3>1. Untouched
      BY <2>5 DEF vars, Untouched
    <3> QED BY <3>1, UntouchedClaims
  <2> QED
    BY <2>2, <2>3, <2>4, <2>5 DEF Next
<1> QED
  BY <1>1, StartClaims, Invariance, PTL DEF Spec

(* The garbler gives labels of one instance only, and those in signatures; *)
(* yet when the evaluator is done it has evaluated every sealed instance on*)
(* that instance's own labels of the one value the garbler asserted,       *)
(* whatever fault an instance has and whoever crashes.                     *)
THEOREM OwnLabels ==
  ASSUME SharingCorrect, SharesInterpolate, NoCoincidence
  PROVE  Spec => []LabelsMatchInput
<1>1. Claims => LabelsMatchInput
  BY DEF Claims
<1> QED
  BY <1>1, ClaimsInvariant, PTL
-----------------------------------------------------------------------------
(* What is a multiple of Q more, or is reduced before it is added or       *)
(* subtracted, leaves the same.                                            *)
LEMMA Shifted ==
  ASSUME SharingCorrect PROVE \A a, k \in Int : (a + k * Q) % Q = a % Q
<1> SUFFICES ASSUME NEW a \in Int, NEW k \in Int PROVE (a + k * Q) % Q = a % Q
  OBVIOUS
<1> DEFINE q == a \div Q
           r == a % Q
<1>0. Q \in Nat \ {0}
  BY DEF SharingCorrect
<1>1. a = Q * q + r /\ r \in 0 .. Q - 1 /\ q \in Int
  BY <1>0
<1> HIDE DEF q, r
<1>2. a + k * Q = Q * (q + k) + r
  BY <1>0, <1>1
<1>3. \A x \in Int : (Q * x + r) % Q = r
  BY <1>0, <1>1
<1>4. (a + k * Q) % Q = r
  BY <1>0, <1>1, <1>2, <1>3
<1> QED BY <1>4 DEF r

LEMMA Reduced ==
  ASSUME SharingCorrect
  PROVE  \A a, b \in Int : /\ ((a % Q) + b) % Q = (a + b) % Q
                           /\ (b + (a % Q)) % Q = (a + b) % Q
                           /\ (b - (a % Q)) % Q = (b - a) % Q
<1> SUFFICES ASSUME NEW a \in Int, NEW b \in Int
             PROVE  /\ ((a % Q) + b) % Q = (a + b) % Q
                    /\ (b + (a % Q)) % Q = (a + b) % Q
                    /\ (b - (a % Q)) % Q = (b - a) % Q
  OBVIOUS
<1> DEFINE q == a \div Q
           r == a % Q
<1>0. Q \in Nat \ {0}
  BY DEF SharingCorrect
<1>1. a = Q * q + r /\ r \in 0 .. Q - 1 /\ q \in Int
  BY <1>0
<1> HIDE DEF q, r
<1>2. a + b = (r + b) + q * Q /\ b - r = (b - a) + q * Q /\ b + r = r + b
  BY <1>0, <1>1
<1>3. r + b \in Int /\ b - a \in Int
  BY <1>0, <1>1
<1>4. ((r + b) + q * Q) % Q = (r + b) % Q
  BY <1>1, <1>3, Shifted
<1>5. ((b - a) + q * Q) % Q = (b - a) % Q
  BY <1>1, <1>3, Shifted
<1>6. (r + b) % Q = (a + b) % Q /\ (b + r) % Q = (a + b) % Q /\ (b - r) % Q = (b - a) % Q
  BY <1>2, <1>4, <1>5
<1> QED BY <1>6 DEF r

(* The even one of a point and its negation.                               *)
Even(P) == IF is_odd(P) THEN Q - P ELSE P

LEMMA EvenPoint ==
  ASSUME SharingCorrect, NEW P \in 1 .. Q - 1
  PROVE  /\ Even(P) \in 1 .. Q - 1 /\ ~is_odd(Even(P)) /\ is_odd(Q - Even(P))
         /\ xOf(P) = {Even(P), Q - Even(P)} /\ xOf(Even(P)) = xOf(P)
         /\ (CHOOSE p \in xOf(P) : ~is_odd(p)) = Even(P)
<1> DEFINE E == Even(P)
<1>1. Q \in Nat /\ Q > 1
  BY DEF SharingCorrect
<1>2. \A p \in 1 .. Q - 1 : /\ Q - p \in 1 .. Q - 1 /\ Q - (Q - p) = p
                            /\ (Q - p) % Q = Q - p
  BY <1>1
<1>3. \A p \in 1 .. Q - 1 : is_odd(p) \in BOOLEAN /\ (is_odd(p) <=> ~is_odd(Q - p))
  BY PointAssumption DEF is_odd
<1>4. \A p \in 1 .. Q - 1 : xOf(p) = {p, Q - p}
  BY <1>2 DEF xOf, minus_point
<1>5. E \in 1 .. Q - 1 /\ ~is_odd(E)
  <2>1. CASE is_odd(P)
    BY <1>2, <1>3, <2>1 DEF Even
  <2>2. CASE ~is_odd(P)
    BY <2>2 DEF Even
  <2> QED BY <2>1, <2>2
<1>6. E = P \/ E = Q - P
  BY DEF Even
<1> HIDE DEF E
<1>7. is_odd(Q - E)
  BY <1>3, <1>5
<1>8. xOf(P) = {E, Q - E} /\ xOf(E) = {E, Q - E}
  <2>1. CASE E = P
    BY <1>4, <2>1
  <2>2. CASE E = Q - P
    BY <1>2, <1>4, <1>5, <2>2
  <2> QED BY <1>6, <2>1, <2>2
<1>9. (CHOOSE p \in xOf(P) : ~is_odd(p)) = E
  <2> DEFINE c == CHOOSE p \in xOf(P) : ~is_odd(p)
  <2>1. E \in xOf(P)
    BY <1>8
  <2>2. c \in xOf(P) /\ ~is_odd(c)
    BY <1>5, <2>1
  <2> HIDE DEF c
  <2>3. c = E
    BY <1>7, <1>8, <2>2
  <2> QED BY <2>3 DEF c
<1> QED
  BY <1>5, <1>7, <1>8, <1>9 DEF E

(* A completed signature, checked by whoever knows the evaluator's key.    *)
LEMMA Passes ==
  ASSUME SharingCorrect, NEW d \in 1 .. Q - 1, NEW g \in Fr, NEW n \in Fr, NEW c, NEW e \in Fr,
         e = ChallengeHash(xOf((g + n) % Q), xOf(d), c),
         (g + n) % Q # 0, (2 * e * d) % Q # 0
  PROVE  BIP340_verify(d, c, garbler_signature(AdaptorInfo_new(d, g, c, n), g)) <=> ~is_odd(d)
<1> DEFINE P == (g + n) % Q
           t == e * d
           x == AdaptorInfo_new(d, g, c, n)
           sig == garbler_signature(x, g)
           E == Even(P)
           D == Even(d)
           R == (sig.s + minus(e * D % Q)) % Q
<1>1. /\ Q \in Nat /\ Q > 1 /\ d \in Int /\ e \in Int /\ g \in Int /\ n \in Int
      /\ d \in 1 .. Q - 1
  BY DEF SharingCorrect, Fr
<1>2. P \in 1 .. Q - 1 /\ t \in Int
  <2>1. (g + n) % Q \in 0 .. Q - 1
    BY <1>1
  <2> QED BY <1>1, <2>1
<1>3. /\ E \in 1 .. Q - 1 /\ ~is_odd(E) /\ is_odd(Q - E) /\ xOf(P) = {E, Q - E}
      /\ xOf(E) = xOf(P)
  BY <1>2, EvenPoint
<1>4. D = (CHOOSE p \in xOf(d) : ~is_odd(p)) /\ D \in 1 .. Q - 1
  BY <1>1, EvenPoint
<1>5. /\ x.garbler_commit = g /\ x.evaluator_nonce_commit = n
      /\ x.evaluator_s = (EvenNonce(P, n) + t) % Q
  BY DEF AdaptorInfo_new
<1> HIDE DEF x
<1>6. commit_sum(x) = P
  BY <1>1, <1>5 DEF commit_sum
<1> DEFINE v == x.evaluator_s
<1>7. /\ sig.r = xOf(P)
      /\ sig.s = IF is_odd(P) THEN (v + minus(g)) % Q ELSE (v + g) % Q
  BY <1>6 DEF garbler_signature
<1> HIDE DEF sig
<1>8. v \in Int
  <2>1. EvenNonce(P, n) \in Int
    BY <1>1 DEF EvenNonce, minus
  <2> QED BY <1>1, <1>2, <1>5, <2>1
<1> DEFINE S == E + t
<1>9. sig.s = S % Q
  <2> HIDE DEF v, t
  <2>1. CASE is_odd(P)
    <3>1. v = (minus(n) + t) % Q /\ sig.s = (v + minus(g)) % Q /\ E = Q - P
      BY <1>5, <1>7, <2>1 DEF EvenNonce, v, Even
    <3>2. v = ((Q - n) + t) % Q
      <4>1. (((Q - n) % Q) + t) % Q = ((Q - n) + t) % Q
        BY <1>1, <1>2, Reduced
      <4> QED BY <3>1, <4>1 DEF minus
    <3>3. sig.s = (v + (Q - g)) % Q
      <4>1. (v + ((Q - g) % Q)) % Q = ((Q - g) + v) % Q
        BY <1>1, <1>8, Reduced
      <4>2. (Q - g) + v = v + (Q - g)
        BY <1>1, <1>8
      <4> QED BY <3>1, <4>1, <4>2 DEF minus
    <3>4. sig.s = (((Q - n) + t) + (Q - g)) % Q
      <4> DEFINE y == (Q - n) + t
                 z == Q - g
      <4>1. y \in Int /\ z \in Int
        BY <1>1, <1>2
      <4> HIDE DEF y, z
      <4>2. ((y % Q) + z) % Q = (y + z) % Q
        BY <4>1, Reduced
      <4> QED BY <3>2, <3>3, <4>2 DEF y, z
    <3>5. S % Q = ((Q + t) - (g + n)) % Q
      <4>1. S = (Q + t) - P
        BY <1>1, <1>2, <3>1
      <4> DEFINE y == Q + t
                 z == g + n
      <4>2. y \in Int /\ z \in Int
        BY <1>1, <1>2
      <4> HIDE DEF y, z, S
      <4>3. (y - (z % Q)) % Q = (y - z) % Q
        BY <4>2, Reduced
      <4> QED BY <4>1, <4>3 DEF y, z
    <3>6. ((Q - n) + t) + (Q - g) = ((Q + t) - (g + n)) + 1 * Q /\ (Q + t) - (g + n) \in Int
      BY <1>1, <1>2
    <3> QED BY <3>4, <3>5, <3>6, Shifted
  <2>2. CASE ~is_odd(P)
    <3>1. v = (n + t) % Q /\ sig.s = (v + g) % Q /\ E = P
      BY <1>5, <1>7, <2>2 DEF EvenNonce, v, Even
    <3>2. sig.s = ((n + t) + g) % Q
      <4> DEFINE y == n + t
      <4>1. y \in Int
        BY <1>1, <1>2
      <4> HIDE DEF y
      <4>2. ((y % Q) + g) % Q = (y + g) % Q
        BY <1>1, <4>1, Reduced
      <4> QED BY <3>1, <4>2 DEF y
    <3>3. S % Q = ((g + n) + t) % Q
      <4> DEFINE y == g + n
      <4>1. y \in Int
        BY <1>1
      <4> HIDE DEF y
      <4>2. ((y % Q) + t) % Q = (y + t) % Q
        BY <1>2, <4>1, Reduced
      <4> QED BY <3>1, <4>2 DEF y
    <3>4. (n + t) + g = (g + n) + t
      BY <1>1, <1>2
    <3> QED BY <3>2, <3>3, <3>4
  <2> QED BY <2>1, <2>2
<1> DEFINE u == e * D
<1>10. u \in Int /\ S \in Int
  BY <1>1, <1>2, <1>3, <1>4
<1> HIDE DEF P, E, D, v, t
<1>11. R = (S - u) % Q
  <2> HIDE DEF S, u
  <2>1. R = ((S % Q) + ((Q - (u % Q)) % Q)) % Q
    BY <1>9 DEF minus, u
  <2>2. u % Q \in Int
    BY <1>1, <1>10
  <2>3. ((S % Q) + ((Q - (u % Q)) % Q)) % Q = (S + ((Q - (u % Q)) % Q)) % Q
    <3>1. (Q - (u % Q)) % Q \in Int
      BY <1>1, <2>2
    <3> QED BY <1>10, <3>1, Reduced
  <2>4. (S + ((Q - (u % Q)) % Q)) % Q = ((Q - (u % Q)) + S) % Q
    <3>1. Q - (u % Q) \in Int
      BY <1>1, <2>2
    <3> QED BY <1>10, <3>1, Reduced
  <2>5. (Q - (u % Q)) + S = (S + Q) - (u % Q)
    BY <1>1, <1>10, <2>2
  <2>6. ((S + Q) - (u % Q)) % Q = ((S + Q) - u) % Q
    <3>1. S + Q \in Int
      BY <1>1, <1>10
    <3> QED BY <1>10, <3>1, Reduced
  <2>7. (S + Q) - u = (S - u) + 1 * Q /\ S - u \in Int
    BY <1>1, <1>10
  <2>8. ((S + Q) - u) % Q = (S - u) % Q
    BY <2>7, Shifted
  <2> QED BY <2>1, <2>3, <2>4, <2>5, <2>6, <2>8
<1>12. BIP340_verify(d, c, sig) <=> ~is_odd(R) /\ xOf(R) = xOf(P)
  <2>1. e = ChallengeHash(sig.r, xOf(d), c)
    BY <1>7 DEF P
  <2> QED BY <1>4, <1>7, <2>1 DEF BIP340_verify
<1>13. CASE ~is_odd(d)
  <2>1. u = t
    BY <1>13 DEF D, Even, t
  <2>2. S - u = E
    BY <1>2, <1>3, <2>1
  <2>3. R = E
    BY <1>1, <1>3, <1>11, <2>2
  <2> HIDE DEF R
  <2> QED BY <1>3, <1>12, <1>13, <2>3 DEF sig, x
<1>14. CASE is_odd(d)
  <2>1. u = e * Q - t
    BY <1>1, <1>14 DEF D, Even, t
  <2>2. S - u = (E + 2 * t) + (0 - e) * Q /\ E + 2 * t \in Int /\ 0 - e \in Int
    BY <1>1, <1>2, <1>3, <2>1
  <2>3. R = (E + 2 * t) % Q
    BY <1>11, <2>2, Shifted
  <2>4. R # E
    <3> SUFFICES ASSUME R = E PROVE FALSE
      OBVIOUS
    <3>1. 2 * t \in Int /\ E \in Int /\ 2 * t = 2 * e * d
      BY <1>1, <1>2, <1>3 DEF t
    <3> DEFINE y == E + 2 * t
    <3>2. y \in Int /\ y % Q = E
      BY <2>3, <3>1
    <3>3. 2 * t = y - E
      BY <3>1
    <3> HIDE DEF y, R
    <3>4. y = Q * (y \div Q) + E /\ y \div Q \in Int
      BY <1>1, <3>2
    <3>5. 2 * t = 0 + (y \div Q) * Q
      BY <1>1, <3>1, <3>3, <3>4
    <3>6. (2 * t) % Q = 0 % Q
      BY <3>4, <3>5, Shifted
    <3>7. 0 % Q = 0
      BY <1>1
    <3> QED BY <3>1, <3>6, <3>7
  <2> HIDE DEF R
  <2>5. ~(~is_odd(R) /\ xOf(R) = xOf(P))
    <3> SUFFICES ASSUME ~is_odd(R), xOf(R) = xOf(P) PROVE FALSE
      OBVIOUS
    <3>1. R \in {E, Q - E}
      BY <1>3 DEF xOf
    <3> QED BY <1>3, <2>4, <3>1
  <2> QED BY <1>12, <1>14, <2>5 DEF sig, x
<1> QED
  BY <1>13, <1>14

(* What the garbler publishes passes or fails BIP-340 with the sign of the *)
(* evaluator's secret alone, for any nonces and shares.                    *)
THEOREM Signatures ==
  ASSUME SharingCorrect, SharesInterpolate, NoCoincidence, NoDegeneracy
  PROVE  Spec => []SignaturesVerify
<1>1. IInv /\ Claims => SignaturesVerify
  <2> SUFFICES ASSUME IInv, Claims, NEW j \in DOMAIN g2e, g2e[j].kind = "Assert",
                      NEW c \in 1 .. NumChunks
               PROVE  BIP340_verify(secret, c, g2e[j].body[c]) <=> ~is_odd(secret)
    BY DEF SignaturesVerify
  <2> DEFINE a == assert_index
             k == ChunkValue(asserted, c)
             l == FirstLabel(c) + k
             g == Shares[l][a + 1]
             n == Nonce(l)
             P == (g + n) % Q
             e == ChallengeHash(xOf(P), xOf(secret), c)
  <2>1. Claimed /\ g2e[j].body = compute_signatures(asserted) /\ secret \in Secrets
    BY DEF Claims, Items
  <2>2. /\ a \in Instances /\ adaptor_sigs = new_adaptor_sigs(a) /\ asserted \in Values
        /\ AllVerify
    BY <2>1 DEF IInv, Kinded, Chosen, Claims, Claimed
  <2>3. fault[a] # "poly"
    BY <2>2, ForeignShareFound
  <2>4. k \in 0 .. 2 ^ Width(c) - 1
    BY <2>2, BitsOfChunk
  <2>5. g2e[j].body[c] = OnValues(wide_garbler_signature, new_adaptor_sigs(a)[c],
                           ChunkLabels(wide_labels_for(a), c)[k + 1])
    BY <2>1, <2>2 DEF compute_signatures
  <2> HIDE DEF k
  <2>6. OnValues(wide_garbler_signature, new_adaptor_sigs(a)[c],
                 ChunkLabels(wide_labels_for(a), c)[k + 1])
          = garbler_signature(new_adaptor_sigs(a)[c][k + 1], g)
    BY <2>1, <2>2, <2>3, <2>4, Extraction
  <2>7. new_adaptor_sigs(a)[c][k + 1] = AdaptorInfo_new(secret, g, c, n)
    BY <2>1, <2>2, <2>3, <2>4, Infos
  <2>8. g \in Fr /\ n \in Fr
    BY <2>2, <2>3, <2>4, OwnShares
  <2>9. P # 0 /\ (2 * e * secret) % Q # 0
    <3>1. l \in LabelsOf(c)
      BY <2>4, Layout
    <3> HIDE DEF l
    <3> QED BY <2>1, <2>2, <3>1 DEF NoDegeneracy
  <2>10. secret \in 1 .. Q - 1 /\ e \in Fr
    <3>1. P \in Fr
      <4>1. Q \in Nat /\ Q > 1 /\ g \in Int /\ n \in Int
        BY <2>8 DEF Fr, SharingCorrect
      <4> HIDE DEF g, n
      <4> QED BY <4>1 DEF Fr
    <3> HIDE DEF P
    <3> QED BY <2>1, <3>1, VsssAssumption, ScalarAssumption
  <2> HIDE DEF g, n
  <2>11. BIP340_verify(secret, c, garbler_signature(AdaptorInfo_new(secret, g, c, n), g))
           <=> ~is_odd(secret)
    BY <2>8, <2>9, <2>10, Passes
  <2> QED BY <2>5, <2>6, <2>7, <2>11
<1> QED
  BY <1>1, Invariance, ClaimsInvariant, PTL
=============================================================================
