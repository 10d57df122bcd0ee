------------------------------- MODULE VsssSetup -------------------------------
(***************************************************************************)
(* Cut-and-choose with verifiable secret sharing: Garbler and Evaluator of *)
(* src/cut_and_choose/vsss, run against each other as in                   *)
(* examples/gsv_vsss.rs.  Every value of every chunk of input wires has a  *)
(* polynomial, and instance i's wide label for it is the share at i.  The  *)
(* opened instances give all their shares; one signature then gives one    *)
(* more share of the asserted value's polynomials, and with it all others. *)
(*                                                                         *)
(* The label of wire w for value b in instance i is <<i, w, b>>.  What is  *)
(* the same in every behaviour (polynomials, shares, tables) is defined by *)
(* operators; `fault` says what of an instance is not as it should be.     *)
(***************************************************************************)
EXTENDS SecretSharing

CONSTANTS
  Total,           \* Config.total, the number of instances
  Finalize,        \* Config.finalized_count, how many stay sealed
  Ciphertexts,     \* length of an instance's ciphertext stream
  StreamBound,     \* STREAM_BOUND_CIPHERTEXTS
  PoolSize,        \* threads of get_optimized_pool
  NumInputs,       \* input wires of the circuit
  ChunkBits,       \* wires of a chunk: 8 in the code
  Coefficient(_, _),  \* of label l, `Polynomial::rand`'s value at k
  Nonce(_),        \* of label l, the evaluator's nonce
  Faulty,          \* the instances that may have a fault
  Secrets,         \* the evaluator's secrets to try
  Values           \* the input values to try

ASSUME VsssAssumption ==
  /\ Total \in Nat /\ Finalize \in 1 .. Total
  /\ {Ciphertexts, StreamBound, PoolSize, NumInputs, ChunkBits} \subseteq Nat \ {0}
  /\ Faulty \subseteq 0 .. Total - 1
  /\ Secrets \subseteq 1 .. Q - 1 /\ Secrets # {}
  /\ Values \subseteq [1 .. NumInputs -> BOOLEAN]

Instances == 0 .. Total - 1
Wires == 1 .. NumInputs
NumChunks == (NumInputs + ChunkBits - 1) \div ChunkBits
FirstWire(c) == (c - 1) * ChunkBits + 1
Width(c) == IF c < NumChunks THEN ChunkBits ELSE NumInputs - FirstWire(c) + 1
FirstLabel(c) == (c - 1) * 2 ^ ChunkBits + 1
LabelsOf(c) == FirstLabel(c) .. FirstLabel(c) + 2 ^ Width(c) - 1
NumLabels == FirstLabel(NumChunks) + 2 ^ Width(NumChunks) - 1

(* Nonces are scalars, and so is what BIP0340/challenge hashes to.         *)
ASSUME ScalarAssumption ==
  /\ \A l \in 1 .. NumLabels : Nonce(l) \in Fr
  /\ \A R \in Fr, d \in Secrets, c \in 1 .. NumChunks :
       ChallengeHash(xOf(R), xOf(d), c) \in Fr

(* Mutant: one point too few, so the opened shares alone give the rest.    *)
DegreeShort == Total - Finalize - 1
Degree == Total - Finalize

polynomials == [l \in 1 .. NumLabels |-> [k \in 1 .. Degree + 1 |-> Coefficient(l, k - 1)]]
Shares == [l \in 1 .. NumLabels |-> shares(polynomials[l], Total)]
wide_labels_for(i) == [l \in 1 .. NumLabels |-> Shares[l][i + 1]]

(* `SubSeq` by chunk, and a table for each chunk.                          *)
ChunkLabels(s, c) == SubSeq(s, FirstLabel(c), FirstLabel(c) + 2 ^ Width(c) - 1)
ChunkWires(s, c) == SubSeq(s, FirstWire(c), FirstWire(c) + Width(c) - 1)
build_all(byte_labels, bit_labels) ==
  [c \in 1 .. NumChunks |->
     GarbledWideLabelTable_new(ChunkLabels(byte_labels, c), ChunkWires(bit_labels, c))]

input_labels_for(i) ==
  [w \in Wires |-> [label0 |-> <<i, w, FALSE>>, label1 |-> <<i, w, TRUE>>]]

(* What may be wrong with an instance: a committed share is not the        *)
(* polynomial's, an opened share is not the committed one, the tables have *)
(* other keys than the shares or hold other labels, other tables are sent  *)
(* than committed to, the ciphertext hash or the labels of its commitment, *)
(* or its streaming thread panics before the end.                          *)
FaultKinds ==
  {"none", "poly", "share", "keys", "tables", "lookup", "hash", "labels", "stream"}

VARIABLES
  fault,         \* the fault of each instance; never changes
  crash,         \* the thread that may panic at any time; never changes
  secret,        \* EvaluatorAdaptorSigs.secret; never changes
  gpc,           \* where run_garbler is
  stage,         \* Garbler.stage: Generating, or the finalized indexes
  assert_index,  \* Challenge.assert_index, chosen by the evaluator
  adaptor_sigs,  \* Challenge.adaptor_sigs: those of each chunk
  thread,        \* the streaming threads: idle, running, ended or panicked
  flight,        \* ciphertexts in each bounded channel
  sent,          \* ciphertexts each thread has sent
  g2e,           \* messages to the evaluator
  e2g,           \* messages to the garbler
  epc,           \* where run_evaluator is
  finalized,     \* Evaluator.finalized_indexes
  opened,        \* the instances of open_instance_data
  share_check,   \* the share-verification task: todo, ok or err
  task,          \* the task of each index: todo, busy, ok or err
  file,          \* ciphertexts written to gc_<index>.bin
  regarbled,     \* Evaluator.regarbled
  asserted,      \* the input value signed by the garbler
  wide_labels,   \* of each sealed instance, as recovered from the signatures
  results        \* evaluate_from: the input wires used for each instance

vars == <<fault, crash, secret, gpc, stage, assert_index, adaptor_sigs, thread, flight, sent, g2e, e2g,
          epc, finalized, opened, share_check, task, file, regarbled, asserted,
          wide_labels, results>>
given == <<fault, crash, secret>>
streams == <<thread, flight, sent>>
check == <<share_check, task, file>>
claim == <<asserted, wide_labels>>
chosen == <<finalized, assert_index, adaptor_sigs>>

Ended == {"done", "panicked"}
GarblerGone == gpc \in Ended
EvaluatorGone == epc \in Ended
Honest == crash = "none" /\ \A i \in Instances : fault[i] = "none"

(* One fault or one crash, and any secret when there is none.              *)
Init ==
  /\ \/ /\ fault = [i \in Instances |-> "none"]
        /\ crash = "none"
        /\ secret \in Secrets
     \/ /\ \E i \in Faulty, kind \in FaultKinds :
             fault = [j \in Instances |-> IF j = i THEN kind ELSE "none"]
        /\ crash = "none"
        /\ secret = CHOOSE d \in Secrets : TRUE
     \/ /\ fault = [i \in Instances |-> "none"]
        /\ crash \in {"garbler", "evaluator"}
        /\ secret = CHOOSE d \in Secrets : TRUE
  /\ gpc = "commit" /\ epc = "commit"
  /\ stage = [name |-> "Generating", finalized |-> {}]
  /\ assert_index = 0 /\ adaptor_sigs = <<>>
  /\ thread = [i \in Instances |-> "idle"]
  /\ flight = [i \in Instances |-> 0]
  /\ sent = [i \in Instances |-> 0]
  /\ g2e = <<>> /\ e2g = <<>>
  /\ finalized = {} /\ opened = {}
  /\ share_check = "todo"
  /\ task = [i \in Instances |-> "todo"]
  /\ file = [i \in Instances |-> 0]
  /\ regarbled = FALSE
  /\ asserted = <<>> /\ wide_labels = <<>>
  /\ results = <<>>
-------------------------------------------------------------------------------
(* What the garbler commits to, and what it sends.                         *)
Perturbed(s) == (s + 1) % Q
polynomial_commits == [l \in 1 .. NumLabels |-> coefficient_commits(polynomials[l])]
ShareCommits == [l \in 1 .. NumLabels |-> share_commits(polynomials[l], Total)]
committed_share(l, i) ==
  IF fault[i] = "poly" THEN Perturbed(ShareCommits[l][i + 1]) ELSE ShareCommits[l][i + 1]
committed_shares(l) == [k \in 1 .. Total |-> committed_share(l, k - 1)]
opened_shares(i) ==
  [l \in 1 .. NumLabels |->
     IF fault[i] = "share" THEN Perturbed(wide_labels_for(i)[l]) ELSE wide_labels_for(i)[l]]
Swapped(bit_labels) ==
  [w \in Wires |-> [label0 |-> bit_labels[w].label1, label1 |-> bit_labels[w].label0]]
committed_tables(i) ==
  build_all(IF fault[i] = "keys" THEN [l \in 1 .. NumLabels |-> Perturbed(wide_labels_for(i)[l])]
            ELSE wide_labels_for(i),
            IF fault[i] = "tables" THEN Swapped(input_labels_for(i)) ELSE input_labels_for(i))
sent_tables(i) ==
  IF fault[i] = "lookup" THEN build_all(wide_labels_for(i), Swapped(input_labels_for(i)))
  ELSE committed_tables(i)
-------------------------------------------------------------------------------
(* `send(..).expect(..)`: the message is queued, or the sender panics when *)
(* the receiver is gone.                                                   *)
GarblerSends(message, next) ==
  \/ /\ ~EvaluatorGone
     /\ g2e' = Append(g2e, message)
     /\ gpc' = next
  \/ /\ EvaluatorGone
     /\ gpc' = "panicked"
     /\ UNCHANGED g2e

EvaluatorSends(message, next) ==
  \/ /\ ~GarblerGone
     /\ e2g' = Append(e2g, message)
     /\ epc' = next
  \/ /\ GarblerGone
     /\ epc' = "panicked"
     /\ UNCHANGED e2g

Arrived(queue, kind) == queue # <<>> /\ Head(queue).kind = kind

(* `create` and `commit`.                                                  *)
GarblerCommits ==
  /\ gpc = "commit"
  /\ GarblerSends([kind |-> "Commit"], "challenge")
  /\ UNCHANGED <<given, stage, chosen, streams, e2g, epc, opened, check, regarbled, claim, results>>

(* Mutant: the opening is to be sent after the streaming threads are joined.*)
OpeningAfterJoin(challenge) == gpc' = "join" /\ UNCHANGED g2e

(* `open_commit` has returned: its openings go out before any thread ends. *)
SendOpening(challenge) ==
  GarblerSends([kind |-> "OpenInstances", body |-> Instances \ challenge], "join")

(* `open_commit`: the finalized instances are garbled again and streamed by*)
(* threads of their own; of all others seed and shares go out, and of the  *)
(* finalized ones the tables.                                              *)
GarblerOpens ==
  /\ gpc = "challenge"
  /\ Arrived(e2g, "FinalizeChallenge")
  /\ e2g' = Tail(e2g)
  /\ stage.name = "Generating"
  /\ LET challenge == Head(e2g).body
     IN  /\ stage' = [name |-> "PreparedForEval", finalized |-> challenge]
         /\ thread' = [i \in Instances |-> IF i \in challenge THEN "running" ELSE "idle"]
         /\ SendOpening(challenge)
  /\ UNCHANGED <<given, chosen, flight, sent, epc, opened, check, regarbled, claim, results>>

(* `thread.join().unwrap()`, in the order of the indexes: the first that   *)
(* panicked takes the garbler with it.                                     *)
GarblerJoins ==
  /\ gpc = "join"
  /\ \E i \in stage.finalized :
       /\ thread[i] = "panicked"
       /\ \A j \in stage.finalized : j < i => thread[j] = "ended"
  /\ gpc' = "panicked"
  /\ UNCHANGED <<given, stage, chosen, streams, g2e, e2g, epc, opened, check, regarbled, claim, results>>

(* `Challenge::compute_signatures`: of each chunk the wide label of the    *)
(* value's bits, highest first, completes one of its adaptor signatures.   *)
ChunkValue(value, c) ==
  LET bit(w) == IF value[w] THEN 1 ELSE 0
      acc[w \in FirstWire(c) - 1 .. FirstWire(c) + Width(c) - 1] ==
        IF w < FirstWire(c) THEN 0 ELSE acc[w - 1] * 2 + bit(w)
  IN acc[FirstWire(c) + Width(c) - 1]
compute_signatures(value) ==
  [c \in 1 .. NumChunks |->
     OnValues(wide_garbler_signature, adaptor_sigs[c],
       ChunkLabels(wide_labels_for(assert_index), c)[ChunkValue(value, c) + 1])]

(* All threads have been joined: the proof is made, its bits are signed.   *)
(* The Assert goes out whether or not the evaluator is done checking.      *)
GarblerAsserts ==
  /\ gpc = "join"
  /\ \A i \in stage.finalized : thread[i] = "ended"
  /\ \E value \in Values :
       /\ ~Honest => value = CHOOSE v \in Values : TRUE
       /\ asserted' = value
       /\ GarblerSends([kind |-> "Assert", body |-> compute_signatures(value)], "done")
  /\ UNCHANGED <<given, stage, chosen, streams, e2g, epc, opened, check, regarbled, wide_labels, results>>

GarblerRecvFails ==
  /\ gpc = "challenge"
  /\ e2g = <<>>
  /\ EvaluatorGone
  /\ gpc' = "panicked"
  /\ UNCHANGED <<given, stage, chosen, streams, g2e, e2g, epc, opened, check, regarbled, claim, results>>

GarblerCrash ==
  /\ crash = "garbler"
  /\ ~GarblerGone
  /\ gpc' = "panicked"
  /\ UNCHANGED <<given, stage, chosen, streams, g2e, e2g, epc, opened, check, regarbled, claim, results>>
-------------------------------------------------------------------------------
StreamLength(i) == IF fault[i] = "stream" THEN Ciphertexts - 1 ELSE Ciphertexts

(* Mutant: the channel has no bound.                                       *)
SendUnbounded(i) ==
  /\ thread[i] = "running"
  /\ ~EvaluatorGone
  /\ sent[i] < StreamLength(i)
  /\ sent' = [sent EXCEPT ![i] = @ + 1]
  /\ flight' = [flight EXCEPT ![i] = @ + 1]
  /\ UNCHANGED <<given, gpc, stage, chosen, thread, g2e, e2g, epc, opened, check, regarbled, claim, results>>

(* The streaming thread of instance i: `send` blocks on a full channel.    *)
StreamCiphertext(i) ==
  /\ thread[i] = "running"
  /\ ~EvaluatorGone
  /\ sent[i] < StreamLength(i)
  /\ flight[i] < StreamBound
  /\ sent' = [sent EXCEPT ![i] = @ + 1]
  /\ flight' = [flight EXCEPT ![i] = @ + 1]
  /\ UNCHANGED <<given, gpc, stage, chosen, thread, g2e, e2g, epc, opened, check, regarbled, claim, results>>

(* It returns after the last ciphertext, or panics: by its fault, or in    *)
(* `send` when the receiver is gone.                                       *)
StreamEnds(i) ==
  /\ thread[i] = "running"
  /\ \/ /\ sent[i] = Ciphertexts
        /\ thread' = [thread EXCEPT ![i] = "ended"]
     \/ /\ sent[i] < Ciphertexts
        /\ sent[i] = StreamLength(i) \/ EvaluatorGone
        /\ thread' = [thread EXCEPT ![i] = "panicked"]
  /\ UNCHANGED <<given, gpc, stage, chosen, flight, sent, g2e, e2g, epc, opened, check, regarbled, claim, results>>
-------------------------------------------------------------------------------
(* `EvaluatorAdaptorSigs::new` for an assert on instance a; the sighash of *)
(* a chunk is its number.                                                  *)
Nonces == [l \in 1 .. NumLabels |-> Nonce(l)]
new_adaptor_sigs(a) ==
  [c \in 1 .. NumChunks |->
     wide_new(secret, [k \in 1 .. 2 ^ Width(c) |-> committed_share(FirstLabel(c) + k - 1, a)],
              c, ChunkLabels(Nonces, c))]

(* `Evaluator::create`: all share commitments are on the committed         *)
(* polynomials, or it panics; then any Finalize indexes are kept sealed.   *)
(* The challenge names one of them for the assert.                         *)
EvaluatorCreates ==
  /\ epc = "commit"
  /\ Arrived(g2e, "Commit")
  /\ g2e' = Tail(g2e)
  /\ IF \A l \in 1 .. NumLabels : verify(committed_shares(l), polynomial_commits[l])
     THEN \E S \in SUBSET Instances, a \in Instances :
            /\ Cardinality(S) = Finalize /\ a \in S
            /\ finalized' = S /\ assert_index' = a
            /\ adaptor_sigs' = new_adaptor_sigs(a)
            /\ EvaluatorSends([kind |-> "FinalizeChallenge", body |-> S], "open")
     ELSE epc' = "panicked" /\ UNCHANGED <<chosen, e2g>>
  /\ UNCHANGED <<given, gpc, stage, streams, opened, check, regarbled, claim, results>>

EvaluatorTakesOpening ==
  /\ epc = "open"
  /\ Arrived(g2e, "OpenInstances")
  /\ g2e' = Tail(g2e)
  /\ opened' = Head(g2e).body
  /\ epc' = "check"
  /\ UNCHANGED <<given, gpc, stage, chosen, streams, e2g, check, regarbled, claim, results>>

(* One side of `rayon::join`: the shares against their commitments.        *)
SharesMatch ==
  \A l \in 1 .. NumLabels :
    verify_shares(committed_shares(l), {<<i, opened_shares(i)[l]>> : i \in opened})

CheckShares ==
  /\ epc = "check"
  /\ share_check = "todo"
  /\ share_check' = IF SharesMatch THEN "ok" ELSE "err"
  /\ UNCHANGED <<given, gpc, stage, chosen, streams, g2e, e2g, epc, opened, task, file, regarbled, claim, results>>

(* The other side: workers take the indexes one after the other; after an  *)
(* error a worker may still take one, or none may.                         *)
Busy == {i \in Instances : task[i] = "busy"}
Failed == \E i \in Instances : task[i] = "err"

StartTask(i) ==
  /\ epc = "check"
  /\ task[i] = "todo"
  /\ \A j \in Instances : j < i => task[j] # "todo"
  /\ Cardinality(Busy) < PoolSize
  /\ task' = [task EXCEPT ![i] = "busy"]
  /\ UNCHANGED <<given, gpc, stage, chosen, streams, g2e, e2g, epc, opened, share_check, file, regarbled, claim, results>>

(* `while let Some(s) = source.recv()`.                                    *)
DrainOne(i) ==
  /\ task[i] = "busy"
  /\ i \in finalized
  /\ flight[i] > 0
  /\ flight' = [flight EXCEPT ![i] = @ - 1]
  /\ file' = [file EXCEPT ![i] = @ + 1]
  /\ UNCHANGED <<given, gpc, stage, chosen, thread, sent, g2e, e2g, epc, opened, share_check, task, regarbled, claim, results>>

(* Mutant: the tables of a sealed instance are not compared.               *)
StreamOnly(i) == file[i] = Ciphertexts /\ fault[i] # "hash"

(* A sealed instance: the stream and the tables have the committed hashes. *)
SealedMatches(i) ==
  /\ file[i] = Ciphertexts /\ fault[i] # "hash"
  /\ sent_tables(i) = committed_tables(i)

(* The channel is closed when its senders are gone: the thread's, and the  *)
(* one in the challenge, which run_garbler keeps to its end.               *)
EndDrain(i) ==
  /\ task[i] = "busy"
  /\ i \in finalized
  /\ flight[i] = 0
  /\ thread[i] # "running"
  /\ GarblerGone
  /\ task' = [task EXCEPT ![i] = IF SealedMatches(i) THEN "ok" ELSE "err"]
  /\ UNCHANGED <<given, gpc, stage, chosen, streams, g2e, e2g, epc, opened, share_check, file, regarbled, claim, results>>

(* An opened instance: the seed garbles to the commitment, and with the    *)
(* shares to the committed tables.                                         *)
OpenedMatches(i) ==
  /\ i \in opened
  /\ build_all(opened_shares(i), input_labels_for(i)) = committed_tables(i)
  /\ fault[i] \notin {"hash", "labels"}

Regarble(i) ==
  /\ task[i] = "busy"
  /\ i \notin finalized
  /\ task' = [task EXCEPT ![i] = IF OpenedMatches(i) THEN "ok" ELSE "err"]
  /\ UNCHANGED <<given, gpc, stage, chosen, streams, g2e, e2g, epc, opened, share_check, file, regarbled, claim, results>>

(* `run_regarbling` returns when both sides have; an error of either ends  *)
(* the evaluator (`expect`).                                               *)
CheckEnds ==
  /\ epc = "check"
  /\ share_check # "todo"
  /\ Busy = {}
  /\ \/ /\ \A i \in Instances : task[i] = "ok"
        /\ share_check = "ok"
        /\ regarbled' = TRUE
        /\ epc' = "assert"
     \/ /\ Failed \/ (share_check = "err" /\ \A i \in Instances : task[i] = "ok")
        /\ epc' = "panicked"
        /\ UNCHANGED regarbled
  /\ UNCHANGED <<given, gpc, stage, chosen, streams, g2e, e2g, opened, check, claim, results>>

(* `evaluated_wires`: the asserted wide labels are taken from the          *)
(* signatures, and give the value of each chunk by their place in the      *)
(* table; those of the other sealed instances are interpolated from them   *)
(* and the opened shares.                                                  *)
Missing == Instances \ (opened \cup {assert_index})
Interpolated(c, label) ==
  LET index == lookup_index(sent_tables(assert_index)[c], label)
      known(k) == [i \in opened \cup {assert_index} |->
                     IF i = assert_index THEN label
                     ELSE opened_shares(i)[FirstLabel(c) + k]]
      others(k) == lagrange_interpolate_whole_polynomial(known(k), Missing)
      all(values) == [i \in Missing \cup {assert_index} |->
                        IF i = assert_index THEN label ELSE values[i]]
  IN OnValue(LAMBDA k : OnValue(all, others(k)), index)

EvaluatorExtracts ==
  /\ epc = "assert"
  /\ regarbled
  /\ Arrived(g2e, "Assert")
  /\ g2e' = Tail(g2e)
  /\ LET sigs == Head(g2e).body
         extracted(c) == OnValues(wide_extract_secret, adaptor_sigs[c], sigs[c])
         found(c) == decrypts(sent_tables(assert_index)[c], extracted(c))
     IN  \/ /\ \A c \in 1 .. NumChunks : found(c)
            /\ wide_labels' =
                 [c \in 1 .. NumChunks |->
                    OnValue(LAMBDA label : Interpolated(c, label), extracted(c))]
            /\ epc' = "extracted"
         \/ /\ \E c \in 1 .. NumChunks : ~found(c)
            /\ epc' = "panicked"
            /\ UNCHANGED wide_labels
  /\ UNCHANGED <<given, gpc, stage, chosen, streams, e2g, opened, check, regarbled, asserted, results>>

(* Then each opens an entry of its table, or the evaluator panics.         *)
AllDecrypt ==
  \A c \in 1 .. NumChunks, i \in finalized : decrypts(sent_tables(i)[c], wide_labels[c][i])
evaluated_wires(i) ==
  [w \in Wires |->
     LET c == (w - 1) \div ChunkBits + 1
     IN lookup_evaluated_wires(sent_tables(i)[c], wide_labels[c][i])[w - FirstWire(c) + 1]]

(* `evaluate_from`: every input label hashes to the commitment for its     *)
(* value; the stream on disk is the committed one.                         *)
EvaluatesToCommit(i) ==
  /\ \A w \in Wires :
       LET commit == input_labels_for(i)[w]
           wire == evaluated_wires(i)[w]
       IN wire.active_label = IF wire.value THEN commit.label1 ELSE commit.label0
  /\ file[i] = Ciphertexts /\ fault[i] \notin {"hash", "labels"}

EvaluatorEvaluates ==
  /\ epc = "extracted"
  /\ IF AllDecrypt /\ \A i \in finalized : EvaluatesToCommit(i)
     THEN /\ results' = [i \in finalized |-> evaluated_wires(i)]
          /\ epc' = "done"
     ELSE epc' = "panicked" /\ UNCHANGED results
  /\ UNCHANGED <<given, gpc, stage, chosen, streams, g2e, e2g, opened, check, regarbled, claim>>

EvaluatorRecvFails ==
  /\ epc \in {"commit", "open", "assert"}
  /\ g2e = <<>>
  /\ GarblerGone
  /\ epc' = "panicked"
  /\ UNCHANGED <<given, gpc, stage, chosen, streams, g2e, e2g, opened, check, regarbled, claim, results>>

EvaluatorCrash ==
  /\ crash = "evaluator"
  /\ ~EvaluatorGone
  /\ Busy = {}
  /\ epc' = "panicked"
  /\ UNCHANGED <<given, gpc, stage, chosen, streams, g2e, e2g, opened, check, regarbled, claim, results>>
-------------------------------------------------------------------------------
GarblerStep ==
  GarblerCommits \/ GarblerOpens \/ GarblerJoins \/ GarblerAsserts \/ GarblerRecvFails
StreamStep(i) == StreamCiphertext(i) \/ StreamEnds(i)
EvaluatorStep ==
  EvaluatorCreates \/ EvaluatorTakesOpening \/ CheckShares \/ CheckEnds
    \/ EvaluatorExtracts \/ EvaluatorEvaluates \/ EvaluatorRecvFails
WorkerStep(i) == StartTask(i) \/ DrainOne(i) \/ EndDrain(i) \/ Regarble(i)

Next ==
  \/ GarblerStep
  \/ EvaluatorStep
  \/ \E i \in Instances : StreamStep(i) \/ WorkerStep(i)
  \/ GarblerCrash
  \/ EvaluatorCrash

(* Threads go on as long as they can; but nothing makes a worker take      *)
(* another index after one failed, or a crash happen.                      *)
Spec ==
  /\ Init /\ [][Next]_vars
  /\ WF_vars(GarblerStep)
  /\ WF_vars(EvaluatorStep)
  /\ \A i \in Instances :
       /\ WF_vars(StreamStep(i))
       /\ WF_vars(StartTask(i) /\ ~Failed)
       /\ WF_vars(DrainOne(i) \/ EndDrain(i) \/ Regarble(i))
-------------------------------------------------------------------------------
(* Every variable has its type.                                            *)
TypeOK ==
  /\ gpc \in {"commit", "challenge", "join"} \cup Ended
  /\ epc \in {"commit", "open", "check", "assert", "extracted"} \cup Ended
  /\ stage \in [name : {"Generating", "PreparedForEval"}, finalized : SUBSET Instances]
  /\ thread \in [Instances -> {"idle", "running", "ended", "panicked"}]
  /\ sent \in [Instances -> 0 .. Ciphertexts]
  /\ flight \in [Instances -> 0 .. StreamBound]
  /\ finalized \subseteq Instances /\ opened \subseteq Instances
  /\ assert_index \in Instances
  /\ share_check \in {"todo", "ok", "err"}
  /\ task \in [Instances -> {"todo", "busy", "ok", "err"}]
  /\ file \in [Instances -> 0 .. Ciphertexts]

(* Any Degree + 1 shares give all others.                                  *)
SharesInterpolate ==
  \A l \in 1 .. NumLabels : \A K \in SUBSET Instances :
    Cardinality(K) = Degree + 1 =>
      lagrange_interpolate_whole_polynomial([i \in K |-> Shares[l][i + 1]], Instances \ K)
        = [i \in Instances \ K |-> Shares[l][i + 1]]

(* The share arithmetic is that of polynomials, for every number of shares *)
(* up to Total and every degree: the shares computed with factorials, by   *)
(* doublings or directly, are the values of one polynomial, windows        *)
(* multiply exactly, and any n_known shares give all others.               *)
SharingExact ==
  gpc = "commit" =>
    SharesInterpolate /\ \A l \in 1 .. NumLabels, n \in 1 .. Total : \A n_known \in 1 .. n :
      LET values == ValuesOf([k \in 1 .. n_known |-> Coefficient(l, k - 1)], n)
          known == SubSeq(values, 1, n_known)
      IN  /\ shares(known, n) = values
          /\ share_commits(known, n) = values
          /\ verify(values, known)
          /\ \A K \in SUBSET (0 .. n - 1) :
               Cardinality(K) = n_known =>
                 LET others == (0 .. n - 1) \ K
                 IN  lagrange_interpolate_whole_polynomial([i \in K |-> values[i + 1]], others)
                       = [i \in others |-> values[i + 1]]

(* The arithmetic that the proofs rest on: scalars keep their value over   *)
(* the generator's tables, and shares honestly made pass `verify`.         *)
SharingCorrect ==
  /\ Q \in Nat /\ Q > 1
  /\ 2 ^ 0 = 1 /\ \A n \in 1 .. ChunkBits : 2 ^ n = 2 * 2 ^ (n - 1) /\ 2 ^ n > 0
  /\ \A s \in Fr : windowed_mul(s) = s
  /\ \A l \in 1 .. NumLabels :
       /\ Shares[l] \in [1 .. Total -> Fr]
       /\ verify(ShareCommits[l], polynomial_commits[l])

(* Of the labels of a chunk no two coincide by chance in an instance, nor  *)
(* does one with a faulty key of another, nor the nonces of their          *)
(* signatures: polynomials and nonces are random.                          *)
NoCoincidence ==
  \A c \in 1 .. NumChunks, i \in Instances : \A l, m \in LabelsOf(c) :
    l # m =>
      /\ Shares[l][i + 1] \notin {Shares[m][i + 1], Perturbed(Shares[m][i + 1])}
      /\ xOf((Nonce(l) + Shares[l][i + 1]) % Q) # xOf((Nonce(m) + Shares[m][i + 1]) % Q)

(* No nonce's point is infinity, and no hash makes the sign of the         *)
(* evaluator's secret vanish: Q is an odd prime, and the hash not zero.    *)
NoDegeneracy ==
  \A c \in 1 .. NumChunks, i \in Instances : \A l \in LabelsOf(c), d \in Secrets :
    LET P == (Shares[l][i + 1] + Nonce(l)) % Q
    IN P # 0 /\ (2 * ChallengeHash(xOf(P), xOf(d), c) * d) % Q # 0

(* `regarbled` means what evaluated_wires and evaluate_from rely on: all   *)
(* opened shares are the committed polynomials', all opened tables hold    *)
(* the labels of a rightly garbled circuit, and of every sealed instance   *)
(* the whole committed stream is on disk and the committed tables are here.*)
RegarbledSound ==
  regarbled =>
    /\ opened = Instances \ finalized
    /\ \A i \in Instances : fault[i] # "poly"
    /\ \A i \in opened : fault[i] \notin {"share", "keys", "tables", "hash", "labels"}
    /\ \A i \in finalized :
         file[i] = Ciphertexts /\ fault[i] \notin {"lookup", "hash", "stream"}

(* When the evaluator is done it has evaluated all sealed instances, each  *)
(* on that instance's own labels of the value the garbler signed, though   *)
(* the garbler gave labels of one instance only.                           *)
LabelsMatchInput ==
  epc = "done" =>
    /\ DOMAIN results = finalized
    /\ \A i \in finalized, w \in Wires :
         results[i][w] = [active_label |-> <<i, w, asserted[w]>>, value |-> asserted[w]]

(* The points of label l's polynomial the evaluator knows.                 *)
KnownPoints(l) ==
  (UNION {g2e[j].body : j \in {k \in DOMAIN g2e : g2e[k].kind = "OpenInstances"}})
    \cup opened
    \cup {a \in {assert_index} :
            asserted # <<>> /\ \E c \in 1 .. NumChunks : l = FirstLabel(c) + ChunkValue(asserted, c)}

(* The labels of a value not asserted stay unknown in every sealed         *)
(* instance: the evaluator never has enough points of their polynomials.   *)
RevealedBelowThreshold ==
  \A l \in 1 .. NumLabels :
    \/ Cardinality(KnownPoints(l)) < Len(polynomials[l])
    \/ asserted # <<>> /\ \E c \in 1 .. NumChunks : l = FirstLabel(c) + ChunkValue(asserted, c)

(* The signatures the garbler publishes pass BIP-340 exactly when the      *)
(* evaluator's secret has a point with even y: its sign is not corrected,  *)
(* that of every nonce is.                                                 *)
SignaturesVerify ==
  \A j \in DOMAIN g2e :
    g2e[j].kind = "Assert" =>
      \A c \in 1 .. NumChunks : BIP340_verify(secret, c, g2e[j].body[c]) <=> ~is_odd(secret)

(* If no index fails its check both sides end, whatever else panics, and   *)
(* an honest run ends with all results.                                    *)
Completes ==
  \/ <>Failed
  \/ <>[](GarblerGone /\ EvaluatorGone /\ (Honest => gpc = "done" /\ epc = "done"))

(* docs/gsv_vsss.md: "Any mismatch (open or closed) aborts the protocol."  *)
MismatchAborts == Failed ~> EvaluatorGone
===============================================================================
