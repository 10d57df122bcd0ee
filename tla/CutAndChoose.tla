----------------------------- MODULE CutAndChoose -----------------------------
(***************************************************************************)
(* The cut-and-choose setup: Garbler and Evaluator of                      *)
(* src/cut_and_choose/vanilla, run against each other as in                *)
(* examples/gsv_vanilla.rs, and with the inputs soldered together as in    *)
(* examples/gsv_soldering.rs.  Two threads talk over two unbounded         *)
(* channels; each instance kept for evaluation is streamed by a thread of  *)
(* its own through a bounded channel into the evaluator's worker pool.     *)
(*                                                                         *)
(* An instance is known by its index.  What a seed garbles to is fixed, so *)
(* a seed, a commitment or a stream is represented by whether it is the    *)
(* right one: `fault` says which part of an instance is not.  A stream is  *)
(* the number of its ciphertexts, which all come from one thread in order. *)
(* Input labels and what is made of them are those of Soldering.           *)
(***************************************************************************)
EXTENDS Soldering

CONSTANTS
  Total,        \* Config.total, the number of instances
  Finalize,     \* Config.finalized_count, how many stay sealed
  Ciphertexts,  \* length of an instance's ciphertext stream
  StreamBound,  \* STREAM_BOUND_CIPHERTEXTS, capacity of a ciphertext channel
  PoolSizes     \* how many threads get_optimized_pool may have

ASSUME CutAssumption ==
  /\ Total \in Nat /\ Finalize \in 1 .. Total
  /\ {Ciphertexts, StreamBound, NumInputs} \cup PoolSizes \subseteq Nat \ {0}

Instances == 1 .. Total
Values == [Wires -> BOOLEAN]   \* of the circuit's input

(* What may be wrong with an instance: the ciphertext hash or the labels   *)
(* of its first commitment, its second commitment, its streaming thread    *)
(* panics before the end, or its input is sent with labels of the other    *)
(* bits.  When soldered: the proof is about other labels, or comes with    *)
(* other deltas than it proves.                                            *)
FaultKinds(f) ==
  {"none", "hash", "labels", "second", "stream", "input"}
    \cup IF f = "soldering" THEN {"guest", "delta"} ELSE {}

VARIABLES
  pool,       \* the threads of get_optimized_pool, as many as the machine has
  flow,       \* the program that runs: "vanilla" or "soldering"
  fault,      \* the fault of each instance; never changes
  crash,      \* the thread that may panic at any time; never changes
  gpc,        \* where run_garbler is
  stage,      \* Garbler.stage: Generating, or the finalized indexes
  thread,     \* the streaming threads: idle, running or ended
  sent,       \* ciphertexts each of them has sent
  g2e,        \* messages to the evaluator
  e2g,        \* messages to the garbler
  flight,     \* ciphertexts in each bounded channel
  epc,        \* where run_evaluator is
  finalized,  \* Evaluator.finalized_indexes
  seeds,      \* the indexes whose seeds the evaluator was given
  task,       \* full_check_commit: todo, busy, ok or err for each index
  file,       \* ciphertexts written to gc_<index>.bin
  regarbled,  \* Evaluator.regarbled
  soldered,   \* soldering_stage: Vanilla, or Soldered with its deltas
  results     \* evaluate_from: the value found for each instance's input

vars == <<pool, flow, fault, crash, gpc, stage, thread, sent, g2e, e2g, flight,
          epc, finalized, seeds, task, file, regarbled, soldered, results>>
given == <<pool, flow, fault, crash>>
answers == <<soldered, results>>
streams == <<thread, sent, flight>>
garbler == <<gpc, stage>>
check == <<task, file>>

Ended == {"done", "panicked"}
GarblerGone == gpc \in Ended
EvaluatorGone == epc \in Ended

Init ==
  /\ pool \in PoolSizes
  /\ flow \in {"vanilla", "soldering"}
  /\ fault \in [Instances -> FaultKinds(flow)]
  /\ Cardinality({i \in Instances : fault[i] # "none"}) <= 1
  /\ crash \in {"none", "garbler", "evaluator"}
  /\ gpc = "commit1" /\ epc = "commit1"
  /\ stage = [name |-> "Generating", finalized |-> {}]
  /\ thread = [i \in Instances |-> "idle"]
  /\ sent = [i \in Instances |-> 0]
  /\ flight = [i \in Instances |-> 0]
  /\ g2e = <<>> /\ e2g = <<>>
  /\ finalized = {} /\ seeds = {}
  /\ task = [i \in Instances |-> "todo"]
  /\ file = [i \in Instances |-> 0]
  /\ regarbled = FALSE
  /\ soldered = [name |-> "Vanilla", deltas |-> <<>>]
  /\ results = <<>>
-----------------------------------------------------------------------------
(* Every instance has its own random offset and labels; index 0 is none's. *)
Offset(i) == {<<i, 0>>}
input_labels_for(i) ==
  [w \in Wires |-> [label0 |-> {<<i, w>>}, label1 |-> XOR({<<i, w>>}, Offset(i))]]
Crossed(labels) ==
  [w \in Wires |-> [label0 |-> labels[w].label1, label1 |-> labels[w].label0]]
CrossedIf(i, kind) ==
  IF fault[i] = kind THEN Crossed(input_labels_for(i)) ELSE input_labels_for(i)

nonce == {<<0, 0>>}
FirstCommit == [i \in Instances |-> commit_input_wires(CrossedIf(i, "labels"), NoNonce)]
SecondCommit == [i \in Instances |-> commit_input_wires(CrossedIf(i, "second"), nonce)]

(* Of a set of indexes, all in order: both sides sort them.                *)
Indexes(S) ==
  CHOOSE s \in [1 .. Cardinality(S) -> S] :
    \A j, k \in 1 .. Cardinality(S) : j < k => s[j] < s[k]

(* `prepare_input_labels` for instance i, and the base's alone.            *)
input_for(i, value) ==
  [w \in Wires |-> [active_label |-> select(CrossedIf(i, "input")[w], value[w]),
                    value |-> value[w]]]
base_case(S, value) ==
  LET base == Head(Indexes(S)) IN [index |-> base, input |-> input_for(base, value)]

(* `do_soldering`.                                                         *)
CrossedDelta(per_wire) ==
  [w \in Wires |-> [delta0 |-> per_wire[w].delta1, delta1 |-> per_wire[w].delta0]]
do_soldering(S) ==
  LET indexes == Indexes(S)
      proof == prove_soldering([k \in DOMAIN indexes |-> CrossedIf(indexes[k], "guest")], nonce)
      others == Tail(indexes)
  IN [proof |-> proof.proof,
      deltas |-> [k \in DOMAIN others |->
                    IF fault[others[k]] = "delta" THEN CrossedDelta(proof.deltas[k])
                                                  ELSE proof.deltas[k]]]
-----------------------------------------------------------------------------
(* `send(..).expect(..)`: the message is queued, or the sender panics when *)
(* the receiver is gone.                                                   *)
GarblerSends(kind, body, next) ==
  \/ /\ ~EvaluatorGone
     /\ g2e' = Append(g2e, [kind |-> kind, body |-> body])
     /\ gpc' = next
  \/ /\ EvaluatorGone
     /\ gpc' = "panicked"
     /\ UNCHANGED g2e

EvaluatorSends(kind, body, next) ==
  \/ /\ ~GarblerGone
     /\ e2g' = Append(e2g, [kind |-> kind, body |-> body])
     /\ epc' = next
  \/ /\ GarblerGone
     /\ epc' = "panicked"
     /\ UNCHANGED e2g

(* `recv().expect(..)` of a thread in the middle of its protocol: a queued *)
(* message is taken, also from a peer that is gone.                        *)
Next1(queue, kind) == queue # <<>> /\ Head(queue).kind = kind

GarblerCommitsOne ==
  /\ gpc = "commit1"
  /\ GarblerSends("Commit1", {}, "nonce")
  /\ UNCHANGED <<given, stage, streams, e2g, epc, finalized, seeds, check, regarbled, answers>>

(* `commit_phase_two` with the evaluator's nonce.                          *)
GarblerCommitsTwo ==
  /\ gpc = "nonce"
  /\ Next1(e2g, "Commit2Nonce")
  /\ e2g' = Tail(e2g)
  /\ GarblerSends("Commit2", {}, "challenge")
  /\ UNCHANGED <<given, stage, streams, epc, finalized, seeds, check, regarbled, answers>>

(* Mutant: the seeds are to be sent after the streaming threads are joined.*)
OpenAfterJoin(challenge) == gpc' = "join" /\ UNCHANGED g2e

(* Mutant: the sealed instances' seeds are sent with the others.           *)
OpenAll(challenge) == GarblerSends("OpenSeeds", Instances, "join")

(* `open_commit` has returned: the other instances' seeds go out at once.  *)
OpenSeeds(challenge) == GarblerSends("OpenSeeds", Instances \ challenge, "join")

(* `open_commit`: the stage moves on, the finalized instances are streamed *)
(* by threads of their own, the seeds of all others are revealed.          *)
GarblerOpens ==
  /\ gpc = "challenge"
  /\ Next1(e2g, "FinalizeChallenge")
  /\ e2g' = Tail(e2g)
  /\ LET challenge == Head(e2g).body
     IN  /\ stage.name = "Generating"
         /\ stage' = [name |-> "PreparedForEval", finalized |-> challenge]
         /\ thread' = [i \in Instances |-> IF i \in challenge THEN "running" ELSE thread[i]]
         /\ OpenSeeds(challenge)
  /\ UNCHANGED <<given, sent, flight, epc, finalized, seeds, check, regarbled, answers>>

(* The threads are joined; a panic of theirs is only logged.               *)
Joined == \A i \in Instances : thread[i] # "running"

(* The input labels of the finalized instances go out.                     *)
GarblerSendsInputs ==
  /\ flow = "vanilla"
  /\ gpc = "join"
  /\ Joined
  /\ \E value \in Values :
       GarblerSends("AllInputs", [i \in stage.finalized |-> input_for(i, value)], "done")
  /\ UNCHANGED <<given, stage, streams, e2g, epc, finalized, seeds, check, regarbled, answers>>

(* Soldered: a proof of all deltas first, then the base's labels alone.    *)
GarblerSolders ==
  /\ flow = "soldering"
  /\ gpc = "join"
  /\ Joined
  /\ GarblerSends("SolderingProof", do_soldering(stage.finalized), "base")
  /\ UNCHANGED <<given, stage, streams, e2g, epc, finalized, seeds, check, regarbled, answers>>

GarblerSendsBase ==
  /\ gpc = "base"
  /\ \E value \in Values :
       GarblerSends("BaseInput", base_case(stage.finalized, value), "done")
  /\ UNCHANGED <<given, stage, streams, e2g, epc, finalized, seeds, check, regarbled, answers>>

GarblerRecvFails ==
  /\ gpc \in {"nonce", "challenge"}
  /\ e2g = <<>>
  /\ EvaluatorGone
  /\ gpc' = "panicked"
  /\ UNCHANGED <<given, stage, streams, g2e, e2g, epc, finalized, seeds, check, regarbled, answers>>

GarblerCrash ==
  /\ crash = "garbler"
  /\ ~GarblerGone
  /\ gpc' = "panicked"
  /\ UNCHANGED <<given, stage, streams, g2e, e2g, epc, finalized, seeds, check, regarbled, answers>>
-----------------------------------------------------------------------------
(* How far the streaming thread of instance i gets: a faulty one panics    *)
(* before its last ciphertext.                                             *)
StreamLength(i) == IF fault[i] = "stream" THEN Ciphertexts - 1 ELSE Ciphertexts

(* Mutant: `try_send`: a ciphertext that finds the channel full is lost.   *)
TrySendCiphertext(i) ==
  /\ thread[i] = "running"
  /\ ~EvaluatorGone
  /\ sent[i] < StreamLength(i)
  /\ sent' = [sent EXCEPT ![i] = @ + 1]
  /\ flight' = [flight EXCEPT ![i] = IF @ < StreamBound THEN @ + 1 ELSE @]
  /\ UNCHANGED <<given, garbler, thread, g2e, e2g, epc, finalized, seeds, check, regarbled, answers>>

(* Mutant: the channel has no bound.                                       *)
SendUnbounded(i) ==
  /\ thread[i] = "running"
  /\ ~EvaluatorGone
  /\ sent[i] < StreamLength(i)
  /\ sent' = [sent EXCEPT ![i] = @ + 1]
  /\ flight' = [flight EXCEPT ![i] = @ + 1]
  /\ UNCHANGED <<given, garbler, thread, g2e, e2g, epc, finalized, seeds, check, regarbled, answers>>

(* The streaming thread of instance i: `send` blocks on a full channel.    *)
StreamCiphertext(i) ==
  /\ thread[i] = "running"
  /\ ~EvaluatorGone
  /\ sent[i] < StreamLength(i)
  /\ flight[i] < StreamBound
  /\ sent' = [sent EXCEPT ![i] = @ + 1]
  /\ flight' = [flight EXCEPT ![i] = @ + 1]
  /\ UNCHANGED <<given, garbler, thread, g2e, e2g, epc, finalized, seeds, check, regarbled, answers>>

(* It returns, or panics: also in `send`, when the receiver is gone.       *)
StreamEnds(i) ==
  /\ thread[i] = "running"
  /\ sent[i] = StreamLength(i) \/ EvaluatorGone
  /\ thread' = [thread EXCEPT ![i] = "ended"]
  /\ UNCHANGED <<given, garbler, sent, flight, g2e, e2g, epc, finalized, seeds, check, regarbled, answers>>
-----------------------------------------------------------------------------
(* `Evaluator::create`: any choice of Finalize indexes, by Fisher-Yates.   *)
EvaluatorCreates ==
  /\ epc = "commit1"
  /\ Next1(g2e, "Commit1")
  /\ g2e' = Tail(g2e)
  /\ \E S \in SUBSET Instances :
       /\ Cardinality(S) = Finalize
       /\ finalized' = S
  /\ EvaluatorSends("Commit2Nonce", {}, "commit2")
  /\ UNCHANGED <<given, garbler, streams, seeds, check, regarbled, answers>>

(* `fill_second_commit`, then the challenge with the channels' senders.    *)
EvaluatorChallenges ==
  /\ epc = "commit2"
  /\ Next1(g2e, "Commit2")
  /\ g2e' = Tail(g2e)
  /\ EvaluatorSends("FinalizeChallenge", finalized, "seeds")
  /\ UNCHANGED <<given, garbler, streams, finalized, seeds, check, regarbled, answers>>

EvaluatorTakesSeeds ==
  /\ epc = "seeds"
  /\ Next1(g2e, "OpenSeeds")
  /\ g2e' = Tail(g2e)
  /\ seeds' = Head(g2e).body
  /\ epc' = "check"
  /\ UNCHANGED <<given, garbler, streams, e2g, finalized, check, regarbled, answers>>

Busy == {i \in Instances : task[i] = "busy"}

(* A worker of the pool takes up an index; after an error the others may   *)
(* or may not be taken up.                                                 *)
StartTask(i) ==
  /\ epc = "check"
  /\ task[i] = "todo"
  /\ Cardinality(Busy) < pool
  /\ task' = [task EXCEPT ![i] = "busy"]
  /\ UNCHANGED <<given, garbler, streams, g2e, e2g, epc, finalized, seeds, file, regarbled, answers>>

(* `while let Some(s) = source.recv()`: one ciphertext to the file.        *)
DrainOne(i) ==
  /\ task[i] = "busy"
  /\ i \in finalized
  /\ flight[i] > 0
  /\ flight' = [flight EXCEPT ![i] = @ - 1]
  /\ file' = [file EXCEPT ![i] = @ + 1]
  /\ UNCHANGED <<given, garbler, thread, sent, g2e, e2g, epc, finalized, seeds, task, regarbled, answers>>

(* `computed_commit == first_commit.ciphertext_hash()`.                    *)
StreamMatches(i) == file[i] = Ciphertexts /\ fault[i] # "hash"

(* The sender is dropped and the channel empty: the hash is compared.      *)
EndDrain(i) ==
  /\ task[i] = "busy"
  /\ i \in finalized
  /\ flight[i] = 0
  /\ thread[i] = "ended"
  /\ task' = [task EXCEPT ![i] = IF StreamMatches(i) THEN "ok" ELSE "err"]
  /\ UNCHANGED <<given, garbler, streams, g2e, e2g, epc, finalized, seeds, file, regarbled, answers>>

(* The seed is among those received, and garbling it again gives the       *)
(* committed ciphertext hash, labels and second commitment.                *)
RegarblesToCommits(i) == i \in seeds /\ fault[i] \notin {"hash", "labels", "second"}

Regarble(i) ==
  /\ task[i] = "busy"
  /\ i \notin finalized
  /\ task' = [task EXCEPT ![i] = IF RegarblesToCommits(i) THEN "ok" ELSE "err"]
  /\ UNCHANGED <<given, garbler, streams, g2e, e2g, epc, finalized, seeds, file, regarbled, answers>>

(* `full_check_commit` returns; its error ends the evaluator (`expect`).   *)
CheckEnds ==
  /\ epc = "check"
  /\ Busy = {}
  /\ \/ /\ \A i \in Instances : task[i] = "ok"
        /\ regarbled' = TRUE
        /\ epc' = IF flow = "vanilla" THEN "inputs" ELSE "proof"
     \/ /\ \E i \in Instances : task[i] = "err"
        /\ epc' = "panicked"
        /\ UNCHANGED regarbled
  /\ UNCHANGED <<given, garbler, streams, g2e, e2g, finalized, seeds, check, answers>>

(* `verify_soldering_against_commits`, whose error ends the evaluator.     *)
EvaluatorVerifiesSoldering ==
  /\ epc = "proof"
  /\ Next1(g2e, "SolderingProof")
  /\ g2e' = Tail(g2e)
  /\ LET proof == Head(g2e).body
     IN  IF verify_soldering_against_commits(proof, Indexes(finalized), FirstCommit,
                                             SecondCommit, nonce)
         THEN /\ soldered' = [name |-> "Soldered", deltas |-> proof.deltas]
              /\ epc' = "base"
         ELSE /\ epc' = "panicked"
              /\ UNCHANGED soldered
  /\ UNCHANGED <<given, garbler, streams, e2g, finalized, seeds, check, regarbled, results>>

(* Mutant: labels are taken as they come.                                  *)
EvaluatesToHash(i, input) == file[i] = Ciphertexts /\ fault[i] # "hash"

(* `evaluate_from`: the ciphertext hash and the labels of instance i agree *)
(* with its first commitment.                                              *)
EvaluatesToCommit(i, input) ==
  /\ file[i] = Ciphertexts /\ fault[i] \notin {"hash", "labels"}
  /\ \A w \in Wires :
       hash_label(input[w].active_label) = commit_for_value(FirstCommit[i][w], input[w].value)

(* All results or one error.                                               *)
evaluate_from(cases) ==
  \/ /\ \A i \in DOMAIN cases : EvaluatesToCommit(i, cases[i])
     /\ results' = [i \in DOMAIN cases |-> [w \in Wires |-> cases[i][w].value]]
     /\ epc' = "done"
  \/ /\ \E i \in DOMAIN cases : ~EvaluatesToCommit(i, cases[i])
     /\ epc' = "panicked"
     /\ UNCHANGED results

EvaluatorEvaluates ==
  /\ epc = "inputs"
  /\ regarbled
  /\ Next1(g2e, "AllInputs")
  /\ g2e' = Tail(g2e)
  /\ evaluate_from(Head(g2e).body)
  /\ UNCHANGED <<given, garbler, streams, e2g, finalized, seeds, check, regarbled, soldered>>

(* `evaluate_with_soldered_instances_from`.                                *)
EvaluatorEvaluatesSoldered ==
  /\ epc = "base"
  /\ regarbled
  /\ soldered.name = "Soldered"
  /\ Next1(g2e, "BaseInput")
  /\ g2e' = Tail(g2e)
  /\ LET case == Head(g2e).body
         indexes == Indexes(finalized)
     IN  IF case.index = Head(indexes)
         THEN evaluate_from(soldered_cases(case.input, indexes, soldered.deltas))
         ELSE epc' = "panicked" /\ UNCHANGED results
  /\ UNCHANGED <<given, garbler, streams, e2g, finalized, seeds, check, regarbled, soldered>>

EvaluatorRecvFails ==
  /\ epc \in {"commit1", "commit2", "seeds", "inputs", "proof", "base"}
  /\ g2e = <<>>
  /\ GarblerGone
  /\ epc' = "panicked"
  /\ UNCHANGED <<given, garbler, streams, g2e, e2g, finalized, seeds, check, regarbled, answers>>

(* A panic of a worker reaches the evaluator when no worker is busy.       *)
EvaluatorCrash ==
  /\ crash = "evaluator"
  /\ ~EvaluatorGone
  /\ Busy = {}
  /\ epc' = "panicked"
  /\ UNCHANGED <<given, garbler, streams, g2e, e2g, finalized, seeds, check, regarbled, answers>>
-----------------------------------------------------------------------------
GarblerStep ==
  GarblerCommitsOne \/ GarblerCommitsTwo \/ GarblerOpens \/ GarblerSendsInputs
    \/ GarblerSolders \/ GarblerSendsBase \/ GarblerRecvFails

StreamStep(i) == StreamCiphertext(i) \/ StreamEnds(i)
WorkerStep(i) == StartTask(i) \/ DrainOne(i) \/ EndDrain(i) \/ Regarble(i)

EvaluatorStep ==
  EvaluatorCreates \/ EvaluatorChallenges \/ EvaluatorTakesSeeds \/ CheckEnds
    \/ EvaluatorEvaluates \/ EvaluatorVerifiesSoldering \/ EvaluatorEvaluatesSoldered
    \/ EvaluatorRecvFails

Next ==
  \/ GarblerStep
  \/ EvaluatorStep
  \/ \E i \in Instances : StreamStep(i) \/ WorkerStep(i)
  \/ GarblerCrash
  \/ EvaluatorCrash

(* Threads are scheduled by the operating system: each of them goes on as  *)
(* long as it can.  Nothing makes a worker take another instance after one *)
(* failed (`collect` into a Result may stop there), or a crash happen.     *)
Failed == \E i \in Instances : task[i] = "err"
Spec ==
  /\ Init /\ [][Next]_vars
  /\ WF_vars(GarblerStep)
  /\ WF_vars(EvaluatorStep)
  /\ \A i \in Instances :
       /\ WF_vars(StreamStep(i))
       /\ WF_vars(StartTask(i) /\ ~Failed)
       /\ WF_vars(DrainOne(i) \/ EndDrain(i) \/ Regarble(i))
-----------------------------------------------------------------------------
Labels == SUBSET ((0 .. Total) \X (0 .. NumInputs))
Input == [Wires -> [active_label : Labels, value : BOOLEAN]]
Deltas == Seq([Wires -> [delta0 : Labels, delta1 : Labels]])

Message(m) ==
  CASE m.kind \in {"Commit1", "Commit2", "Commit2Nonce"} -> m.body = {}
    [] m.kind \in {"OpenSeeds", "FinalizeChallenge"} -> m.body \subseteq Instances
    [] m.kind = "AllInputs" -> m.body \in [stage.finalized -> Input]
    [] m.kind = "SolderingProof" -> m.body.deltas \in Deltas
    [] m.kind = "BaseInput" -> m.body \in [index : Instances, input : Input]

(* Every variable has its type.                                            *)
TypeOK ==
  /\ pool \in PoolSizes
  /\ gpc \in {"commit1", "nonce", "challenge", "join", "base"} \cup Ended
  /\ epc \in {"commit1", "commit2", "seeds", "check", "inputs", "proof", "base"} \cup Ended
  /\ stage \in [name : {"Generating", "PreparedForEval"}, finalized : SUBSET Instances]
  /\ thread \in [Instances -> {"idle", "running", "ended"}]
  /\ sent \in [Instances -> 0 .. Ciphertexts]
  /\ flight \in [Instances -> 0 .. StreamBound]
  /\ \A j \in DOMAIN g2e : Message(g2e[j])
  /\ \A j \in DOMAIN e2g : Message(e2g[j])
  /\ finalized \subseteq Instances /\ seeds \subseteq Instances
  /\ soldered \in [name : {"Vanilla", "Soldered"}, deltas : Deltas]
  /\ DOMAIN results \subseteq Instances /\ Range(results) \subseteq [Wires -> BOOLEAN]
  /\ task \in [Instances -> {"todo", "busy", "ok", "err"}]
  /\ file \in [Instances -> 0 .. Ciphertexts]
  /\ regarbled \in BOOLEAN

(* The seeds a message on the way carries.                                 *)
Revealed ==
  seeds \cup UNION {g2e[j].body : j \in {l \in DOMAIN g2e : g2e[l].kind = "OpenSeeds"}}

(* An instance is opened or sealed, never both: no seed leaves the garbler *)
(* for an instance that is streamed, is kept for evaluation or was         *)
(* evaluated, and both sides mean the same instances.                      *)
SeedsStaySealed ==
  /\ \A i \in Revealed : thread[i] = "idle" /\ i \notin finalized
  /\ stage.name = "PreparedForEval" => stage.finalized = finalized
  /\ DOMAIN results \cap Revealed = {}

(* A label of the base, carried to instance i by the deltas that were      *)
(* accepted for it, is the label of the same bit that i is committed to.   *)
Soldering(i) ==
  LET indexes == Indexes(finalized)
      base == FirstCommit[Head(indexes)]
  IN \A bit \in BOOLEAN :
       LET input == [w \in Wires |->
                       [active_label |-> commit_for_value(base[w], bit).sha256, value |-> bit]]
           carried == soldered_cases(input, indexes, soldered.deltas)[i]
       IN \A w \in Wires :
            hash_label(carried[w].active_label) = commit_for_value(FirstCommit[i][w], bit)

(* `regarbled` means what evaluate_from relies on: every opened instance   *)
(* garbles to both its commitments, and of every sealed one the whole      *)
(* stream is on disk and has the committed hash.  Soldered means that the  *)
(* base's labels determine those of all sealed instances, before any of    *)
(* them is seen.                                                           *)
AcceptedSound ==
  /\ regarbled =>
       /\ seeds = Instances \ finalized
       /\ \A i \in seeds : fault[i] \notin {"hash", "labels", "second"}
       /\ \A i \in finalized : file[i] = Ciphertexts /\ fault[i] \notin {"hash", "stream"}
  /\ soldered.name = "Soldered" => regarbled /\ \A i \in finalized : Soldering(i)

(* Results are given for all sealed instances or for none, after the       *)
(* check, for one input only, and only when the labels are the committed   *)
(* ones; soldered instances then rest on the base's labels alone.          *)
EvaluatedSound ==
  results # <<>> =>
    /\ regarbled
    /\ DOMAIN results = finalized
    /\ Cardinality(Range(results)) = 1
    /\ LET base == Head(Indexes(finalized))
       IN \A i \in finalized :
            /\ fault[i] \notin {"hash", "labels", "stream", "guest"}
            /\ fault[i] = "input" => flow = "soldering" /\ i # base
            /\ fault[i] = "delta" => i = base

(* Nothing is lost between a streaming thread and the file.                *)
StreamConserved == \A i \in Instances : sent[i] = flight[i] + file[i]

(* Without a fault or a crash the setup is never rejected.                 *)
HonestNeverPanics ==
  crash = "none" /\ (\A i \in Instances : fault[i] = "none") =>
    gpc # "panicked" /\ epc # "panicked"

(* Whatever fails, nobody hangs: both sides end, and so do the streaming   *)
(* threads, also those blocked on a channel nobody reads any more.         *)
NobodyHangs ==
  <>[](/\ GarblerGone
       /\ EvaluatorGone
       /\ \A i \in Instances : thread[i] # "running")
=============================================================================
