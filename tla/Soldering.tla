------------------------------ MODULE Soldering -------------------------------
(***************************************************************************)
(* Soldering: the inputs of all sealed instances are bound to those of the *)
(* first of them, the base, by one XOR delta per wire and value.           *)
(* src/sp1_soldering.rs, the guest program it proves the execution of, and *)
(* the checks of src/cut_and_choose/soldering/evaluator.rs.                *)
(*                                                                         *)
(* A label is the set of the random strings it is the XOR of.  A hash is   *)
(* its input, marked as hashed.  A proof is the public output of the guest *)
(* run it proves: the prover and the soundness of its proofs are external. *)
(***************************************************************************)
EXTENDS Integers, Sequences, SequencesExt

CONSTANT NumInputs   \* input wires of the circuit

Wires == 1 .. NumInputs

XOR(a, b) == SymDiff(a, b)
hash_label(label) == [sha256 |-> label]
select(wire, bit) == IF bit THEN wire.label1 ELSE wire.label0

commit_input_wires(wires, nonce) ==
  [w \in Wires |-> [commit_false |-> hash_label(XOR(wires[w].label0, nonce)),
                    commit_true |-> hash_label(XOR(wires[w].label1, nonce))]]
commit_for_value(commit, value) == IF value THEN commit.commit_true ELSE commit.commit_false

NoNonce == {}

(* The guest program: of the wires of the base and of each other instance  *)
(* it gives the commitments and the deltas between them.                   *)
guest_main(instances_wires, nonce) ==
  LET base == Head(instances_wires)
      remaining == Tail(instances_wires)
  IN [deltas |->
        [k \in DOMAIN remaining |->
           [w \in Wires |-> [delta0 |-> XOR(base[w].label0, remaining[k][w].label0),
                             delta1 |-> XOR(base[w].label1, remaining[k][w].label1)]]],
      base_commitment |-> commit_input_wires(base, NoNonce),
      base_nonce_commitment |-> commit_input_wires(base, nonce),
      commitments |-> [k \in DOMAIN remaining |-> commit_input_wires(remaining[k], NoNonce)],
      nonce |-> nonce]

prove_soldering(instances, nonce) ==
  LET data == guest_main(instances, nonce) IN [proof |-> data, deltas |-> data.deltas]

(* Mutant: the deltas are not among the public values.                     *)
VerifyCommitmentsOnly(p, base_commitment, base_nonce_commitment, nonce, commitments) ==
  p.proof = [deltas |-> p.proof.deltas, base_commitment |-> base_commitment,
             base_nonce_commitment |-> base_nonce_commitment,
             commitments |-> commitments, nonce |-> nonce]

(* The proof is one of the public values put together from the deltas that *)
(* came with it and the verifier's own commitments.                        *)
verify_soldering(p, base_commitment, base_nonce_commitment, nonce, commitments) ==
  p.proof = [deltas |-> p.deltas, base_commitment |-> base_commitment,
             base_nonce_commitment |-> base_nonce_commitment,
             commitments |-> commitments, nonce |-> nonce]

(* `verify_soldering_against_commits`, `Ok` or not; `indexes` are the      *)
(* finalized ones in order.  After the proof and the shape of the deltas   *)
(* the code compares the commitments with those it gave the verifier,      *)
(* which are the same.                                                     *)
verify_soldering_against_commits(p, indexes, first, second, nonce) ==
  /\ indexes # <<>>
  /\ LET others == Tail(indexes)
     IN  /\ verify_soldering(p, first[Head(indexes)], second[Head(indexes)], nonce,
                             [k \in DOMAIN others |-> first[others[k]]])
         /\ Len(p.deltas) = Len(others)
         /\ \A k \in DOMAIN others : DOMAIN p.deltas[k] = DOMAIN first[Head(indexes)]

(* Mutant: each value gets the other value's delta.                        *)
SolderCrossed(input, per_wire) ==
  [w \in Wires |->
     [input[w] EXCEPT !.active_label =
        XOR(@, IF input[w].value THEN per_wire[w].delta0 ELSE per_wire[w].delta1)]]

(* The input of another instance, from the base's active labels.           *)
solder(input, per_wire) ==
  [w \in Wires |->
     [input[w] EXCEPT !.active_label =
        XOR(@, IF input[w].value THEN per_wire[w].delta1 ELSE per_wire[w].delta0)]]

(* `evaluate_with_soldered_instances_from`: a case for every index.        *)
soldered_cases(base_input, indexes, deltas) ==
  [i \in Range(indexes) |->
     LET j == CHOOSE k \in DOMAIN indexes : indexes[k] = i
     IN IF j = 1 THEN base_input ELSE solder(base_input, deltas[j - 1])]
=============================================================================
