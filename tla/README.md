# A TLA+ verification project for garbled-snark-verifier

The repository garbles a Groth16 verifier (about 11 billion gates) in a
streaming fashion, evaluates it, and wraps garbling in a cut-and-choose
protocol.  This directory holds TLA+ modules translated from its source, the
TLC configurations that check them on small instances, and TLAPS proofs of the
results that matter for every value of the constants.  Paths below are relative
to the repository root (`src/storage.rs`, `examples/gsv_vanilla.rs`).

## 1. Inventory of the system

| Component | State it keeps | Operations | Talks to |
|---|---|---|---|
| Wire storage, `src/storage.rs` | slab of entries `(credits, data)` | `allocate`, `add_credits`, `get`, `set` | owned by every execution mode |
| Metadata pass, `circuit/component_meta.rs` | read counters of inputs and internal wires, a cursor | `issue_wire`, `add_gate`, `with_named_child`, `build`, `to_instance` | run by the streaming context before a component |
| Streaming context, `circuit/streaming_mode.rs`, `circuit/mod.rs` | stack of component instances (credit stacks), template pool, mode | `to_root_ctx`, `issue_wire`, `add_gate`, `with_named_child`, `run_streaming` | storage through the mode, pool, metadata pass |
| Execute mode, `circuit/modes/execute_mode.rs` | storage of booleans | `evaluate_gate`, `lookup_wire`, `feed_wire`, `add_credits` | storage |
| Template pool, `circuit/component_template_pool.rs` | hash map, slab, intrusive list with head and tail | `get`, `insert`, `get_or_insert_with`, `clear` | streaming context |
| Half gates, `modes/garble_mode/halfgates_garbling.rs`, `core/gate_type.rs` | none | `garble_gate`, `degarble_gate` | the garbling and evaluating modes |
| Garble and evaluate modes, `modes/garble_mode.rs`, `evaluate_mode.rs` | storage of labels, gate index, ciphertext sink or source | `evaluate_gate`, `feed_wire`, `lookup_wire` | channels of ciphertexts |
| Multigarbling mode, `modes/multigarble_mode.rs` | N labels per wire | as garble mode, lane-wise | cut-and-choose commit |
| Garbling pipeline, `examples/gsv_garble.rs` | three threads, two channels | commit, stream, proxy and hash, evaluate | both modes |
| Vanilla cut-and-choose, `cut_and_choose/vanilla` | garbler: seeds, instances, stage; evaluator: commitments, finalized indexes, `regarbled` | `create`, `commit_phase_*`, `open_commit`, `fill_second_commit`, `full_check_commit`, `evaluate_from` | each other by messages, bounded ciphertext channels, worker pool |
| Ciphertext repository, `cut_and_choose/ciphertext_repository.rs` | one file per instance | create, handle, finalize, read | full check and evaluation |
| Soldering, `cut_and_choose/soldering`, `sp1_soldering.rs`, its guest program | base instance, deltas, proof | `do_soldering`, `verify_soldering_against_commits`, evaluation from the base's labels | vanilla protocol, SP1 |
| VSSS, `cut_and_choose/vsss`, `examples/gsv_vsss.rs` | polynomials, shares, adaptor signatures, label tables | `create`, `commit`, `open_commit`, `run_regarbling`, `evaluated_wires` | each other by messages, ciphertext channels, worker pool |
| Integer gadgets, `gadgets/basic.rs`, `gadgets/bigint` | none (they emit gates) | adders, comparators, multiplexers, products | streaming context |
| Field and curve gadgets, `gadgets/bn254` | none | prime fields, Montgomery form, tower, both groups, Miller loops, final exponentiation | integer gadgets |
| Groth16 verifier, `gadgets/groth16.rs`, `garbled_groth16.rs` | none | decompression, multi-scalar product, pairing product; allocation and encoding of inputs | all of the above, garbler and evaluator |

What is hard here, and what correctness means for each part:

* **Storage and streaming.**  Wires live only from allocation to their last
  read, and the number of reads must be known when a wire is allocated, hence a
  dry run of each component, counters on a stack, and grants to arguments.  An
  error is silent: a slot freed early is handed to another wire under the same
  key and the circuit computes something else.  Correct means: the credits of
  every slot are exactly its wire's reads to come, no two live wires share a
  slot, nothing leaks, and the outputs are those of the circuit.
* **Template pool.**  Four pieces of state (map, slab, links, ends) updated
  separately; correct means it is an LRU cache.
* **Garbling and evaluation.**  Two parties number gates independently and
  exchange bare labels.  Correct means: the ciphertext the evaluator takes
  belongs to the gate it is at, its label is the one of the right value, the
  hash of the forwarded ciphertexts is the committed one, and all threads end.
* **Cut-and-choose.**  Two threads, one streaming thread per sealed instance, a
  worker pool, bounded and unbounded channels, failures of one of them.
  Correct means: no seed of a sealed instance leaves the garbler, what passes
  the check agrees with the commitments, an honest run passes, nobody hangs.
* **Soldering.**  The labels of one sealed instance must lead to those of all
  others, and nothing but one proof says they will.  Correct means: deltas that
  were accepted carry the base's committed labels to the committed labels of
  every instance.
* **VSSS.**  Shares, commitments, signatures and tables are four views of one
  polynomial.  Correct means: one published signature per chunk opens every
  sealed instance on that instance's own labels of the signed value, and no
  label of another value becomes known.
* **Gadgets.**  Gates compute on wires whose form (standard, Montgomery, a
  second zero equal to the modulus) is a convention of each function.  Correct
  means: the numbers on the output wires are those of native arithmetic, and the
  verifier's wire is one exactly for valid proofs.

The hazards, each at its line and with the properties that would catch it, are
in `PROJECT.json`.

## 2. Modules

Storage, streaming and garbling:

| Module | Models | Role |
|---|---|---|
| `Storage` | `storage.rs` | operators from a storage to its successor; no variables, so that two machines can use it |
| `WireLedger` | what storage promises | abstract specification: budgets and values, no keys |
| `WireStorage` | `Storage` under its callers' discipline | state machine, one action per method; implements `WireLedger` |
| `ComponentMeta` | `component_meta.rs` | circuits as data; templates, credit stacks and grants as operators |
| `LruOrder` | what an LRU cache is | sequence operators, used by the next two rows and `LruCache` |
| `StreamingCircuit` | `streaming_mode.rs`, `run_streaming`, `ExecuteMode` | one action per call on the context; composes `Storage`, `ComponentMeta`, `LruOrder` |
| `TemplatePool` | `component_template_pool.rs` | map, slab and links; implements `LruCache` |
| `LruCache` | what the pool promises | abstract specification |
| `HalfGates` | `halfgates_garbling.rs`, `gate_type.rs` | garbling of a gate over any self-inverse group and any hash |
| `GarbledStream` | the two modes and the threads of `gsv_garble.rs` | composes `HalfGates` with two channels |

Protocols:

| Module | Models | Role |
|---|---|---|
| `Soldering` | `sp1_soldering.rs`, the guest program, the checks of `soldering/evaluator.rs` | operators |
| `CutAndChoose` | `vanilla/{garbler,evaluator}.rs` and `soldering/{garbler,evaluator}.rs` as run by `gsv_vanilla.rs` and `gsv_soldering.rs` | both parties, streaming threads, workers, faults; composes `Soldering` |
| `SecretSharing` | `vsss/core.rs`, `vsss/adaptor.rs`, `vsss/wide_garbling.rs` | polynomials, shares, commitments, interpolation; adaptor signatures and label tables |
| `VsssSetup` | `vsss/protocol.rs`, `vsss/{garbler,evaluator}.rs`, `gsv_vsss.rs` | both parties, streaming threads, workers, faults; composes `SecretSharing` |

Gadgets:

| Module | Models | Role |
|---|---|---|
| `BigInt` | `gadgets/basic.rs`, `gadgets/bigint` | functions on sequences of bits |
| `Fp254Impl`, `Fr` | `fp254impl.rs`, `montgomery.rs`, `fr.rs` | the prime-field trait on sequences of bits, for both fields |
| `Fq` | `fq.rs` as its callers see it | the same functions on numbers |
| `Fq2`, `Fq6`, `Fq12` | the files of those names | the tower, on `Fq`, and ark_bn254's arithmetic to compare with |
| `Jacobian`, `G1`, `G2` | `g1.rs`, `g2.rs` | the formulas the files share, and the two groups |
| `Lines`, `PairingSteps` | `pairing.rs`, `final_exponentiation.rs` | schedule of the loop, line functions, and the state machine that streams them, over any arithmetic |
| `Groth16` | `groth16.rs` | encoding, decompression, and the pairs the verifier makes |
| `InputWires` | `into_wire_list.rs`, its impls, `garbled_groth16.rs` | orders of wires |
| `Gadgets`, `FieldsAndCurves` | | one call of a gadget per behaviour, with the properties |
| `Groth16Circuit` | `final_exponentiation.rs`: powers to the curve's parameter | whole pairings and verifications, step by step; `PairingSteps` twice, and one implements the other |
| `Eagerly` | | evaluation of arguments before a call, for TLC |

`MC*` modules hold the small instances, `*_proofs` the theorems; `ReadCounts_proofs`
holds the lemmas on counts of reads and on direct runs of circuits that
`StreamingCircuit_proofs` rests on.

Definitions named in a comment as `Mutant:` are deliberately wrong variants of
the definition that follows them.  No specification uses them; each is there to
show that a property notices the bug when it takes the place of the right one.

### Correspondence with the code

*Storage.*  `store` is the slab: a function from slots to `[credits, data]`,
where zero credits is a vacant slot (`Entry.credits` is `NonZero`).  Keys are
slots plus 2, as `index_offset` has it; `UNREACHABLE` is no key.  `Vacant`
leaves the choice of slot to the slab.  `Get` removes the entry with its last
credit.  In `WireStorage`, `handle` and `left` are the callers' knowledge: a
call is made only while reads are left, because storage cannot notice a stale
key.  That circuits respect this is `CreditsExact`.

*Streaming.*  A component is a record of its arity, the calls its closure makes
on the context, and its outputs, on names as the metadata pass assigns them.
`frames` is `StreamingContext.stack` together with the position in each closure
and the wires bound so far.  `with_named_child` is two actions, `RunCall` up to
the call of the closure and `RunReturn` after it, because the child's steps come
between.  `Machine` is the storage plus whether every access so far succeeded:
a failed access is a panic.  `Disciplined` is how the gadgets use wires: a
closure reads and returns only wires that have a value, and a gate writes a wire
that the closure issued and has passed to no child.  The one gate that writes a
wire which already has a value is `Gate::not`, in place; its wire must be read
afterwards, as it is in the tests of `basic.rs`, its only callers.  `Meaning` is
the same circuit run directly, without wires, credits or templates.

*Garbling.*  `GarbleGate`, `Forward`/`EndProxy` and `EvaluateGate` are the three
threads.  A ciphertext on its way carries the number of its gate, which the code
does not send and no action reads: `StreamAligned` is about it.  Each closure is
the same sequence of gates; wires are written once (recycling is
`StreamingCircuit`'s business).

*Cut-and-choose.*  What a seed garbles to is a function, so an instance is its
index and `fault` says which of its parts differs from what was committed.
`gpc`/`epc` are the positions in `run_garbler` and `run_evaluator`; one action
per message handler, worker step and ciphertext.  Checks compare what the code
compares.  `crash` allows a panic of either party at any point.  `flow` is
chosen at the start: in the soldered flow the garbler proves and sends the
base's labels, and the evaluator verifies the proof before it asks for them.

*Soldering.*  A label is a set of random strings and XOR is symmetric
difference, so two labels are equal only when they are made of the same strings;
a hash is its input, marked.  A proof is the public output of the guest program
it proves: the prover and the soundness of its proofs are external.

*VSSS.*  Scalars are numbers below a small prime, and a point is known by its
logarithm.  Polynomials, shares, adaptor signatures and tables are computed, not
idealised: `extract` subtracts the signatures and an entry of a table opens when
the key is the one it was made with.  The label of wire w for bit b in instance
i is `<<i, w, b>>`.  Values that are random in the code are given by operators
without coincidences or degenerate cases (assumption `Distinct` of `MCVsss`).

*Integers and prime fields.*  A gadget is the function its gates compute on a
sequence of bits; the split into components is left out, and so are the keys.
`Fp254Impl` has two moduli because the trait's default methods take their
constants from `ark_bn254::Fq` whichever field they serve.

*From bits to numbers.*  Everything above the prime field uses it only through
the trait's methods, so `Fq` states each method as a function on numbers, the
second zero (the modulus itself) included, and `FieldExact` shows on bits that
these are the functions of `Fp254Impl`.  The tower, the groups and the pairing
then run on numbers, with the same calls in the same order as in the code,
constants in the form (standard or Montgomery) the code gives them.

*Pairing.*  `PairingSteps` has the steps in which the circuit streams: all lines
of a pair, pair by pair; the loop that takes them up; the chain of the final
exponentiation, a step for each statement.  Its arithmetic is a parameter.
`Groth16Circuit` instantiates it with the gadgets (`Circuit`), which it runs, and
with ark_bn254's arithmetic (`Ark`), which `Circuit` implements under the
mapping from Montgomery form (`ImplementsArk`).  Its tasks are the loops with
constant Q, with constant Q and affine P, with Q on wires, and the verifier's,
whose pairs are of both kinds.

*Inputs.*  `InputWires` has `allocate`, `collect_wire_ids`, `encode`,
the constructors and `from_wires` of plain and compressed inputs, each with the
order it writes down itself.

## 3. Runs

| Run | Instance | Distinct states | Shows |
|---|---|---|---|
| `storage` | 3 wires, 3 slots, credits up to 3, two values | 42,868 | answers are the ledger's; no alias, no leak |
| `streaming` | 4 leaves x 4 middles x 8 roots, and 2 roots of no inputs, all inputs, 8 slots, pool of 2 | 16,106 | credits exact at every step, no panic, frames balanced, right outputs, termination |
| `template_pool` | 4 keys, capacity 3, 4 slab indices, two values | 15,649 | consistent links and map; LRU cache |
| `garbled_stream` | 484 circuits of 3 gates, two seeds, 3-bit labels | 81,792 | labels agree, streams aligned, hash as committed, all threads end |
| `gate_index` | the same | | counterexample to a comment, section 6 |
| `cut_and_choose` | 3 instances, 2 sealed, streams of 2 over channels of 1, one worker or two, 2 input wires, both flows, one fault or crash | 268,732 | sealed seeds, soundness of acceptance, of deltas and of evaluation, no false rejection, no hang |
| `gadgets` | all pairs of 5-bit integers, pairs of 9 to 11 bits; fields of 23 and 19 elements on 5 bits | 4,159 | the gates compute the numbers; both branches of Karatsuba |
| `fields_and_curves` | field of 103, curves of order 97, windows of 3 bits | 2,922 | tower, group law with all kinds of pairs of points, all scalars, input wires |
| `g2_scalar_mul` | the same | | counterexample to a test, section 6 |
| `groth16` | field of 100,003, BN curve with x = 7, order 99,709 | 2,530 | every step of the pairing is the native one; proofs accepted exactly when valid |
| `vsss` | 4 instances, 2 sealed, 3 input wires in chunks of 2, 251 scalars, streams of 2 over channels of 1, two workers, one fault or crash | 61,175 | shares exact, checks sound, own labels only, termination |
| `vsss_abort` | the same | | counterexample to a doc, section 6 |

Why the bounds are enough.

*Storage:* three wires on three slots fill the slab and recycle each slot with
another owner; credits from 1 to 3 separate the last read, a middle read and the
overflow.  *Streaming:* three levels make counters pass through a component that
itself passes them on; arguments repeat, are constants or outputs of earlier
calls; outputs are internal, inputs, constants, duplicated or unread; two
templates of room for three components evict on every level.  Two roots without inputs, one of them without outputs, make the
loops over them take no turn.  `MaxCredits` is
31, above any count reached, as 65535 is assumed to be in the code.  `MCPick`
gives this run one deterministic choice of slot, since `storage` has all of
them.  *Pool:* with capacity 3 an entry has two neighbours, which are the only
ones the links touch; a fourth key evicts.  *Garbling:* three gates allow a live
or dead gate between two that use each other's wires, of all types; three bits
make label 0, delta and hashes differ.

*Cut-and-choose:* two sealed instances and one worker make one stream wait for
another with a full channel, and with two workers one check fails while a stream is
drained (`pool` is chosen in the initial states and never changes); one opened
instance exercises regarbling; two
sealed instances are a base and one that is soldered to it; two wires tell a
wire's delta from its neighbour's.  *VSSS:* four instances, two of them sealed,
give polynomials of degree 2 with two opened shares, so that one label completes
them and none of the opened ones does; three wires in chunks of two have a full
and a short chunk; `SharingExact` tries all degrees and all numbers of shares up to
four, so that both parities of the signs and all sets of missing points occur; `Secrets` are one scalar and its negation, so one of the points is odd.
With fewer workers than sealed instances an honest run waits forever, because
the senders of all streams live until the garbler ends; `PoolSize` is as large
as `Finalize`, which is what a machine with enough cores gives.

*Gadgets:* `KaratsubaAbove` is 4 instead of 19 and a chunk 2 instead of 8, so
that 5-bit products are split once and those of 9 to 11 bits twice, with parts of
unequal length.  *Fields:* corner values are both zeros, their neighbours, the middle
and Montgomery's one.  Multiples 0, 1, 2, 5, 48 and 96 of the base make equal,
opposite, infinite and general pairs of points; all 97 scalars pass windows of
3 bits, the last one shorter.  With 103, 9 + u is a square and Fq12 only a ring,
so what needs the field's order (cyclotomic squaring) is checked in `groth16`.
*Groth16:* x = 7 gives a curve of the same family whose tower is one of fields and
whose loop count, 44, has digits 1, 0 and -1 as ark's does; its prime, 100,003,
leaves products within TLC's 32-bit integers.  Proofs have 0, 1 and 2 public
inputs and are as made or with one of six changes, one of which (a and b both
negated) leaves them valid, plain or compressed.  The native pairing of the
generators is a constant and `PairingAssumption` checks that its order is right.

Fairness.  `streaming` is one synchronous call: weak fairness of `Next`.
In `garbled_stream`, `cut_and_choose` and `vsss` every actor is an
operating-system thread that blocks only in `send` and `recv`, so each has weak
fairness of its own; workers are per index, as rayon's pool takes up work as long
as a thread is free.  No fairness makes a worker take another index once one has
failed, because collecting into a `Result` may stop early: `vsss_abort` is the
consequence in the one protocol, `NobodyHangs` holds all the same in the other.
Crashes have none.  `CHECK_DEADLOCK FALSE` where programs
end.

After a garbler panic the `main` of the examples ends the process at the first
`join`; the models let the evaluator and the streaming threads run on, which
includes that behaviour's prefixes and makes `NobodyHangs` stronger.

## 4. Proofs

*`WireStorage_proofs`.*  For any finite or infinite sets of wires and slots, any
`MaxCredits > 0` and any slot choice `Pick`, from `StorageAssumption`:
`StorageTypeOK`, `StorageSafe` (`CreditsMatch`, `NoAlias`, `NoLeak`) and
`StorageImplementsLedger`.  The invariant is the conjunction of the four: none of
the three safety parts is inductive alone.  A read of the last credit frees a
slot, which keeps `NoLeak` only when no other live wire points at it
(`NoAlias`), and an allocation keeps `NoAlias` only because a live wire's slot is
occupied (`CreditsMatch`).  The refinement uses the same invariant: `Held`, the
value found through a wire's key, changes for the called wire only because no
other wire shares its slot.

*`HalfGates_proofs`.*  `GateCorrect`: from the group laws of
`LabelsAssumption` and `HashAssumption` alone, degarbling gives the output
label of the value the gate computes, for all gate types, labels, offsets,
values and indices.  The half-gate case goes through `AlphaForm`, that each of
the eight truth tables is `((a # alphaA) /\ (b # alphaB)) # alphaC`.

*`GarbledStream_proofs`.*  From `StreamAssumption` and the two assumptions of
`HalfGates`: `StreamTypeOK`, `StreamLabelsAgree`, `StreamIsAligned` and
`StreamNoPanic`, for circuits of any length.  Neither side waits at free gates,
so either may be ahead, and `LabelsAgree` is not inductive: it says nothing of a
wire only one side knows.  `IInv` adds what is known of the gates between the two
positions.  Where the garbler is ahead, `Garbled` says that its labels are
`garble_gate`'s of their operands' and `InTransit` that the ciphertext under way
is that gate's; where the evaluator is ahead, `Evaluated` says the gates are free
or dead and their labels those of `degarble_gate` without a ciphertext.  When the
other side arrives, `GateCorrect` makes the labels agree.  `Ending` (a returned
proxy leaves nothing behind) excludes an exhausted source.

`StreamHashesMatch` is about two garblings: one hashes the ciphertexts for the
commitment, the other streams them.  `Repeated` says that the second is, at its
position, where the first was there: its labels, and what it has sent, forwarded
and hashed, are those of `FirstPass`, and what is under way is what comes next.
`FirstPass` is a recursive function; that it exists for a circuit of any length is
`PassExists`, by `SetInduction`: induction for the set of the lengths at which it
does, a set being something the provers can instantiate where a predicate is
not.

*`CutAndChoose_proofs`.*  For any number of instances, wires and workers, any
length of streams and channels, and from `CutAssumption` only: all six
invariants of the run.  That at most one instance is faulty, which the run
assumes, is used nowhere.  `SeedsStaySealed` speaks of the messages under way,
and what the garbler will still say depends on where it is: `Control` and
`Queues` tie `gpc`, `epc` and `stage` to what the messages under way may say, so
that there is one challenge, seeds are those it leaves out, and a stream is
started for no other instance than those it names.  From this and the
streams' part follow `StreamConserved` and, with what each check of the evaluator
has compared, `AcceptedSound` and `EvaluatedSound`.  `Soldered` carries the proven
deltas from the message to the evaluator's state; that symmetric difference is a
group is `XOR`'s part of it.  `HonestNeverPanics` needs `Lockstep`: a table of
the positions the two programs can be at together, and the messages then in each
queue, in which none meets a receiver that has gone or expects another.

*`TemplatePool_proofs`.*  For any keys, templates and capacity, from
`PoolAssumption`: `TypeOK`, `PoolSound` and `ImplementsLru`.  Links that agree in both directions do
not make a list: some entries may lie on a ring beside it, which eviction never
reaches, and the list itself may run empty while they are left.  `List` therefore
says that every entry leads to the tail, in the form that a set of entries closed
under `next` has the tail in it, and `Push`, `Unlink` and `DropLast` are shown to
keep this.  `move_to_front` is `Unlink` and `Push`, an eviction is `DropLast`.

The mapping to `LruCache` follows the links from the head.  `Ordered` is the
invariant that they are a sequence with every used entry in it once (`Chain`);
then what the mapping lists, another recursive function, is that sequence
(`InOrderIs`).  For each method one lemma says how the sequence changes
(`MoveChained`, `EvictChained`, `PushChained`) and one that the cache changes its
order likewise (`HitMatches`, `InsertMatches`, `RoomMatches`, `PushMatches`), and
`FoundAt` that the map leads to the entry a search of the order would find.

*`ReadCounts_proofs` and `StreamingCircuit_proofs`.*  For any set of circuits, of any
depth of nesting and any sharing of wires, any storage, any `MaxCredits` and
any capacity of the pool, from `StorageAssumption`, `CircuitsAssumption` and, for the
last two, `DisciplineAssumption`:

* `TypesInvariant` and `BalancedInvariant` (`FramesBalanced`, the assertion that
  `with_named_child` makes in test builds).  Both follow from `Structure`, in
  which phase, cursor and stack agree, the names a frame has bound and the
  wires it still creates are together those of its component, and there is one
  counter for each wire to create.
* `CreditsInvariant`: `CreditsExact`, under `[]CountsFit`.  Without that hypothesis
  it is false: `*slot += credit` wraps in a release build.
* `PanicsNever`: `NoPanic`, and `ComputesTheCircuit`: `OutputsCorrect`, both under
  `[]CreditsFit`.  `CreditsFit` is `CountsFit` and a bound on the credits of a slot
  while a call is granted the child's reads.  It depends on how often a
  circuit reads its wires and stays a hypothesis; it is also a conjunct of
  `NoPanic`, so that TLC checks it on every run.  What `PanicsNever` adds is the rest:
  no access fails, and the stacks are balanced.

`CreditsExact` alone is not inductive.  A wire gets its credits from a counter
that was computed when its frame was entered, in part from what the caller
promised for its outputs, and nothing in `CreditsExact` speaks of wires that do
not exist yet.  `Exact` therefore has two halves: every counter on every stack
is the number of reads its wire will have once created (`AllStacked`), and every
slot has the credits its wire is owed, summed over all frames and all its names
(`AllPaid`, which is `CreditsExact`).  A step is described without the storage,
as reads of names of the top frame (`ReadOff`), a wire issued to it
(`IssuedTo`), a frame pushed (`Pushed`) or handed back (`HandsBack`); the
lemmas of `ReadCounts_proofs` say what each does to what is owed, and others what
`get` and `add_credits` do to credits, alone and in the sequence of accesses of a
call (`CallAccesses`).  That a new frame takes over exactly what its caller was
owed is where the metadata pass comes in: `StackIs` says that `to_instance`
stacks the reads of the child's wires, `CallAccesses` that it grants those of
its inputs.  That the template found in the pool is the child's is `Pool`, part of
the types: it needs that components with one key have one template
(`KeysDistinct`).

That no access fails and that every value is right are one invariant, `Held`: a
gate writes the right value only if its operands are found and right, and a wire
is found only if nothing has been written over it.  It says that every closure on the stack was
called with what a direct run calls it with (`Called`), that the values decoded so
far are those of the direct run (`Decided`), and, for every name in every frame,
`Good`: a name that is still read has a wire that exists (`Reachable`); if the direct run
has given it a value, the wire has that value (`Valued`); and a wire of a closure's own
has no second name that is still read (`Apart`), so that overwriting it (`Gate::not`) or
writing it for the first time changes no other name's value.  `Dropped` is about the wires that are
never read: they are not allocated, and a gate that writes one changes nothing.
Four lemmas say what keeps `Good` whatever the circuit: reads
that are over (`GoodFewer`), a write (`GoodWrite`), a new wire (`GoodIssue`) and new
names of old wires (`GoodPass`, for calls and returns).  `Held` is inductive only with `Exact`: that a
wire which is still read has credits (`LivePaid`) is why its slot is not vacant and
no new wire takes it.  The values of a frame are those of its component's
`Course` at its position (`ValuesIn`), so a return gives the caller
what the direct call computes (`ReturnedValue`); that needs no induction over nesting,
because `Meaning` is defined for all components at once (`MeaningIs`).

`CircuitsAssumption` says what the code's types and contexts enforce: a closure
names only wires its context gave it, a call passes as many arguments as the
child takes, and components do not call themselves.  `DisciplineAssumption` is what they do not
enforce: a circuit that reads a wire no gate has written panics, and one that
writes its argument changes a wire of its caller.  TLC evaluates both for the circuits of
the run, some of which negate a wire in place.

`Total`, `Perform`, `Remaining`, `Course` and `Meaning` are recursive functions.  That
they exist and what they give (`TotalConcat`, `TotalExchange`, `RemainingIs`,
`CourseIs`, `MeaningIs`) is proved by `SetInduction`, as in `GarbledStream_proofs`.

*`VsssSetup_proofs`.*  For any number of instances, wires and threads, from
`VsssAssumption`: `TypeOK` and `RevealedBelowThreshold`, and `RegarbledSound` from
`SharingCorrect` besides.  `regarbled` is set long after the checks it stands for,
so the invariant says of each check passed what it has seen (`Checks`) and that
this has not changed since: messages of both sides name the one challenge
(`Messages`, `Chosen`), nothing is opened before it (`Opening`), and only the worker
of a stream writes its file (`Streams`).  That a fault is then noticed follows
from `SharingCorrect`, which speaks of honest shares only: `windowed_mul` keeps
scalars, honest shares pass `verify`.  It is arithmetic of recursive functions,
which the prover cannot expand for every degree; TLC evaluates it for the run
(`Arithmetic` in `MCVsss`).  Its conjunct on powers of two is there because the
provers know nothing of exponentiation.

`OwnLabels` (`LabelsMatchInput`) and `Signatures` (`SignaturesVerify`) follow the one
claim from the challenge to the results.  `Claims` is the invariant they add, inductive
only with `RegarbledSound`: an adaptor is of the instance the challenge named, the
signatures in the queue are of the one value the garbler asserted, the labels kept are
every sealed instance's own for that value (`Recovered`), and the results are read off
with them.  Four lemmas carry the data: `Infos` (an adaptor is of the share committed for
its value), `Undone` (extraction takes off what completing a signature added),
`Extraction` (of all values of a chunk the right one is found, and the key opens its
entry alone) and `AllPoints` (the labels of the instances whose shares nobody opened are
interpolated).  `Passes` is BIP-340's equation for either sign of the nonce's point and of
the key's.  These theorems have as hypotheses, besides `SharingCorrect`:

* `SharesInterpolate`, that any `Degree + 1` shares of a polynomial give the others.  It is
  the theorem of Lagrange, for `lagrange_interpolate_whole_polynomial` as coded; TLC checks
  it as a conjunct of `SharingExact`.
* `NoCoincidence`, that within an instance no two shares of a chunk are equal, also after a
  fault, and no two of its adaptors' nonce points have one x-coordinate.  The code draws them at random from 256 bits
  and looks the labels up by what they open, so with equal ones it would take the wrong
  entry; with overwhelming probability there are none.
* `NoDegeneracy`, for `Signatures` only: no nonce's point is infinity, and no
  challenge makes the evaluator's key equal to its negation.
* `ScalarAssumption`: nonces and hashes are scalars.

TLC evaluates all four for the run (`Arithmetic`, `Distinct`, the assumption itself and
`SharingExact`).

Only model-checked:

* of `StreamingCircuit`, that the credits fit (`CreditsFit` in `NoPanic`);
* of `VsssSetup`, `SharingExact`: interpolation and windowed multiplication are
  sums and products over sequences of any length, and their exactness is an
  induction over these.  Its part `SharesInterpolate` is a hypothesis of two theorems;
* what the gadgets compute.  Their correctness for
  every width would be an induction over data with operators as parameters, for
  which the prover has no instantiable theorem, and many of them are `RECURSIVE`
  operators or folds with a `LAMBDA`, which it does not take at all.  The bounded
  runs stand for them;
* `ImplementsArk`; everything temporal under fairness (`Terminates`, `Completes`,
  `NobodyHangs`), which the prover does not reach.

## 5. Not modelled, and the plan

Next: a bound on the reads of a circuit from which `CreditsFit` follows.

Not modelled:

* Multigarbling mode.  It is the garble mode lane by lane, and only a test calls
  it.
* Preallocation and finalize of ciphertext files.  The protocols keep the number
  of ciphertexts per file; no program reads a file it has not finalized itself,
  so a crash between the two has no reader.
* `run_regarbling`, `mark_regarbled` and `open_commit_without_ciphertexts` of the
  vanilla parties, which only tests and wrappers call.
* Hash functions, AES and the bit arithmetic of labels: any hash and any
  self-inverse group will do.
* The SP1 prover (external): a proof is what the guest puts out.
* Component keys.  Different components have different keys in the model; the
  code relies on a 64-bit hash and on each call site to name what the key must
  capture.
* Splitting of gadgets into components, serialization, conversion of points to
  their canonical form, `EvaluatorCompressedInput::verify`, queries that change
  nothing, random test values.
* Logging, measurement, hardware detection, the other examples.
* Secrecy as such, which is a statement about distributions.
  `RevealedBelowThreshold` and `SeedsStaySealed` say what is handed out.

Gates, wires and fields are small in every instance.  No run says anything about
overflow of the 16-bit credit counters beyond what `storage` shows of
`add_credits`; `CreditsInvariant` has it as a hypothesis that counts stay below the
maximum, and the two theorems after it that credits do.

## 6. Where code and comments differ

Three runs end in a counterexample, each to a statement of the repository.

*`gate_index`.*  `GarbleMode` and `EvaluateMode` say that a gate whose output is
unreachable does "not advance gate index" (`garble_mode.rs:202`,
`evaluate_mode.rs:130`, `modes.rs:40`), but both take the next index before they
look at the output.  Both sides do it, so nothing in `garbled_stream` breaks;
changing one of them to match the comment would (`GarblerSkips` is that change).

*`g2_scalar_mul`.*  `scalar_mul_by_constant_base_montgomery` of `g2.rs` makes its
table of points in standard form (line 462) and adds them as Montgomery forms.
Its counterpart in `g1.rs` converts them, and the test in `g2.rs:814` expects it.
No circuit calls it.

*`vsss_abort`.*  `docs/gsv_vsss.md:59` says that any mismatch aborts the
protocol.  `run_garbler` keeps a sender of every stream to its end, so no drain
ends before all streaming threads have.  When an opened instance fails and the
worker pool stops taking indexes, a sealed one that was not taken leaves its
thread blocked on a full channel, and `run_regarbling` does not return.  In
`gsv_vanilla` the senders move into their threads, so a drain ends with its own
thread and the same early stop does no harm (`NobodyHangs`).

Smaller observations, which no run refutes:

* Half of the evaluator's secrets have a point with odd y, and
  `EvaluatorAdaptorSigs` does not correct the key's sign: the signatures then do
  not pass BIP-340, though extraction from them works.  `SignaturesVerify` states
  exactly this.
* The garbler of `gsv_vsss` publishes the Assert when its threads are joined, and
  not after the evaluator's verdict.  The doc has the assert index chosen after
  the opening; the code sends it with the challenge.
* `neg` returns the modulus for zero, `inverse` returns some number for zero where
  its comment promises a panic, and `Fr`'s `neg` and `sub` use the base field's
  constant.  The verifier inverts zero only if the public inputs' product is the
  point at infinity, and calls neither of the two on `Fr`.
* `neg_pos_sum_of_powers_of_two` (`vsss/core.rs:12`) promises a minimum number of
  terms; 27 gets four where three do (32 - 4 - 1).
* `encode_input` of `vsss/protocol.rs` orders labels by wire number.  For
  compressed inputs this is the order of `collect_wire_ids`; for plain ones it
  is not.
* In soldering, the garbler's `finalized_output_label_commitment` and
  `soldered_base_commitment` differ from the evaluator's (order of the pair, use
  of the nonce).  No program compares them.  `verify_soldering` unwraps where its
  signature promises false, and the comparisons after it compare the evaluator's
  commitments with copies of themselves; what makes them sound is that the proof
  binds the deltas (`AcceptedSound`).  That both parties choose the same base
  rests on both lists being sorted.
