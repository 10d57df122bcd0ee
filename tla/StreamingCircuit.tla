--------------------------- MODULE StreamingCircuit ---------------------------
(***************************************************************************)
(* src/circuit/streaming_mode.rs and `run_streaming` of                    *)
(* src/circuit/mod.rs: a circuit is run as a stream of calls, its wires    *)
(* live in a slab only from their allocation to their last read, and       *)
(* nested components find the number of reads to allow each wire in        *)
(* templates made by the metadata pass.  The mode is `ExecuteMode`         *)
(* (src/circuit/modes/execute_mode.rs): wire values are booleans.          *)
(*                                                                         *)
(* One action per call on the context.  A panic of the program (a wire     *)
(* that is not found, not fed or unreachable, credits that overflow) sets  *)
(* `panicked` and ends the run.                                            *)
(***************************************************************************)
EXTENDS ComponentMeta, LruOrder

CONSTANT Circuits   \* the circuits to run, each a sequence of components

(* The first name that instruction pc of component c could bind.           *)
NewName(crt, c, pc) ==
  FirstMock + crt[c].nin + CreatedBy(crt, crt[c].body, 1) - CreatedBy(crt, crt[c].body, pc)

(* Wire ids come from the context only: a closure names the constants, its *)
(* inputs, the wires it has issued and those its calls have returned.      *)
Known(crt, c, pc) == 0 .. NewName(crt, c, pc) - 1

WellFormed(crt, c) ==
  /\ crt[c].nin \in Nat
  /\ crt[c].body \in Seq(Instruction)
  /\ crt[c].outs \in Seq(Known(crt, c, Len(crt[c].body) + 1))
  /\ \A pc \in DOMAIN crt[c].body :
       LET ins == crt[c].body[pc]
       IN  /\ Operands(ins) \in Seq(Known(crt, c, pc))
           /\ ins.op = "gate" => ins.c \in Known(crt, c, pc)
           /\ ins.op = "call" => ins.comp \in 1 .. c - 1 /\ Len(ins.args) = crt[ins.comp].nin

(* The key of a component, a hash of its name, parameters and arity,       *)
(* decides its template: distinct ones do not collide.                     *)
KeysDistinct(crt) ==
  \A c \in DOMAIN crt :
    /\ crt[c].key # "root"
    /\ \A d \in DOMAIN crt : crt[c].key = crt[d].key => Template(crt, c) = Template(crt, d)

Before(crt, c, pc, op) == {i \in 1 .. pc - 1 : crt[c].body[i].op = op}

(* The names whose wires have a value when the closure of c gets to pc.    *)
Written(crt, c, pc) ==
  0 .. FirstMock + crt[c].nin - 1
  \cup {crt[c].body[i].c : i \in Before(crt, c, pc, "gate")}
  \cup UNION {NewName(crt, c, i) .. NewName(crt, c, i + 1) - 1 : i \in Before(crt, c, pc, "call")}

(* The names whose wires it alone has a name for: those it issued (and the *)
(* inputs of the root) and has not passed to a child.                      *)
Own(crt, c, pc) ==
  ({NewName(crt, c, i) : i \in Before(crt, c, pc, "issue")}
     \cup (IF c = Len(crt) THEN FirstMock .. FirstMock + crt[c].nin - 1 ELSE {}))
  \ UNION {ToSet(crt[c].body[i].args) : i \in Before(crt, c, pc, "call")}

(* The closure reads the wire after pc, or it is an output of the root.    *)
ReadAfter(crt, c, pc, l) ==
  \/ Reads(crt[c].body, pc + 1, l) > 0
  \/ c = Len(crt) /\ l \in ToSet(crt[c].outs)

(* How the gadgets use wires: a wire is read and returned only when it has *)
(* a value; a gate writes a wire the closure issued and, to overwrite one, *)
(* one whose new value is still read (`Gate::not` does it in place).       *)
Disciplined(crt, c) ==
  /\ \A pc \in DOMAIN crt[c].body :
       LET ins == crt[c].body[pc]
       IN  /\ ToSet(Operands(ins)) \subseteq Written(crt, c, pc)
           /\ ins.op = "gate" =>
                /\ ins.c \in Own(crt, c, pc)
                /\ ins.c \in Written(crt, c, pc) => ReadAfter(crt, c, pc, ins.c)
  /\ ToSet(crt[c].outs) \subseteq Written(crt, c, Len(crt[c].body) + 1)

ASSUME CircuitsAssumption ==
  /\ Data = BOOLEAN
  /\ Capacity \in Nat \ {0}              \* asserted by `with_capacity`
  /\ \A crt \in Circuits :
       /\ crt \in Seq([key : {crt[c].key : c \in DOMAIN crt}, nin : Nat,
                       body : Seq(Instruction), outs : Seq(Nat)])
       /\ crt # <<>>
       /\ \A c \in DOMAIN crt : WellFormed(crt, c)
       /\ KeysDistinct(crt)

ASSUME DisciplineAssumption ==
  \A crt \in Circuits : \A c \in DOMAIN crt : Disciplined(crt, c)

VARIABLES
  circuit,    \* the circuit being run; never changes
  input,      \* its input values; never change
  phase,      \* where run_streaming is
  cursor,     \* position in the loop over inputs or outputs of that phase
  store,      \* ExecuteMode.storage
  frames,     \* StreamingContext.stack, with the position in each closure
  pool,       \* StreamingContext.templates
  output,     \* the values decoded so far
  panicked

vars == <<circuit, input, phase, cursor, store, frames, pool, output, panicked>>

(* The metadata pass is a pure function of the closure.                    *)
Templates == [crt \in Circuits |-> [c \in DOMAIN crt |-> Template(crt, c)]]

Root == Len(circuit)
NInputs == circuit[Root].nin
Top == frames[Len(frames)]
CompOf(f) == circuit[f.comp]
Pending(f) == CompOf(f).body[f.pc]
Finished(f) == f.pc > Len(CompOf(f).body)

(* The real wire behind a name of the closure.                             *)
Real(env, l) == IF l \in Constants THEN l ELSE env[l - FirstMock + 1]
Reals(env, ls) == [j \in DOMAIN ls |-> Real(env, ls[j])]

WithTop(f) == [frames EXCEPT ![Len(frames)] = f]
-----------------------------------------------------------------------------
(* `m` is the storage and whether every access to it so far succeeded.     *)
Machine == [store : [Slots -> Entry], ok : BOOLEAN]
Start == [store |-> store, ok |-> TRUE]

(* `lookup_wire`: one read; the constants are not in the storage.          *)
Lookup(m, w) ==
  CASE w \in Constants -> m
    [] w \notin Constants /\ Found(m.store, w) /\ Value(m.store, w) # NoData ->
         [m EXCEPT !.store = Get(@, w)]
    [] OTHER -> [m EXCEPT !.ok = FALSE]

(* `feed_wire`.                                                            *)
Feed(m, w, d) ==
  CASE w \in Constants \cup {UNREACHABLE} -> m
    [] w \notin Constants \cup {UNREACHABLE} /\ Found(m.store, w) ->
         [m EXCEPT !.store = Set(@, w, d)]
    [] OTHER -> [m EXCEPT !.ok = FALSE]

(* `add_credits`.                                                          *)
Grant(m, w, n) ==
  CASE w \in Constants -> m
    [] w \notin Constants /\ Found(m.store, w) /\ ~Overflows(m.store, w, n) ->
         [m EXCEPT !.store = AddCredits(@, w, n)]
    [] OTHER -> [m EXCEPT !.ok = FALSE]

(* An access <<wire, n>>: a read of the wire, with n = -1, or the grant of *)
(* n more reads.  Nothing is done for n = 0, nor after a failure.          *)
Wire == Keys \cup Constants \cup {UNREACHABLE}

Access(a) ==
  [m \in Machine |->
     CASE m.ok /\ a[2] > 0 -> Grant(m, a[1], a[2])
       [] m.ok /\ a[2] < 0 -> Lookup(m, a[1])
       [] ~m.ok \/ a[2] = 0 -> m]

Perform[accesses \in Seq(Wire \X Int)] ==
  LET After[i \in 0 .. Len(accesses)] ==
        IF i = 0 THEN Start ELSE Access(accesses[i])[After[i - 1]]
  IN  After[Len(accesses)]

NoAccess == <<FALSE_WIRE, 0>>
ReadsOf(ws) == [j \in DOMAIN ws |-> <<ws[j], -1>>]
GrantsTo(ws, grants) ==
  [j \in DOMAIN grants |->
     IF grants[j][2] = 0 THEN NoAccess ELSE <<ws[grants[j][1]], grants[j][2]>>]

ValueOf(w) == IF w \in Constants THEN w = TRUE_WIRE ELSE Value(store, w)

EvalGate(g, a, b) ==
  CASE g = "And" -> a /\ b
    [] g = "Nimp" -> a /\ ~b
    [] g = "Or" -> a \/ b
    [] g = "Xor" -> a # b
    [] g = "Not" -> ~a

(* The effect of the accesses: the new storage, or a panic.                *)
Settle(m) ==
  /\ store' = m.store
  /\ panicked' = ~m.ok
-----------------------------------------------------------------------------
(* What the grants come to for the input at position p.                    *)
Granted(grants, p) ==
  Total[[j \in DOMAIN grants |-> IF grants[j][1] = p THEN grants[j][2] ELSE 0]]

Ones(tmpl) == [j \in DOMAIN tmpl.outputs |-> 1]

(* Mutant: the input counters are pushed in input order.                   *)
InputCreditsInOrder(tmpl) ==
  [p \in 1 .. Len(tmpl.inputs) |-> AsCredits(1 + Granted(InputGrants(tmpl, Ones(tmpl)), p))]

(* `to_root_ctx`: the counters of the root's inputs, each seeded with one  *)
(* read for run_streaming, in reverse (`rev_index`) like the rest of the   *)
(* stack they are pushed on.                                               *)
InputCredits(tmpl) ==
  Reverse([p \in 1 .. Len(tmpl.inputs) |->
             AsCredits(1 + Granted(InputGrants(tmpl, Ones(tmpl)), p))])

Init ==
  /\ circuit \in Circuits
  /\ input \in [1 .. circuit[Len(circuit)].nin -> BOOLEAN]
  /\ phase = "metadata"
  /\ cursor = 1
  /\ store = EmptyStore
  /\ frames = <<>>
  /\ pool = <<>>
  /\ output = <<>>
  /\ panicked = FALSE

(* The metadata pass over the root and `to_root_ctx`; a loop over no       *)
(* inputs, like one over no outputs, makes no turn.                        *)
EnterRoot ==
  /\ phase = "metadata"
  /\ LET tmpl == Templates[circuit][Root]
     IN  /\ frames' = <<[comp |-> Root, pc |-> 1, env |-> <<>>,
                         credits |-> InstanceStack(tmpl, Ones(tmpl)) \o InputCredits(tmpl)]>>
         /\ pool' = AddFirst(pool, "root", tmpl)
  /\ phase' = IF NInputs = 0 THEN "run" ELSE "allocate"
  /\ UNCHANGED <<circuit, input, cursor, store, output, panicked>>

(* `issue_wire_with_credit` on frame f: pop a counter, allocate a wire.    *)
IssueWire(f, pc) ==
  LET n == Last(f.credits)
      Bind(w) == WithTop([f EXCEPT !.pc = pc, !.env = Append(@, w), !.credits = Front(@)])
  IN  \/ /\ n = 0
         /\ frames' = Bind(UNREACHABLE)
         /\ UNCHANGED store
      \/ /\ n > 0
         /\ \E i \in Vacant(store) :
              /\ store' = Insert(store, i, NoData, n)
              /\ frames' = Bind(ToKey(i))

(* One turn of the loop over the inputs in phase `ph`; the last one moves  *)
(* on to phase `next`.                                                     *)
Turn(ph, next, n) ==
  /\ phase = ph
  /\ ~panicked
  /\ cursor <= n
  /\ cursor' = IF cursor = n THEN 1 ELSE cursor + 1
  /\ phase' = IF cursor = n THEN next ELSE ph

AllocateInput ==
  /\ Turn("allocate", "encode", NInputs)
  /\ IssueWire(Top, 1)
  /\ UNCHANGED <<circuit, input, pool, output, panicked>>

EncodeInput ==
  /\ Turn("encode", "collect", NInputs)
  /\ Settle(Feed(Start, Top.env[cursor], input[cursor]))
  /\ UNCHANGED <<circuit, input, frames, pool, output>>

(* run_streaming reads every input wire once for its own result.           *)
CollectInput ==
  /\ Turn("collect", "run", NInputs)
  /\ Settle(Lookup(Start, Top.env[cursor]))
  /\ UNCHANGED <<circuit, input, frames, pool, output>>
-----------------------------------------------------------------------------
Running(op) ==
  /\ phase = "run"
  /\ ~panicked
  /\ ~Finished(Top)
  /\ Pending(Top).op = op

Advance(f) == [f EXCEPT !.pc = @ + 1]

RunIssue ==
  /\ Running("issue")
  /\ IssueWire(Top, Top.pc + 1)
  /\ UNCHANGED <<circuit, input, phase, cursor, pool, output, panicked>>

(* `add_gate`: both operands are read, also when the result is unreachable;*)
(* then the result is fed.                                                 *)
RunGate ==
  /\ Running("gate")
  /\ LET ins == Pending(Top)
         a == Real(Top.env, ins.a)
         b == Real(Top.env, ins.b)
         c == Real(Top.env, ins.c)
         m == Perform[ReadsOf(<<a, b>>)]
     IN  Settle(IF m.ok /\ c # UNREACHABLE
                  THEN Feed(m, c, EvalGate(ins.g, ValueOf(a), ValueOf(b)))
                  ELSE m)
  /\ frames' = WithTop(Advance(Top))
  /\ UNCHANGED <<circuit, input, phase, cursor, pool, output>>

Unpinned(ws) ==
  [j \in DOMAIN ws |-> IF ws[j] = UNREACHABLE THEN NoAccess ELSE <<ws[j], -1>>]

(* Mutant: the inputs are unpinned before the child's reads are granted.   *)
UnpinThenGrant(ws, grants) == Unpinned(ws) \o GrantsTo(ws, grants)

(* The storage accesses of `with_named_child`: the child's reads of each   *)
(* argument are granted first, then the read by which the caller counted   *)
(* the call itself is used up.                                             *)
GrantThenUnpin(ws, grants) == GrantsTo(ws, grants) \o Unpinned(ws)

(* The first counter popped belongs to the first output.                   *)
PopOutputs(f, n) == [f EXCEPT !.credits = SubSeq(@, 1, Len(@) - n)]

OutputCredits(f, n) == Reverse(SubSeq(f.credits, Len(f.credits) - n + 1, Len(f.credits)))

(* `with_named_child` up to the call of the closure.                       *)
RunCall ==
  /\ Running("call")
  /\ LET ins == Pending(Top)
         child == circuit[ins.comp]
         n == Len(child.outs)
         ws == Reals(Top.env, ins.args)
         newPool == GetOrInsert(pool, child.key, Templates[circuit][ins.comp])
         tmpl == EntryOf(newPool, child.key).value
         promised == OutputCredits(Top, n)
     IN  /\ pool' = newPool
         /\ Settle(Perform[GrantThenUnpin(ws, InputGrants(tmpl, promised))])
         /\ frames' = Append(WithTop(Advance(PopOutputs(Top, n))),
                             [comp |-> ins.comp, pc |-> 1, env |-> ws,
                              credits |-> InstanceStack(tmpl, promised)])
  /\ UNCHANGED <<circuit, input, phase, cursor, output>>

(* The closure of a child returns: its frame is popped and its outputs     *)
(* become wires of the caller.                                             *)
RunReturn ==
  /\ phase = "run"
  /\ ~panicked
  /\ Len(frames) > 1
  /\ Finished(Top)
  /\ LET caller == frames[Len(frames) - 1]
         outs == Reals(Top.env, CompOf(Top).outs)
     IN  frames' = Append(SubSeq(frames, 1, Len(frames) - 2),
                          [caller EXCEPT !.env = @ \o outs])
  /\ UNCHANGED <<circuit, input, phase, cursor, store, pool, output, panicked>>

RunFinish ==
  /\ phase = "run"
  /\ ~panicked
  /\ Len(frames) = 1
  /\ Finished(Top)
  /\ phase' = IF circuit[Root].outs = <<>> THEN "done" ELSE "decode"
  /\ UNCHANGED <<circuit, input, cursor, store, frames, pool, output, panicked>>

(* `O::decode`: one read of every declared output.                         *)
DecodeOutput ==
  /\ Turn("decode", "done", Len(circuit[Root].outs))
  /\ LET w == Real(Top.env, circuit[Root].outs[cursor])
     IN  /\ Settle(Lookup(Start, w))
         /\ output' = IF Lookup(Start, w).ok THEN Append(output, ValueOf(w)) ELSE output
  /\ UNCHANGED <<circuit, input, frames, pool>>

Next ==
  \/ EnterRoot
  \/ AllocateInput
  \/ EncodeInput
  \/ CollectInput
  \/ RunIssue
  \/ RunGate
  \/ RunCall
  \/ RunReturn
  \/ RunFinish
  \/ DecodeOutput

(* The run is one synchronous call: nothing makes it stop half-way but its *)
(* own panics.                                                             *)
Spec == Init /\ [][Next]_vars /\ WF_vars(Next)
-----------------------------------------------------------------------------
(* What a circuit computes, run directly, with no wires, credits or        *)
(* templates.  `values` has the values of a closure's names, in order.     *)
ValIn(values, l) == IF l \in Constants THEN l = TRUE_WIRE ELSE values[l - FirstMock + 1]
ValsIn(values, ls) == [j \in DOMAIN ls |-> ValIn(values, ls[j])]

(* One instruction; `does` has what the components compute.                *)
Execute(ins, values, does) ==
  CASE ins.op = "issue" -> Append(values, FALSE)
    [] ins.op = "gate" ->
         [values EXCEPT ![ins.c - FirstMock + 1] =
            EvalGate(ins.g, ValIn(values, ins.a), ValIn(values, ins.b))]
    [] ins.op = "call" -> values \o does[ins.comp][ValsIn(values, ins.args)]

(* The values after each instruction of a component called with `in`.      *)
Course(comp, does, in) ==
  LET After[i \in 0 .. Len(comp.body)] ==
        IF i = 0 THEN in ELSE Execute(comp.body[i], After[i - 1], does)
  IN  After

(* The outputs of every component as a function of its inputs.             *)
Meaning(crt) ==
  LET Does[c \in 1 .. Len(crt)] ==
        [in \in [1 .. crt[c].nin -> BOOLEAN] |->
           ValsIn(Course(crt[c], Does, in)[Len(crt[c].body)], crt[c].outs)]
  IN  Does

Meanings == [crt \in Circuits |-> Meaning(crt)[Len(crt)]]

(* The outputs of the root that have been decoded.                         *)
Decoded ==
  CASE phase = "decode" -> cursor - 1
    [] phase = "done" -> Len(circuit[Root].outs)
    [] OTHER -> 0

(* The first name that frame i of fs has not bound yet.                    *)
NextName(fs, i) == IF i = 0 THEN FirstMock ELSE FirstMock + Len(fs[i].env)

(* How often each name of frame i is still read: by the rest of its        *)
(* closure and, where it is an output of the component, by the frame under *)
(* it, which knows it by the name its call is about to bind.  Under the    *)
(* root is the decoding, which reads every output once.                    *)
Remaining(crt, fs, decoded) ==
  LET Left[i \in 0 .. Len(fs)] ==
        IF i = 0 THEN [w \in Nat |-> IF w >= FirstMock + decoded THEN 1 ELSE 0]
        ELSE [w \in Nat |->
                Reads(crt[fs[i].comp].body, fs[i].pc, w)
                  + Total[[j \in DOMAIN crt[fs[i].comp].outs |->
                             IF crt[fs[i].comp].outs[j] = w
                             THEN Left[i - 1][NextName(fs, i - 1) + j - 1] ELSE 0]]]
  IN  Left

(* Inputs run_streaming has not collected yet are read once more.          *)
Uncollected(p) ==
  /\ p \in 1 .. NInputs
  /\ phase \in {"allocate", "encode"} \/ (phase = "collect" /\ p >= cursor)

(* The reads of name l of frame k that are still to come.                  *)
ToCome(k, l) ==
  Remaining(circuit, frames, Decoded)[k][l]
    + (IF k = 1 /\ Uncollected(l - FirstMock + 1) THEN 1 ELSE 0)

(* The reads of real wire w still to come, under all the names it has.     *)
Demand(w) ==
  Total[[k \in DOMAIN frames |->
           Total[[j \in DOMAIN frames[k].env |->
                    IF frames[k].env[j] = w THEN ToCome(k, j + FirstMock - 1) ELSE 0]]]]
-----------------------------------------------------------------------------
(* Every variable has its type.                                            *)
TypeOK ==
  /\ phase \in {"metadata", "allocate", "encode", "collect", "run", "decode", "done"}
  /\ store \in [Slots -> Entry]
  /\ \A k \in DOMAIN frames :
       /\ \A j \in DOMAIN frames[k].env :
            frames[k].env[j] \in Wire
       /\ \A j \in DOMAIN frames[k].credits : frames[k].credits[j] \in 0 .. MaxCredits
  /\ Len(pool) <= Capacity
  /\ \A j \in DOMAIN output : output[j] \in BOOLEAN
  /\ panicked \in BOOLEAN

(* The credits of every slot are, at every moment, exactly the reads its   *)
(* wire still has to serve: through gates, calls, the children those calls *)
(* will enter, outputs handed back and the decoding of the result.  So a   *)
(* wire is reclaimed "precisely when the final read occurs" (modes.rs),    *)
(* never before, no slot is held for a read that does not come, and the    *)
(* storage is empty when the run is over.                                  *)
CreditsExact ==
  ~panicked => \A k \in Keys : store[ToIndex(k)].credits = Demand(k)

(* A frame holds one counter for every wire its closure still creates.     *)
FramesBalanced ==
  \A k \in DOMAIN frames :
    LET f == frames[k]
    IN  Len(f.credits) =
          CreatedBy(circuit, CompOf(f).body, f.pc)
            + (IF phase = "allocate" THEN NInputs - cursor + 1 ELSE 0)

(* No count of reads is more than `Credits` can hold.                     *)
CountsFit ==
  \A k \in DOMAIN frames :
    \A l \in Known(circuit, frames[k].comp, Len(CompOf(frames[k]).body) + 1) :
      l >= FirstMock => ToCome(k, l) <= MaxCredits

(* Nor are the credits of a wire, of which a call holds the most: the      *)
(* child's reads are granted before those of the call itself are used up.  *)
CreditsFit ==
  /\ CountsFit
  /\ \A w \in Keys :
       Demand(w) + (IF Len(frames) > 1 /\ Top.pc = 1 THEN Occurrences(Top.env, w) ELSE 0)
         <= MaxCredits

(* No access of the run meets a wire that is missing, not fed, unreachable *)
(* or out of credits, and no count overflows, which a debug build would    *)
(* notice and a release build would not; nor could the assertion fail that *)
(* `with_named_child` makes in test builds only, that a frame's credit     *)
(* stack is empty when its closure returns.                                *)
NoPanic == ~panicked /\ CreditsFit /\ FramesBalanced

(* The run decodes what the circuit computes: recycled slots, shared names *)
(* and evicted templates change no value.                                  *)
OutputsCorrect == phase = "done" => output = Meanings[circuit][input]

(* Every run ends with its outputs decoded.                                *)
Terminates == <>(phase = "done")
=============================================================================
