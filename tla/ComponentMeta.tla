---------------------------- MODULE ComponentMeta -----------------------------
(***************************************************************************)
(* src/circuit/component_meta.rs: the metadata pass.  Before a component   *)
(* runs, its closure is run once on mock wires to count how often each     *)
(* wire is read; the counts become the credits the wires are allocated     *)
(* with.  The pass computes no gate and enters no child.                   *)
(*                                                                         *)
(* A circuit is data here.  A component is                                 *)
(*   [key, nin, body, outs]                                                *)
(* with a body of instructions, the calls its closure makes on the         *)
(* context:                                                                *)
(*   [op |-> "issue"]                           ctx.issue_wire()           *)
(*   [op |-> "gate", g, a, b, c]                ctx.add_gate(..)           *)
(*   [op |-> "call", comp, args]                ctx.with_named_child(..)   *)
(* Its wires are named as the metadata pass names them: 0 and 1 are the    *)
(* constants, 2 .. nin + 1 the inputs, and the wires it issues and the     *)
(* outputs of its calls follow in order.  A circuit is a sequence of       *)
(* components that call components before them; the last one is the root.  *)
(***************************************************************************)
EXTENDS Storage, Sequences, FiniteSets, SequencesExt

FALSE_WIRE == 0
TRUE_WIRE == 1
Constants == {FALSE_WIRE, TRUE_WIRE}
FirstMock == 2                                              \* WireId::MIN

Issue == [op |-> "issue"]
Gate(g, a, b, c) == [op |-> "gate", g |-> g, a |-> a, b |-> b, c |-> c]
Call(c, args) == [op |-> "call", comp |-> c, args |-> args]

Instruction ==
  {Issue}
  \cup [op : {"gate"}, g : {"And", "Nimp", "Or", "Xor", "Not"}, a : Nat, b : Nat, c : Nat]
  \cup [op : {"call"}, comp : Nat, args : Seq(Nat)]

(* The sum of a sequence of numbers.                                       *)
Total[f \in Seq(Nat)] ==
  LET Upto[i \in 0 .. Len(f)] == IF i = 0 THEN 0 ELSE Upto[i - 1] + f[i]
  IN  Upto[Len(f)]

(* `Credits` is a u16 and `*slot += credit` is not checked in a release    *)
(* build: the count wraps.                                                 *)
AsCredits(n) == n % (MaxCredits + 1)

(* The wires an instruction reads: both operands of a gate, never its      *)
(* output, and every argument of a call, repeated ones once for each.      *)
Operands(ins) ==
  CASE ins.op = "gate" -> <<ins.a, ins.b>>
    [] ins.op = "call" -> ins.args
    [] OTHER -> <<>>

(* How many wires an instruction creates.                                  *)
Created(circuit, ins) ==
  CASE ins.op = "issue" -> 1
    [] ins.op = "call" -> Len(circuit[ins.comp].outs)
    [] OTHER -> 0

(* The wires created, and the reads of mock wire w, by the instructions of *)
(* `body` from the one at `pc` on.                                         *)
CreatedBy(circuit, body, pc) ==
  Total[[i \in DOMAIN body |-> IF i >= pc THEN Created(circuit, body[i]) ELSE 0]]

Occurrences(s, w) == Total[[j \in DOMAIN s |-> IF s[j] = w THEN 1 ELSE 0]]

Reads(body, pc, w) ==
  Total[[i \in DOMAIN body |-> IF i >= pc THEN Occurrences(Operands(body[i]), w) ELSE 0]]

(* `build`: where each declared output comes from.                         *)
OutputType(comp, w) ==
  CASE w \in Constants -> <<"Constant", 0>>
    [] w \notin Constants /\ w < FirstMock + comp.nin -> <<"Input", w - FirstMock + 1>>
    [] OTHER -> <<"Internal", w - FirstMock - comp.nin + 1>>

(* The template of a component: its counts by input position and by order  *)
(* of issue (both from 1), and the types of its outputs.                   *)
Template(circuit, c) ==
  LET comp == circuit[c]
  IN  [inputs |-> [p \in 1 .. comp.nin |-> AsCredits(Reads(comp.body, 1, p + FirstMock - 1))],
       internal |-> [i \in 1 .. CreatedBy(circuit, comp.body, 1) |->
                       AsCredits(Reads(comp.body, 1, i + comp.nin + FirstMock - 1))],
       outputs |-> [j \in DOMAIN comp.outs |-> OutputType(comp, comp.outs[j])]]

(* Credits the caller gives to the outputs of the given type.              *)
Routed(template, outputCredits, type) ==
  Total[[j \in DOMAIN template.outputs |->
           IF template.outputs[j] = type THEN outputCredits[j] ELSE 0]]

(* `to_instance`: the credits of the internal wires, as a stack whose last *)
(* element belongs to the wire issued first.                               *)
InstanceStack(template, outputCredits) ==
  Reverse([i \in DOMAIN template.internal |->
     AsCredits(template.internal[i] + Routed(template, outputCredits, <<"Internal", i>>))])

(* Mutant: an output that is an input of the component earns it nothing.   *)
TemplateReadsOnly(template, outputCredits) ==
  [p \in 1 .. Len(template.inputs) |-> <<p, template.inputs[p]>>]

(* `to_instance`: the (position, credits) pairs it hands to                *)
(* `add_credit_to_input` unless they are of no credits: the component's    *)
(* own reads first, then what the caller reads through outputs that are    *)
(* inputs.                                                                 *)
InputGrants(template, outputCredits) ==
  LET own == [p \in 1 .. Len(template.inputs) |-> <<p, template.inputs[p]>>]
      routed == [j \in DOMAIN template.outputs |->
                   <<template.outputs[j][2],
                     IF template.outputs[j][1] = "Input" THEN outputCredits[j] ELSE 0>>]
  IN  own \o routed
=============================================================================
