------------------------ MODULE StreamingCircuit_proofs ------------------------
(***************************************************************************)
(* The streaming context counts reads exactly, and therefore never panics  *)
(* and decodes what the circuit computes.  The argument:                   *)
(*                                                                         *)
(*   Structure   types, agreement of phase, cursor and stack, and one      *)
(*               counter in each frame for every wire it still creates;    *)
(*   Exact       every counter on a stack is the number of reads its wire  *)
(*               will have once it is created (AllStacked), and every slot *)
(*               has the credits for the reads its wire is owed by all     *)
(*               frames under all its names (AllPaid);                     *)
(*   Held        every closure on the stack was called with the values a   *)
(*               direct run of the circuit calls it with (Called), and     *)
(*               every name that is still read and has a value there has   *)
(*               a wire with that value (Good, in ReadCounts_proofs).      *)
(*                                                                         *)
(* CreditsExact is the second half of Exact; without the first it is not   *)
(* inductive, as a wire gets its credits from a counter that was computed  *)
(* when the frame was entered, or promised by its caller.  Held needs      *)
(* Exact: a slot whose wire is still read is not vacant, so no new wire    *)
(* overwrites it.  All are kept action by action: a step is described as   *)
(* reads of names of the top frame (ReadOff), a wire issued to it          *)
(* (IssuedTo), a frame pushed (Pushed) or handed back (HandsBack), and the *)
(* lemmas of ReadCounts_proofs say what that does to what is owed and to   *)
(* the values.                                                             *)
(***************************************************************************)
EXTENDS ReadCounts_proofs

(* The names frame k of fs has bound, or its call is about to bind.        *)
BoundIn(crt, fs, k) ==
  Len(fs[k].env) + (IF k < Len(fs) THEN Len(crt[fs[k + 1].comp].outs) ELSE 0)

(* Frame k has one counter for each wire it is still to create, and with   *)
(* u inputs to allocate it will have bound all its wires at its end.       *)
FrameOk(crt, fs, u, k) ==
  LET c == crt[fs[k].comp]
      toCreate == CreatedBy(crt, c.body, fs[k].pc)
  IN  /\ Len(fs[k].credits) = toCreate + u
      /\ BoundIn(crt, fs, k) + u + toCreate = c.nin + CreatedBy(crt, c.body, 1)

(* The inputs still to allocate.                                           *)
Unallocated == IF phase = "allocate" THEN NInputs - cursor + 1 ELSE 0

(* The types of the variables.                                             *)
Types ==
  /\ circuit \in Circuits
  /\ input \in [1 .. NInputs -> BOOLEAN]
  /\ phase \in {"metadata", "allocate", "encode", "collect", "run", "decode", "done"}
  /\ cursor \in Nat \ {0}
  /\ store \in [Slots -> Entry]
  /\ frames \in Seq(Frame(circuit))
  /\ pool \in Pool(circuit)
  /\ output \in Seq(BOOLEAN)
  /\ panicked \in BOOLEAN

(* Where the run is: phase, cursor and stack agree.                        *)
Control ==
  /\ phase = "metadata" <=> Len(frames) = 0
  /\ phase = "metadata" => pool = <<>> /\ store = EmptyStore /\ ~panicked
  /\ phase # "metadata" => frames[1].comp = Root
  /\ phase # "run" => Len(frames) <= 1
  /\ phase \in {"metadata", "run", "done"} => cursor = 1
  /\ phase \in {"allocate", "encode", "collect"} => cursor <= NInputs + 1 /\ frames[1].pc = 1
  /\ phase \in {"decode", "done"} => frames[1].pc > Len(circuit[Root].body)

(* Every frame has the counters for the wires it is still to create.       *)
Shape == \A k \in 1 .. Len(frames) : FrameOk(circuit, frames, Unallocated, k)

(* The invariant without the counts of reads.                              *)
Structure == Types /\ Control /\ Shape

(* The root is a component, and the templates are those of the metadata    *)
(* pass.                                                                   *)
LEMMA RootIs ==
  ASSUME Types
  PROVE  Root \in 1 .. Len(circuit) /\ Root \in DOMAIN circuit /\ NInputs \in Nat
         /\ \A c \in 1 .. Len(circuit) : Templates[circuit][c] = Template(circuit, c)
<1>1. circuit \in Circuits
  BY DEF Types
<1>2. Len(circuit) \in Nat /\ Len(circuit) > 0 /\ DOMAIN circuit = 1 .. Len(circuit)
  BY <1>1, ComponentIs
<1>3. Root \in 1 .. Len(circuit)
  BY <1>2 DEF Root
<1>4. NInputs \in Nat
  BY <1>1, <1>3, ComponentIs DEF NInputs
<1>5. \A c \in 1 .. Len(circuit) : Templates[circuit][c] = Template(circuit, c)
  <2>1. Templates[circuit] = [c \in DOMAIN circuit |-> Template(circuit, c)]
    BY <1>1 DEF Templates
  <2> QED BY <1>2, <2>1
<1> QED BY <1>2, <1>3, <1>4, <1>5

(* A frame with no other on top has bound its environment.                 *)
LEMMA TopBound ==
  ASSUME NEW crt, NEW fs, NEW n \in Nat, Len(fs) = n, Len(fs[n].env) \in Nat
  PROVE  BoundIn(crt, fs, n) = Len(fs[n].env)
<1>1. ~(n < n)
  OBVIOUS
<1> QED BY <1>1 DEF BoundIn

(* The types and the balance of the top frame.                             *)
LEMMA TopIs ==
  ASSUME Structure, phase # "metadata"
  PROVE  LET n == Len(frames) c == circuit[Top.comp]
         IN  /\ n \in Nat \ {0} /\ n \in 1 .. n /\ Top = frames[n] /\ Top \in Frame(circuit)
             /\ Top.comp \in 1 .. Len(circuit) /\ Top.pc \in Nat /\ Top.pc # 0
             /\ Top.env \in Seq(Wire) /\ Top.credits \in Seq(0 .. MaxCredits)
             /\ Len(Top.env) \in Nat /\ Len(Top.credits) \in Nat
             /\ c.nin \in Nat /\ Unallocated \in Nat
             /\ CreatedBy(circuit, c.body, Top.pc) \in Nat
             /\ CreatedBy(circuit, c.body, 1) \in Nat
             /\ Len(Top.credits) = CreatedBy(circuit, c.body, Top.pc) + Unallocated
             /\ Len(Top.env) + Unallocated + CreatedBy(circuit, c.body, Top.pc)
                  = c.nin + CreatedBy(circuit, c.body, 1)
             /\ phase # "run" => n = 1 /\ Top.comp = Root
             /\ n = 1 => Top.comp = Root
<1> DEFINE n == Len(frames)
           c == circuit[Top.comp]
<1>1. circuit \in Circuits /\ frames \in Seq(Frame(circuit)) /\ cursor \in Nat
  BY DEF Structure, Types
<1>2. n \in Nat \ {0} /\ n \in 1 .. n /\ Top = frames[n] /\ Top \in Frame(circuit)
  <2>1. n \in Nat /\ n # 0 /\ \A k \in 1 .. n : frames[k] \in Frame(circuit)
    BY <1>1, FramesAre DEF Structure, Control
  <2> QED BY <2>1 DEF Top
<1>3. /\ Top.comp \in 1 .. Len(circuit) /\ Top.pc \in Nat /\ Top.pc # 0
      /\ Top.env \in Seq(Wire) /\ Top.credits \in Seq(0 .. MaxCredits)
      /\ Len(Top.env) \in Nat /\ Len(Top.credits) \in Nat
  BY <1>2, FrameIs
<1>4. c.nin \in Nat /\ CreatedBy(circuit, c.body, Top.pc) \in Nat /\ CreatedBy(circuit, c.body, 1) \in Nat
  BY <1>1, <1>3, ComponentIs, CreatedAre
<1>5. Unallocated \in Nat
  <2>1. NInputs \in Nat
    BY RootIs DEF Structure
  <2> QED BY <1>1, <2>1 DEF Unallocated, Structure, Control
<1>6. FrameOk(circuit, frames, Unallocated, n)
  BY <1>2 DEF Structure, Shape
<1>7. BoundIn(circuit, frames, n) = Len(Top.env)
  BY <1>2, <1>3, TopBound
<1>8. /\ Len(Top.credits) = CreatedBy(circuit, c.body, Top.pc) + Unallocated
      /\ Len(Top.env) + Unallocated + CreatedBy(circuit, c.body, Top.pc)
           = c.nin + CreatedBy(circuit, c.body, 1)
  BY <1>2, <1>6, <1>7 DEF FrameOk
<1>9. n = 1 => Top.comp = Root
  BY <1>2 DEF Structure, Control
<1>10. phase # "run" => n = 1
  <2>1. phase # "run" => n <= 1
    BY DEF Structure, Control
  <2>2. n \in Nat \ {0}
    BY <1>2
  <2> HIDE DEF n
  <2> QED BY <2>1, <2>2
<1> QED BY <1>2, <1>3, <1>4, <1>5, <1>8, <1>9, <1>10

(* The stack with another frame in the place of the top one.               *)
LEMMA WithTopIs ==
  ASSUME Structure, phase # "metadata", NEW f \in Frame(circuit), NEW n, n = Len(frames)
  PROVE  /\ WithTop(f) \in Seq(Frame(circuit)) /\ Len(WithTop(f)) = n
         /\ WithTop(f)[n] = f
         /\ \A k \in 1 .. n : k # n => WithTop(f)[k] = frames[k]
<1>1. frames \in Seq(Frame(circuit)) /\ n \in 1 .. n /\ n \in Nat
  BY TopIs DEF Structure, Types
<1> QED BY <1>1 DEF WithTop

(* The frames below the top are as they should be when the top frame is    *)
(* replaced by one of the same component.                                  *)
LEMMA BelowOk ==
  ASSUME NEW crt, NEW fs, NEW gs, NEW n \in Nat, Len(fs) = n, Len(gs) = n, NEW u,
         \A k \in 1 .. n : k # n => gs[k] = fs[k],
         \A k \in 1 .. n : gs[k].comp = fs[k].comp,
         \A k \in 1 .. n : FrameOk(crt, fs, u, k)
  PROVE  \A k \in 1 .. n : k # n => FrameOk(crt, gs, u, k)
<1> SUFFICES ASSUME NEW k \in 1 .. n, k # n PROVE FrameOk(crt, gs, u, k)
  OBVIOUS
<1>1. k + 1 \in 1 .. n /\ k < n
  OBVIOUS
<1>2. gs[k] = fs[k] /\ gs[k + 1].comp = fs[k + 1].comp /\ FrameOk(crt, fs, u, k)
  BY <1>1
<1>3. BoundIn(crt, gs, k) = BoundIn(crt, fs, k)
  BY <1>1, <1>2 DEF BoundIn
<1> QED BY <1>2, <1>3 DEF FrameOk

(* A step that only replaces the top frame: what the new one has to be.    *)
LEMMA TopReplaced ==
  ASSUME Structure, phase # "metadata", NEW f \in Frame(circuit), frames' = WithTop(f),
         circuit' = circuit, f.comp = Top.comp,
         NEW u \in Nat, u = Unallocated \/ Len(frames) = 1,
         LET c == circuit[f.comp]
             toCreate == CreatedBy(circuit, c.body, f.pc)
         IN  /\ Len(f.credits) = toCreate + u
             /\ Len(f.env) + u + toCreate = c.nin + CreatedBy(circuit, c.body, 1)
  PROVE  /\ frames' \in Seq(Frame(circuit)) /\ Len(frames') = Len(frames)
         /\ \A k \in 1 .. Len(frames') : FrameOk(circuit', frames', u, k)
         /\ \A k \in 1 .. Len(frames) : frames'[k].comp = frames[k].comp
<1> DEFINE n == Len(frames)
           gs == frames'
<1>1. /\ gs \in Seq(Frame(circuit)) /\ Len(gs) = n /\ gs[n] = f
      /\ \A k \in 1 .. n : k # n => gs[k] = frames[k]
  BY WithTopIs
<1>2. n \in Nat \ {0} /\ Top = frames[n] /\ n \in 1 .. n
  BY TopIs
<1>3. \A k \in 1 .. n : gs[k].comp = frames[k].comp
  BY <1>1, <1>2
<1>4. FrameOk(circuit, gs, u, n)
  <2>1. Len(f.env) \in Nat
    BY FrameIs
  <2>2. BoundIn(circuit, gs, n) = Len(f.env)
    BY <1>1, <1>2, <2>1, TopBound
  <2> HIDE DEF gs, n
  <2> QED BY <1>1, <2>2 DEF FrameOk
<1>5. \A k \in 1 .. n : k # n => FrameOk(circuit, gs, u, k)
  <2>1. CASE u = Unallocated
    <3>1. \A k \in 1 .. n : FrameOk(circuit, frames, u, k)
      BY <2>1 DEF Structure, Shape
    <3> HIDE DEF gs
    <3> QED BY <1>1, <1>2, <1>3, <3>1, BelowOk
  <2>2. CASE n = 1
    BY <2>2
  <2> QED BY <2>1, <2>2
<1> QED BY <1>1, <1>3, <1>4, <1>5

(* Names that are bound stand for wires.                                   *)
LEMMA RealsAre ==
  ASSUME NEW env \in Seq(Wire), NEW m, m = Len(env), NEW r \in Nat, NEW ns, Within(ns, r, m)
  PROVE  Reals(env, ns) \in Seq(Wire) /\ Len(Reals(env, ns)) = r
<1>1. DOMAIN ns = 1 .. r /\ \A j \in 1 .. r : ns[j] \in 0 .. m + 1
  BY DEF Within
<1>2. m \in Nat /\ \A i \in 1 .. m : env[i] \in Wire
  OBVIOUS
<1>3. \A l \in 0 .. m + 1 : Real(env, l) \in Wire
  <2> SUFFICES ASSUME NEW l \in 0 .. m + 1 PROVE Real(env, l) \in Wire
    OBVIOUS
  <2>1. CASE l \in Constants
    BY <2>1 DEF Real, Wire
  <2>2. CASE l \notin Constants
    <3>1. l - FirstMock + 1 \in 1 .. m
      BY <1>2, <2>2 DEF Constants, FALSE_WIRE, TRUE_WIRE, FirstMock
    <3> QED BY <1>2, <2>2, <3>1 DEF Real
  <2> QED BY <2>1, <2>2
<1>4. \A j \in 1 .. r : Real(env, ns[j]) \in Wire
  BY <1>1, <1>3
<1>5. Reals(env, ns) \in [1 .. r -> Wire]
  BY <1>1, <1>4 DEF Reals
<1>6. DOMAIN Reals(env, ns) = 1 .. r
  BY <1>1 DEF Reals
<1> HIDE DEF Reals
<1>7. Reals(env, ns) \in Seq(Wire)
  BY <1>5, FunctionSeq
<1> QED BY <1>6, <1>7

(* A name that is bound stands for a wire.                                 *)
LEMMA RealIs ==
  ASSUME NEW env \in Seq(Wire), NEW l \in 0 .. Len(env) + 1
  PROVE  Real(env, l) \in Wire
<1>1. Len(env) \in Nat /\ \A i \in 1 .. Len(env) : env[i] \in Wire
  OBVIOUS
<1>2. CASE l \in Constants
  BY <1>2 DEF Real, Wire
<1>3. CASE l \notin Constants
  <2>1. l - FirstMock + 1 \in 1 .. Len(env)
    BY <1>1, <1>3 DEF Constants, FALSE_WIRE, TRUE_WIRE, FirstMock
  <2> QED BY <1>1, <1>3, <2>1 DEF Real
<1> QED BY <1>2, <1>3

(* The names a closure knows are those its frame has bound.                *)
LEMMA KnownIs ==
  ASSUME Structure, phase # "metadata", Unallocated = 0
  PROVE  Known(circuit, Top.comp, Top.pc) = 0 .. Len(Top.env) + 1
<1> DEFINE c == circuit[Top.comp]
           a == CreatedBy(circuit, c.body, Top.pc)
           b == CreatedBy(circuit, c.body, 1)
           e == Len(Top.env)
<1>1. c.nin \in Nat /\ a \in Nat /\ b \in Nat /\ e \in Nat /\ e + 0 + a = c.nin + b
  BY TopIs
<1>2. Known(circuit, Top.comp, Top.pc) = 0 .. (FirstMock + c.nin + b - a) - 1
  BY DEF Known, NewName
<1> HIDE DEF c, a, b, e
<1>3. (FirstMock + c.nin + b - a) - 1 = e + 1
  BY <1>1 DEF FirstMock
<1> QED BY <1>2, <1>3 DEF e

(* When a closure is over, its outputs are bound.                          *)
LEMMA OutsWithin ==
  ASSUME Structure, phase # "metadata", Unallocated = 0, Finished(Top),
         NEW outs, outs = circuit[Top.comp].outs
  PROVE  Within(outs, Len(outs), Len(Top.env)) /\ Len(outs) \in Nat
<1> DEFINE c == circuit[Top.comp]
           last == Len(c.body) + 1
<1>1. Top.comp \in 1 .. Len(circuit) /\ Top.pc \in Nat /\ circuit \in Circuits
  BY TopIs DEF Structure, Types
<1>2. /\ NameSeq(outs, Len(outs)) /\ Len(c.body) \in Nat
      /\ outs \in Seq(Known(circuit, Top.comp, last))
  BY <1>1, ComponentIs DEF WellFormed
<1>3. Top.pc > Len(c.body) /\ last > Len(c.body) /\ last \in Nat
  BY <1>1, <1>2 DEF Finished, CompOf
<1>4. CreatedBy(circuit, c.body, Top.pc) = 0 /\ CreatedBy(circuit, c.body, last) = 0
  BY <1>1, <1>3, CreatedAre
<1>5. Known(circuit, Top.comp, last) = Known(circuit, Top.comp, Top.pc)
  BY <1>4 DEF Known, NewName
<1>6. outs \in Seq(0 .. Len(Top.env) + 1)
  BY <1>2, <1>5, KnownIs
<1>7. \A j \in 1 .. Len(outs) : outs[j] \in 0 .. Len(Top.env) + 1
  <2> DEFINE T == 0 .. Len(Top.env) + 1
  <2>1. outs \in Seq(T)
    BY <1>6
  <2> HIDE DEF T
  <2>2. \A j \in 1 .. Len(outs) : outs[j] \in T
    BY <2>1, SeqIs
  <2> QED BY <2>2 DEF T
<1> QED BY <1>2, <1>7 DEF Within, NameSeq

(* The instruction that is run, and the names it reads.                    *)
LEMMA PendingIs ==
  ASSUME Structure, NEW op, Running(op), NEW ins, ins = Pending(Top),
         NEW c, c = circuit[Top.comp]
  PROVE  /\ phase = "run" /\ ~panicked /\ Unallocated = 0
         /\ Top.pc \in 1 .. Len(c.body) /\ ins = c.body[Top.pc] /\ ins \in Instruction /\ ins.op = op
         /\ Top.pc + 1 \in Nat \ {0}
         /\ Within(Operands(ins), Len(Operands(ins)), Len(Top.env)) /\ Len(Operands(ins)) \in Nat
         /\ op = "gate" => ins.c \in 0 .. Len(Top.env) + 1
         /\ op = "call" => /\ ins.comp \in 1 .. Len(circuit)
                           /\ Len(ins.args) = circuit[ins.comp].nin
         /\ Created(circuit, ins) \in Nat
         /\ CreatedBy(circuit, c.body, Top.pc + 1) \in Nat
         /\ CreatedBy(circuit, c.body, Top.pc)
              = Created(circuit, ins) + CreatedBy(circuit, c.body, Top.pc + 1)
<1> DEFINE pc == Top.pc
<1>1. phase = "run" /\ ~panicked /\ ~Finished(Top) /\ ins.op = op
  BY DEF Running
<1>2. Unallocated = 0 /\ phase # "metadata"
  BY <1>1 DEF Unallocated
<1>3. Top.comp \in 1 .. Len(circuit) /\ pc \in Nat /\ pc # 0 /\ circuit \in Circuits
  BY <1>2, TopIs DEF Structure, Types
<1>4. /\ c.body \in Seq(Instruction) /\ Len(c.body) \in Nat /\ DOMAIN c.body = 1 .. Len(c.body)
      /\ WellFormed(circuit, Top.comp) /\ Len(circuit) \in Nat
  BY <1>3, ComponentIs
<1>5. pc \in 1 .. Len(c.body) /\ ins = c.body[pc] /\ pc + 1 \in Nat \ {0}
  BY <1>1, <1>3, <1>4 DEF Finished, Pending, CompOf
<1>6. ins \in Instruction
  BY <1>4, <1>5
<1>7. /\ Operands(ins) \in Seq(Known(circuit, Top.comp, pc))
      /\ op = "gate" => ins.c \in Known(circuit, Top.comp, pc)
      /\ op = "call" => ins.comp \in 1 .. Top.comp - 1 /\ Len(ins.args) = circuit[ins.comp].nin
  BY <1>1, <1>4, <1>5 DEF WellFormed
<1>8. Known(circuit, Top.comp, pc) = 0 .. Len(Top.env) + 1
  BY <1>2, KnownIs
<1>9. NameSeq(Operands(ins), Len(Operands(ins)))
  BY <1>6, OperandsAre
<1>10. Within(Operands(ins), Len(Operands(ins)), Len(Top.env))
  <2> DEFINE T == Known(circuit, Top.comp, pc)
  <2>1. Operands(ins) \in Seq(T)
    BY <1>7
  <2> HIDE DEF T
  <2>2. \A j \in 1 .. Len(Operands(ins)) : Operands(ins)[j] \in T
    BY <2>1, SeqIs
  <2> QED BY <1>8, <1>9, <2>2 DEF T, Within, NameSeq
<1>11. op = "call" => ins.comp \in 1 .. Len(circuit) /\ Len(ins.args) = circuit[ins.comp].nin
  BY <1>3, <1>4, <1>7
<1>12. /\ CreatedBy(circuit, c.body, pc + 1) \in Nat /\ CreatedBy(circuit, c.body, pc) \in Nat
       /\ CreatedBy(circuit, c.body, pc)
            = Created(circuit, ins) + CreatedBy(circuit, c.body, pc + 1)
  BY <1>3, <1>5, CreatedAre
<1>13. Created(circuit, ins) \in Nat
  <2>1. CASE ins.op = "call"
    <3>1. ins.comp \in 1 .. Len(circuit)
      BY <1>1, <1>11, <2>1
    <3>2. Len(circuit[ins.comp].outs) \in Nat
      BY <1>3, <3>1, ComponentIs DEF NameSeq
    <3> QED BY <2>1, <3>2 DEF Created
  <2>2. CASE ins.op # "call"
    BY <2>2 DEF Created
  <2> QED BY <2>1, <2>2
<1> QED BY <1>1, <1>2, <1>5, <1>6, <1>7, <1>8, <1>9, <1>10, <1>11, <1>12, <1>13 DEF NameSeq

(* The counters of the root: the last ones are those of its inputs.        *)
RootGood(crt, c, oc, N, nin, cr) ==
  /\ N \in Nat /\ nin \in Nat /\ cr \in Seq(0 .. MaxCredits) /\ Len(cr) = N + nin
  /\ Counts(oc, Len(crt[c].outs))
  /\ \A j \in 1 .. Len(crt[c].outs) : oc[j] = 1
  /\ \A i \in 1 .. nin :
       1 + ReadIn(crt, c, oc, i + 1) <= MaxCredits =>
         cr[N + nin - i + 1] = 1 + ReadIn(crt, c, oc, i + 1)
  /\ \A i \in 1 .. N :
       ReadIn(crt, c, oc, i + nin + 1) <= MaxCredits =>
         cr[N - i + 1] = ReadIn(crt, c, oc, i + nin + 1)

(* The counters of the root.                                               *)
RootStack(tmpl) == InstanceStack(tmpl, Ones(tmpl)) \o InputCredits(tmpl)

(* `to_root_ctx`: the counters it stacks, one more for every input.        *)
LEMMA RootCredits ==
  ASSUME NEW crt \in Circuits, NEW c \in 1 .. Len(crt)
  PROVE  RootGood(crt, c, Ones(Template(crt, c)), CreatedBy(crt, crt[c].body, 1), crt[c].nin,
                  RootStack(Template(crt, c)))
<1> DEFINE tmpl == Template(crt, c)
           cr == RootStack(tmpl)
           N == CreatedBy(crt, crt[c].body, 1)
           nin == crt[c].nin
           oc == Ones(tmpl)
           grants == InputGrants(tmpl, oc)
           e(p) == AsCredits(1 + Granted(grants, p))
           f == [p \in 1 .. Len(tmpl.inputs) |-> e(p)]
           T == 0 .. MaxCredits
           stack == InstanceStack(tmpl, oc)
           inputs == InputCredits(tmpl)
           R(p) == ReadIn(crt, c, oc, p + 1)
<1>1. /\ DOMAIN tmpl.outputs = 1 .. Len(crt[c].outs) /\ Len(tmpl.inputs) = nin /\ nin \in Nat
      /\ N \in Nat
  BY TemplateIs, ComponentIs DEF N, nin
<1>2. Counts(oc, Len(crt[c].outs)) /\ \A j \in 1 .. Len(crt[c].outs) : oc[j] = 1
  BY <1>1 DEF Ones, Counts
<1>3. inputs = Reverse(f)
  BY DEF InputCredits
<1> HIDE DEF oc, grants, N, nin
<1>4. /\ stack \in Seq(T) /\ Len(stack) = N
      /\ \A i \in 1 .. N :
           ReadIn(crt, c, oc, i + nin + 1) <= MaxCredits => stack[N - i + 1] = ReadIn(crt, c, oc, i + nin + 1)
  <2>1. StackGood(crt, c, oc, N, stack)
    BY <1>2, StackIs DEF N
  <2> QED BY <2>1 DEF StackGood, nin
<1>5. \A p \in 1 .. nin : Granted(grants, p) \in Nat /\ (R(p) <= MaxCredits => Granted(grants, p) = R(p))
                          /\ R(p) \in Nat
  <2> DEFINE m == crt[c].nin + Len(crt[c].outs)
             po == PositionsOf(grants)
             no == NumbersOf(grants)
  <2>1. /\ m \in Nat /\ DOMAIN po = 1 .. m /\ Counts(no, m)
        /\ \A p : Granted(grants, p) = Weighed(po, p, no)
        /\ \A p \in 1 .. nin : R(p) <= MaxCredits => Granted(grants, p) = R(p)
    BY <1>2, GrantedIs DEF grants, nin
  <2> HIDE DEF m, po, no
  <2>2. \A p : Weighed(po, p, no) \in Nat
    BY <2>1, WeighedNat
  <2>3. \A p \in 1 .. nin : R(p) \in Nat
    BY <1>2, ReadInNat
  <2> QED BY <2>1, <2>2, <2>3
<1> HIDE DEF R, stack, inputs
<1>6. \A p \in 1 .. nin : e(p) \in T /\ (1 + R(p) <= MaxCredits => e(p) = 1 + R(p))
  <2> SUFFICES ASSUME NEW p \in 1 .. nin
               PROVE  e(p) \in T /\ (1 + R(p) <= MaxCredits => e(p) = 1 + R(p))
    OBVIOUS
  <2>1. Granted(grants, p) \in Nat /\ R(p) \in Nat /\ 1 + Granted(grants, p) \in Nat /\ MaxCredits \in Nat
    BY <1>5, StorageAssumption
  <2>2. 1 + R(p) <= MaxCredits => R(p) <= MaxCredits
    BY <2>1
  <2> QED BY <1>5, <2>1, <2>2, AsCreditsIs
<1>7. Items(f, nin, T) /\ \A p \in 1 .. nin : f[p] = e(p)
  BY <1>1, <1>6 DEF Items
<1> HIDE DEF f, T, e
<1>8. /\ inputs \in Seq(T) /\ Len(inputs) = nin
      /\ \A p \in 1 .. nin : inputs[nin - p + 1] = e(p)
  <2>1. /\ Reverse(f) \in Seq(T) /\ Len(Reverse(f)) = nin
        /\ \A p \in 1 .. nin : Reverse(f)[nin - p + 1] = f[p]
    BY <1>7, ReverseIs
  <2> QED BY <1>3, <1>7, <2>1
<1>9. cr = stack \o inputs
  BY DEF stack, inputs, oc, RootStack
<1>10. /\ cr \in Seq(T) /\ Len(cr) = N + nin
       /\ \A j \in 1 .. N : cr[j] = stack[j]
       /\ \A j \in 1 .. nin : cr[N + j] = inputs[j]
  <2>1. stack \in Seq(T) /\ inputs \in Seq(T) /\ N = Len(stack) /\ nin = Len(inputs)
    BY <1>4, <1>8
  <2>2. /\ stack \o inputs \in Seq(T) /\ Len(stack \o inputs) = N + nin
        /\ \A j \in 1 .. N : (stack \o inputs)[j] = stack[j]
        /\ \A j \in 1 .. nin : (stack \o inputs)[N + j] = inputs[j]
    BY ONLY <2>1, ConcatIs
  <2> QED BY <1>9, <2>2
<1>11. \A i \in 1 .. nin : 1 + R(i) <= MaxCredits => cr[N + nin - i + 1] = 1 + R(i)
  <2> SUFFICES ASSUME NEW i \in 1 .. nin, 1 + R(i) <= MaxCredits
               PROVE  cr[N + nin - i + 1] = 1 + R(i)
    OBVIOUS
  <2> DEFINE j == nin - i + 1
  <2>1. j \in 1 .. nin /\ N + j = N + nin - i + 1
    <3>1. N \in Nat /\ nin \in Nat /\ i \in 1 .. nin
      BY <1>1
    <3> QED BY ONLY <3>1
  <2>2. inputs[j] = e(i)
    BY <1>8
  <2> HIDE DEF j
  <2>3. cr[N + j] = inputs[j]
    BY <1>10, <2>1
  <2> QED BY <1>6, <2>1, <2>2, <2>3
<1>12. \A i \in 1 .. N : cr[N - i + 1] = stack[N - i + 1]
  <2>1. \A i \in 1 .. N : N - i + 1 \in 1 .. N
    BY <1>1
  <2> QED BY <1>10, <2>1
<1> HIDE DEF cr
<1>13. RootGood(crt, c, oc, N, nin, cr)
  BY <1>1, <1>2, <1>4, <1>10, <1>11, <1>12 DEF T, R, RootGood
<1> QED BY <1>13 DEF oc, N, nin, cr

(* A frame that gets wire w and gives up a counter.                        *)
Issued(f, pc, w) == [f EXCEPT !.pc = pc, !.env = Append(@, w), !.credits = Front(@)]

(* The frame once a wire is issued to it.                                  *)
LEMMA IssuedIs ==
  ASSUME NEW crt, NEW f \in Frame(crt), NEW pc \in Nat \ {0}, NEW w \in Wire, Len(f.credits) > 0
  PROVE  /\ Issued(f, pc, w) \in Frame(crt)
         /\ Issued(f, pc, w).comp = f.comp /\ Issued(f, pc, w).pc = pc
         /\ Len(f.env) \in Nat /\ Len(f.credits) \in Nat
         /\ Len(Issued(f, pc, w).env) = Len(f.env) + 1
         /\ Issued(f, pc, w).env[Len(f.env) + 1] = w
         /\ \A j \in 1 .. Len(f.env) : Issued(f, pc, w).env[j] = f.env[j]
         /\ Len(Issued(f, pc, w).credits) = Len(f.credits) - 1
         /\ \A j \in 1 .. Len(f.credits) - 1 : Issued(f, pc, w).credits[j] = f.credits[j]
         /\ Last(f.credits) = f.credits[Len(f.credits)]
<1> DEFINE g == Issued(f, pc, w)
           m == Len(f.env)
           q == Len(f.credits)
           e == Append(f.env, w)
           T == 0 .. MaxCredits
           c == SubSeq(f.credits, 1, q - 1)
<1>1. f.comp \in 1 .. Len(crt) /\ f.env \in Seq(Wire) /\ f.credits \in Seq(T) /\ m \in Nat /\ q \in Nat
  BY FrameIs
<1>2. g = [f EXCEPT !.pc = pc, !.env = e, !.credits = c]
  BY DEF Front, Issued
<1> HIDE DEF T, g
<1>3. e \in Seq(Wire) /\ Len(e) = m + 1 /\ e[m + 1] = w /\ \A j \in 1 .. m : e[j] = f.env[j]
  BY <1>1
<1>4. c \in Seq(T) /\ Len(c) = q - 1 /\ \A j \in 1 .. q - 1 : c[j] = f.credits[j]
  BY <1>1
<1>5. Last(f.credits) = f.credits[q] /\ f.credits[q] \in T
  BY <1>1 DEF Last
<1> HIDE DEF e, c
<1>6. g \in Frame(crt) /\ g.comp = f.comp /\ g.pc = pc /\ g.env = e /\ g.credits = c
  BY <1>1, <1>2, <1>3, <1>4 DEF Frame, T
<1> QED BY <1>1, <1>3, <1>4, <1>5, <1>6 DEF g

(* The top frame is issued the wire w, which its last counter says is read *)
(* or not.                                                                 *)
WireIssued(pc, w) ==
  LET n == Last(Top.credits)
  IN  /\ frames' = WithTop(Issued(Top, pc, w))
      /\ store' \in [Slots -> Entry]
      /\ n \in 0 .. MaxCredits
      /\ \/ n = 0 /\ w = UNREACHABLE /\ store' = store
         \/ /\ n > 0 /\ w \in Keys
            /\ Credit(store, w) = 0 /\ Credit(store', w) = n
            /\ \A k \in Keys : k # w => store'[ToIndex(k)] = store[ToIndex(k)]

(* What `issue_wire_with_credit` does to the store and to the top frame.   *)
LEMMA IssueIs ==
  ASSUME Structure, phase # "metadata", Len(Top.credits) > 0,
         NEW pc \in Nat \ {0}, IssueWire(Top, pc)
  PROVE  \E w \in Wire : WireIssued(pc, w)
<1> DEFINE n == Last(Top.credits)
           F(w) == Issued(Top, pc, w)
<1>1. Top \in Frame(circuit) /\ store \in [Slots -> Entry] /\ n \in 0 .. MaxCredits
  <2>1. Top \in Frame(circuit) /\ Top.credits \in Seq(0 .. MaxCredits) /\ Len(Top.credits) \in Nat
    BY TopIs
  <2>2. n \in 0 .. MaxCredits
    <3> DEFINE T == 0 .. MaxCredits
               s == Top.credits
    <3>1. s \in Seq(T) /\ Len(s) > 0
      BY <2>1
    <3>2. n = s[Len(s)]
      BY DEF Last
    <3> HIDE DEF T, s, n
    <3>3. s[Len(s)] \in T
      BY <3>1
    <3> QED BY <3>2, <3>3 DEF T
  <2> QED BY <2>1, <2>2 DEF Structure, Types
<1>2. CASE n = 0 /\ frames' = WithTop(F(UNREACHABLE)) /\ store' = store
  <2>1. UNREACHABLE \in Wire
    BY DEF Wire
  <2> QED BY <1>1, <1>2, <2>1 DEF WireIssued
<1>3. CASE n > 0 /\ \E i \in Vacant(store) :
                      store' = Insert(store, i, NoData, n) /\ frames' = WithTop(F(ToKey(i)))
  <2>1. PICK i \in Vacant(store) : store' = Insert(store, i, NoData, n) /\ frames' = WithTop(F(ToKey(i)))
    BY <1>3
  <2> DEFINE w == ToKey(i)
             x == [credits |-> n, data |-> NoData]
  <2>2. i \in Slots /\ i \notin Occupied(store)
    <3>1. Slots \ Occupied(store) \in SUBSET Slots
      OBVIOUS
    <3>2. Vacant(store) \subseteq Slots \ Occupied(store)
      BY <3>1, StorageAssumption DEF Vacant
    <3> QED BY <3>2
  <2>3. w \in Keys /\ ToIndex(w) = i /\ w \in Wire
    BY <2>2, KeysAre DEF Wire
  <2>4. store' = [store EXCEPT ![i] = x]
    BY <2>1 DEF Insert
  <2>5. x \in Entry /\ x.credits = n
    BY <1>1 DEF Entry
  <2> HIDE DEF x, w
  <2>6. store' \in [Slots -> Entry] /\ store'[i] = x /\ \A h \in Slots : h # i => store'[h] = store[h]
    BY <1>1, <2>2, <2>4, <2>5
  <2>7. Credit(store', w) = n
    BY <2>3, <2>5, <2>6 DEF Credit
  <2>8. Credit(store, w) = 0
    <3>1. store[i].credits \in Nat
      BY <1>1, <2>2, EntryIs
    <3> QED BY <2>2, <2>3, <3>1 DEF Occupied, Credit
  <2>9. \A k \in Keys : k # w => store'[ToIndex(k)] = store[ToIndex(k)]
    BY <2>3, <2>6, KeysAre
  <2>10. frames' = WithTop(F(w))
    BY <2>1 DEF w
  <2> QED BY <1>1, <1>3, <2>3, <2>6, <2>7, <2>8, <2>9, <2>10 DEF WireIssued
<1> QED BY <1>2, <1>3 DEF IssueWire, Issued

(* The storage before the first access.                                    *)
LEMMA StartIs == ASSUME store \in [Slots -> Entry] PROVE Start \in Machine /\ Start.store = store /\ Start.ok
BY DEF Start, Machine

(* What a step makes of its accesses.                                      *)
LEMMA SettleIs ==
  ASSUME NEW m \in Machine, Settle(m)
  PROVE  store' = m.store /\ store' \in [Slots -> Entry] /\ panicked' \in BOOLEAN /\ (panicked' <=> ~m.ok)
BY MachineIs DEF Settle

(* The storage after a gate.                                               *)
GateMachine ==
  LET ins == Pending(Top)
      a == Real(Top.env, ins.a)
      b == Real(Top.env, ins.b)
      c == Real(Top.env, ins.c)
      m == Perform[ReadsOf(<<a, b>>)]
  IN  IF m.ok /\ c # UNREACHABLE THEN Feed(m, c, EvalGate(ins.g, ValueOf(a), ValueOf(b))) ELSE m

(* The accesses of a gate use one read of each operand.                    *)
LEMMA GateIs ==
  ASSUME Structure, Running("gate"), NEW ins, ins = Pending(Top),
         NEW m, m = GateMachine
  PROVE  /\ m \in Machine
         /\ m.ok => \A w \in Keys :
              Credit(m.store, w) + Occurrences(Reals(Top.env, Operands(ins)), w) = Credit(store, w)
<1> DEFINE a == Real(Top.env, ins.a)
           b == Real(Top.env, ins.b)
           c == Real(Top.env, ins.c)
           ws == <<a, b>>
           r == Perform[ReadsOf(ws)]
           x == EvalGate(ins.g, ValueOf(a), ValueOf(b))
<1>1. /\ ins \in Instruction /\ ins.op = "gate" /\ phase = "run"
      /\ Within(Operands(ins), Len(Operands(ins)), Len(Top.env))
  BY PendingIs
<1>2. Operands(ins) = <<ins.a, ins.b>>
  BY <1>1 DEF Operands
<1>3. Top.env \in Seq(Wire) /\ Len(Top.env) \in Nat /\ store \in [Slots -> Entry]
  BY <1>1, TopIs DEF Structure, Types
<1>4. ins.a \in 0 .. Len(Top.env) + 1 /\ ins.b \in 0 .. Len(Top.env) + 1
  BY <1>1, <1>2 DEF Within
<1>5. a \in Wire /\ b \in Wire
  BY <1>3, <1>4, RealIs
<1>6. Reals(Top.env, Operands(ins)) = ws
  BY <1>2 DEF Reals
<1>7. ws \in Seq(Wire) /\ Len(ws) = 2
  BY <1>5
<1>8. /\ r \in Machine
      /\ r.ok => \A w \in Keys : Credit(r.store, w) + Occurrences(ws, w) = Credit(store, w)
  <2> HIDE DEF ws
  <2> QED BY <1>3, <1>7, ReadsPerform
<1>9. x \in Data
  <2>1. ins.g \in {"And", "Nimp", "Or", "Xor", "Not"}
    BY <1>1 DEF Instruction, Issue
  <2> QED BY <2>1, EvalGateIs
<1>10. m = IF r.ok /\ c # UNREACHABLE THEN Feed(r, c, x) ELSE r
  BY DEF GateMachine
<1> HIDE DEF r, x, c, ws
<1>11. CASE r.ok /\ c # UNREACHABLE
  <2>1. m = Feed(r, c, x) /\ Accessed(r, m, c, 0, 0)
    BY <1>8, <1>9, <1>10, <1>11, FeedIs
  <2>2. m \in Machine /\ (m.ok => \A h \in Keys : Credit(m.store, h) = Credit(r.store, h))
    <3>1. m \in Machine
      BY <2>1 DEF Accessed
    <3>2. \A h \in Keys : Credit(m.store, h) \in Nat /\ Credit(r.store, h) \in Nat
      BY <1>8, <3>1, MachineIs
    <3>3. \A y, z \in Nat : y + 0 = z + 0 => y = z
      OBVIOUS
    <3> QED BY <2>1, <3>1, <3>2, <3>3 DEF Accessed
  <2> QED BY <1>6, <1>8, <1>11, <2>2
<1>12. CASE ~(r.ok /\ c # UNREACHABLE)
  BY <1>6, <1>8, <1>10, <1>12
<1> QED BY <1>11, <1>12

(* A step that leaves the frames, the circuit and the pool alone.          *)
LEMMA Idle ==
  ASSUME Structure, UNCHANGED <<circuit, input, frames, pool>>,
         Unallocated' = Unallocated, Control',
         phase' \in {"metadata", "allocate", "encode", "collect", "run", "decode", "done"},
         cursor' \in Nat \ {0}, store' \in [Slots -> Entry], output' \in Seq(BOOLEAN),
         panicked' \in BOOLEAN
  PROVE  Structure'
<1>1. Shape'
  BY DEF Structure, Shape
<1>2. Types'
  BY DEF Structure, Types, NInputs, Root
<1> QED BY <1>1, <1>2 DEF Structure

(* A turn of a loop: the next one, or the next phase.                      *)
LEMMA TurnIs ==
  ASSUME Structure, NEW ph, NEW next, NEW n, Turn(ph, next, n), n \in Nat,
         ph \in {"allocate", "encode", "collect", "decode"}
  PROVE  /\ cursor \in 1 .. n /\ cursor' \in Nat \ {0} /\ phase = ph
         /\ \/ cursor = n /\ cursor' = 1 /\ phase' = next
            \/ cursor < n /\ cursor' = cursor + 1 /\ cursor' <= n /\ phase' = ph
<1>1. cursor \in Nat \ {0}
  BY DEF Structure, Types
<1> QED BY <1>1 DEF Turn

(* Feeding an input keeps the structure.                                   *)
LEMMA EncodeKeeps == ASSUME Structure, EncodeInput PROVE Structure'
<1>1. Turn("encode", "collect", NInputs) /\ UNCHANGED <<circuit, input, frames, pool, output>>
  BY DEF EncodeInput
<1>2. NInputs \in Nat
  BY RootIs DEF Structure
<1>3. /\ cursor \in 1 .. NInputs /\ cursor' \in Nat \ {0} /\ phase = "encode"
      /\ \/ cursor' = 1 /\ phase' = "collect"
         \/ cursor' <= NInputs /\ phase' = "encode"
  BY <1>1, <1>2, TurnIs
<1> DEFINE m == Feed(Start, Top.env[cursor], input[cursor])
<1>4. Settle(m)
  BY DEF EncodeInput
<1>5. m \in Machine
  <2>1. input[cursor] \in Data
    BY <1>3, CircuitsAssumption DEF Structure, Types
  <2>2. Accessed(Start, m, Top.env[cursor], 0, 0)
    BY <2>1, StartIs, FeedIs DEF Structure, Types
  <2> QED BY <2>2 DEF Accessed
<1>6. store' \in [Slots -> Entry] /\ panicked' \in BOOLEAN
  BY <1>4, <1>5, SettleIs
<1>7. Unallocated' = Unallocated
  BY <1>1, <1>3 DEF Unallocated
<1>8. Control'
  <2>1. NInputs' = NInputs /\ Root' = Root
    BY <1>1 DEF NInputs, Root
  <2>2. 1 <= NInputs + 1 /\ (cursor' \in Nat /\ cursor' <= NInputs => cursor' <= NInputs + 1)
    BY <1>2
  <2> QED BY <1>1, <1>3, <2>1, <2>2 DEF Control, Structure
<1> QED BY <1>1, <1>3, <1>6, <1>7, <1>8, Idle DEF Structure, Types

(* Collecting an input keeps the structure.                                *)
LEMMA CollectKeeps == ASSUME Structure, CollectInput PROVE Structure'
<1>1. Turn("collect", "run", NInputs) /\ UNCHANGED <<circuit, input, frames, pool, output>>
  BY DEF CollectInput
<1>2. NInputs \in Nat
  BY RootIs DEF Structure
<1>3. /\ cursor \in 1 .. NInputs /\ cursor' \in Nat \ {0} /\ phase = "collect"
      /\ \/ cursor' = 1 /\ phase' = "run"
         \/ cursor' <= NInputs /\ phase' = "collect"
  BY <1>1, <1>2, TurnIs
<1> DEFINE m == Lookup(Start, Top.env[cursor])
<1>4. Settle(m)
  BY DEF CollectInput
<1>5. m \in Machine
  <2>1. Accessed(Start, m, Top.env[cursor], 1, 0)
    BY StartIs, LookupIs DEF Structure, Types
  <2> QED BY <2>1 DEF Accessed
<1>6. store' \in [Slots -> Entry] /\ panicked' \in BOOLEAN
  BY <1>4, <1>5, SettleIs
<1>7. Unallocated' = Unallocated
  BY <1>1, <1>3 DEF Unallocated
<1>8. Control'
  <2>1. NInputs' = NInputs /\ Root' = Root
    BY <1>1 DEF NInputs, Root
  <2>2. cursor' \in Nat /\ cursor' <= NInputs => cursor' <= NInputs + 1
    BY <1>2
  <2> QED BY <1>1, <1>3, <2>1, <2>2 DEF Control, Structure
<1> QED BY <1>1, <1>3, <1>6, <1>7, <1>8, Idle DEF Structure, Types

(* The end of the root's closure keeps the structure.                      *)
LEMMA FinishKeeps == ASSUME Structure, RunFinish PROVE Structure'
<1>1. /\ phase = "run" /\ phase' \in {"decode", "done"} /\ Len(frames) = 1 /\ Finished(Top)
      /\ UNCHANGED <<circuit, input, cursor, store, frames, pool, output, panicked>>
  BY DEF RunFinish
<1>2. Unallocated' = Unallocated
  BY <1>1 DEF Unallocated
<1>3. Control'
  <2>1. NInputs' = NInputs /\ Root' = Root
    BY <1>1 DEF NInputs, Root
  <2>2. frames[1].comp = Root /\ frames[1].pc > Len(circuit[Root].body)
    BY <1>1 DEF Finished, CompOf, Top, Control, Structure
  <2>3. /\ circuit' = circuit /\ cursor' = cursor /\ frames' = frames /\ phase' \in {"decode", "done"}
        /\ phase = "run" /\ Len(frames) = 1 /\ 1 <= 1 /\ 1 # 0 /\ cursor = 1
    BY <1>1 DEF Structure, Control
  <2> QED BY <2>1, <2>2, <2>3 DEF Control
<1> QED BY <1>1, <1>2, <1>3, Idle DEF Structure, Types

(* Decoding an output keeps the structure.                                 *)
LEMMA DecodeKeeps == ASSUME Structure, DecodeOutput PROVE Structure'
<1> DEFINE outs == circuit[Root].outs
           n == Len(outs)
           w == Real(Top.env, outs[cursor])
           m == Lookup(Start, w)
<1>1. /\ Turn("decode", "done", n) /\ UNCHANGED <<circuit, input, frames, pool>>
      /\ Settle(m) /\ output' = IF m.ok THEN Append(output, ValueOf(w)) ELSE output
  BY DEF DecodeOutput
<1>2. n \in Nat
  BY RootIs, ComponentIs DEF Structure, Types, NameSeq
<1>3. /\ cursor \in 1 .. n /\ cursor' \in Nat \ {0} /\ phase = "decode"
      /\ \/ cursor' = 1 /\ phase' = "done"
         \/ cursor' <= n /\ phase' = "decode"
  BY <1>1, <1>2, TurnIs
<1>4. m \in Machine
  <2>1. Accessed(Start, m, w, 1, 0)
    BY StartIs, LookupIs DEF Structure, Types
  <2> QED BY <2>1 DEF Accessed
<1>5. store' \in [Slots -> Entry] /\ panicked' \in BOOLEAN
  BY <1>1, <1>4, SettleIs
<1>6. output' \in Seq(BOOLEAN)
  <2>1. output \in Seq(BOOLEAN) /\ store \in [Slots -> Entry]
    BY DEF Structure, Types
  <2>2. m.ok => ValueOf(w) \in BOOLEAN
    <3>1. CASE w \in Constants
      BY <3>1 DEF ValueOf
    <3>2. CASE w \notin Constants /\ Found(store, w) /\ Value(store, w) # NoData
      <4>1. w \in Keys
        BY <3>2 DEF Found
      <4>2. store[ToIndex(w)] \in Entry
        BY <2>1, <4>1, KeysAre
      <4>3. store[ToIndex(w)].data \in BOOLEAN
        BY <3>2, <4>2, EntryIs, CircuitsAssumption DEF Value
      <4> QED BY <3>2, <4>3 DEF ValueOf, Value
    <3>3. CASE w \notin Constants /\ ~(Found(store, w) /\ Value(store, w) # NoData)
      <4>1. m = [Start EXCEPT !.ok = FALSE]
        BY <2>1, <3>3, StartIs DEF Lookup
      <4>2. ~m.ok
        BY <2>1, <4>1, StartIs DEF Machine
      <4> QED BY <4>2
    <3> QED BY <3>1, <3>2, <3>3
  <2> HIDE DEF m, w
  <2>3. CASE m.ok
    BY <1>1, <2>1, <2>2, <2>3
  <2>4. CASE ~m.ok
    BY <1>1, <2>1, <2>4
  <2> QED BY <2>3, <2>4
<1>7. Unallocated' = Unallocated
  BY <1>1, <1>3 DEF Unallocated
<1>8. Control'
  <2>1. NInputs' = NInputs /\ Root' = Root
    BY <1>1 DEF NInputs, Root
  <2> QED BY <1>1, <1>3, <2>1 DEF Control, Structure
<1> QED BY <1>1, <1>3, <1>5, <1>6, <1>7, <1>8, Idle

(* Entering the root brings the structure about.                           *)
LEMMA EnterKeeps == ASSUME Structure, EnterRoot PROVE Structure'
<1> DEFINE tmpl == Template(circuit, Root)
           cr == RootStack(tmpl)
           f == [comp |-> Root, pc |-> 1, env |-> <<>>, credits |-> cr]
           N == CreatedBy(circuit, circuit[Root].body, 1)
<1>1. circuit \in Circuits /\ Root \in 1 .. Len(circuit) /\ NInputs \in Nat /\ Templates[circuit][Root] = tmpl
  BY RootIs DEF Structure, Types
<1>2. /\ phase = "metadata" /\ phase' \in {"allocate", "run"} /\ frames' = <<f>>
      /\ pool' = AddFirst(pool, "root", tmpl) /\ pool = <<>> /\ cursor = 1
      /\ phase' = "run" => NInputs = 0
      /\ UNCHANGED <<circuit, input, cursor, store, output, panicked>>
  BY <1>1 DEF EnterRoot, RootStack, Structure, Control
<1>3. N \in Nat /\ cr \in Seq(0 .. MaxCredits) /\ Len(cr) = N + NInputs
  BY <1>1, RootCredits DEF RootGood, NInputs
<1>4. pool' \in Pool(circuit)
  BY <1>1, <1>2, PoolStarts
<1> HIDE DEF cr
<1>5. f \in Frame(circuit) /\ f.comp = Root /\ f.pc = 1 /\ Len(f.env) = 0 /\ f.credits = cr
  BY <1>1, <1>3 DEF Frame
<1> HIDE DEF f
<1>6. frames' \in Seq(Frame(circuit)) /\ Len(frames') = 1 /\ frames'[1] = f
  BY <1>2, <1>5
<1>7. NInputs' = NInputs /\ Root' = Root /\ circuit' = circuit
  BY <1>2 DEF NInputs, Root
<1>8. Unallocated' = NInputs
  BY <1>1, <1>2, <1>7 DEF Unallocated
<1>9. FrameOk(circuit, frames', NInputs, 1)
  <2>1. BoundIn(circuit, frames', 1) = 0
    <3>1. 1 \in Nat /\ Len(frames'[1].env) \in Nat
      BY <1>5, <1>6
    <3> QED BY <1>5, <1>6, <3>1, TopBound
  <2>2. CreatedBy(circuit, circuit[Root].body, 1) = N /\ circuit[Root].nin = NInputs
    BY DEF NInputs
  <2> HIDE DEF N
  <2>3. Len(cr) = N + NInputs /\ 0 + NInputs + N = NInputs + N
    BY <1>1, <1>3
  <2> QED BY <1>5, <1>6, <2>1, <2>2, <2>3 DEF FrameOk
<1>10. Shape'
  <2>1. \A k \in 1 .. 1 : k = 1
    OBVIOUS
  <2> QED BY <1>6, <1>7, <1>8, <1>9, <2>1 DEF Shape
<1>11. Control'
  <2>1. 1 <= NInputs + 1 /\ 1 # 0 /\ 1 <= 1
    BY <1>1
  <2> QED BY <1>2, <1>5, <1>6, <1>7, <2>1 DEF Control
<1>12. Types'
  BY <1>2, <1>4, <1>6, <1>7 DEF Structure, Types
<1> QED BY <1>10, <1>11, <1>12 DEF Structure

(* A step that replaces the top frame and may move on in the phases.       *)
LEMMA ReplacedKeeps ==
  ASSUME Structure, phase # "metadata", NEW f \in Frame(circuit), frames' = WithTop(f),
         f.comp = Top.comp, UNCHANGED <<circuit, input, pool, output>>,
         NEW u \in Nat, u = Unallocated \/ Len(frames) = 1, Unallocated' = u,
         LET c == circuit[f.comp]
             toCreate == CreatedBy(circuit, c.body, f.pc)
         IN  /\ Len(f.credits) = toCreate + u
             /\ Len(f.env) + u + toCreate = c.nin + CreatedBy(circuit, c.body, 1),
         phase' \in {"allocate", "encode", "run"}, cursor' \in Nat \ {0},
         store' \in [Slots -> Entry], panicked' \in BOOLEAN,
         phase' = "run" => phase = "run" /\ cursor' = 1,
         phase' # "run" => phase # "run" /\ cursor' <= NInputs + 1 /\ f.pc = 1
  PROVE  Structure'
<1>1. /\ frames' \in Seq(Frame(circuit)) /\ Len(frames') = Len(frames)
      /\ \A k \in 1 .. Len(frames') : FrameOk(circuit', frames', u, k)
      /\ \A k \in 1 .. Len(frames) : frames'[k].comp = frames[k].comp
  BY TopReplaced
<1>2. Shape'
  BY <1>1 DEF Shape
<1>3. Types'
  BY <1>1 DEF Structure, Types, NInputs, Root
<1>4. /\ NInputs' = NInputs /\ Root' = Root
      /\ Len(frames) \in Nat \ {0} /\ 1 \in 1 .. Len(frames)
      /\ phase # "run" => Len(frames) = 1
  <2>1. Len(frames) \in Nat \ {0} /\ (phase # "run" => Len(frames) = 1)
    BY TopIs
  <2> QED BY <2>1 DEF NInputs, Root
<1>5. frames'[1].comp = Root
  BY <1>1, <1>4 DEF Structure, Control
<1>6. phase' # "run" => frames'[1].pc = 1
  BY <1>4, WithTopIs
<1>7. Control'
  BY <1>1, <1>4, <1>5, <1>6 DEF Control
<1> QED BY <1>2, <1>3, <1>7 DEF Structure

(* Allocating an input keeps the structure.                                *)
LEMMA AllocateKeeps == ASSUME Structure, AllocateInput PROVE Structure'
<1>1. /\ Turn("allocate", "encode", NInputs) /\ IssueWire(Top, 1)
      /\ UNCHANGED <<circuit, input, pool, output, panicked>>
  BY DEF AllocateInput
<1>2. NInputs \in Nat
  BY RootIs DEF Structure
<1>3. /\ cursor \in 1 .. NInputs /\ cursor' \in Nat \ {0} /\ phase = "allocate"
      /\ \/ cursor = NInputs /\ cursor' = 1 /\ phase' = "encode"
         \/ cursor < NInputs /\ cursor' = cursor + 1 /\ cursor' <= NInputs /\ phase' = "allocate"
  BY <1>1, <1>2, TurnIs
<1> DEFINE c == circuit[Top.comp]
           toCreate == CreatedBy(circuit, c.body, Top.pc)
           all == CreatedBy(circuit, c.body, 1)
<1>4. /\ Len(frames) = 1 /\ Top = frames[1] /\ Top \in Frame(circuit) /\ Top.pc = 1
      /\ toCreate \in Nat /\ all \in Nat /\ c.nin \in Nat /\ Unallocated \in Nat
      /\ Len(Top.credits) \in Nat /\ Len(Top.env) \in Nat
      /\ Len(Top.credits) = toCreate + Unallocated
      /\ Len(Top.env) + Unallocated + toCreate = c.nin + all
  <2>1. Len(frames) = 1
    BY <1>3, TopIs
  <2> QED BY <1>3, <2>1, TopIs DEF Structure, Control
<1>5. Unallocated = NInputs - cursor + 1
  BY <1>3 DEF Unallocated
<1>6. NInputs' = NInputs /\ circuit' = circuit
  BY <1>1 DEF NInputs, Root
<1>7. Unallocated' \in Nat /\ Unallocated' + 1 = Unallocated
  <2>1. Unallocated' = IF phase' = "allocate" THEN NInputs - cursor' + 1 ELSE 0
    BY <1>6 DEF Unallocated
  <2>2. CASE cursor = NInputs /\ phase' = "encode"
    BY <1>2, <1>5, <2>1, <2>2
  <2>3. CASE cursor < NInputs /\ cursor' = cursor + 1 /\ cursor' <= NInputs /\ phase' = "allocate"
    BY <1>2, <1>3, <1>5, <2>1, <2>3
  <2> QED BY <1>3, <2>2, <2>3
<1>8. Len(Top.credits) > 0
  <2> HIDE DEF toCreate
  <2>1. \A x, y, z \in Nat : z + 1 = y => x + y > 0
    OBVIOUS
  <2> QED BY <1>4, <1>7, <2>1
<1>9. PICK w \in Wire :
        /\ frames' = WithTop(Issued(Top, 1, w))
        /\ store' \in [Slots -> Entry]
  BY <1>1, <1>3, <1>8, IssueIs DEF WireIssued
<1> DEFINE f == Issued(Top, 1, w)
<1>10. /\ f \in Frame(circuit) /\ f.comp = Top.comp /\ f.pc = 1
       /\ Len(f.env) = Len(Top.env) + 1 /\ Len(f.credits) = Len(Top.credits) - 1
  BY SMTT(30), <1>4, <1>8, IssuedIs
<1>11. frames' = WithTop(f)
  BY <1>9
<1> HIDE DEF f
<1>12. /\ Len(f.credits) = toCreate + Unallocated'
       /\ Len(f.env) + Unallocated' + toCreate = c.nin + all
  <2> DEFINE u == Unallocated
             v == Unallocated'
             e == Len(Top.env)
             q == Len(Top.credits)
             r == c.nin
  <2>1. /\ toCreate \in Nat /\ all \in Nat /\ r \in Nat /\ u \in Nat /\ v \in Nat /\ v + 1 = u
        /\ q \in Nat /\ e \in Nat /\ q = toCreate + u /\ e + u + toCreate = r + all
        /\ Len(f.env) = e + 1 /\ Len(f.credits) = q - 1
    BY <1>4, <1>7, <1>10
  <2> HIDE DEF toCreate, all, u, v, e, q, r
  <2>2. Len(f.credits) = toCreate + v /\ Len(f.env) + v + toCreate = r + all
    BY ONLY <2>1
  <2> QED BY <2>2 DEF v, r
<1>13. cursor' <= NInputs + 1 /\ phase' \in {"allocate", "encode"}
  BY <1>2, <1>3
<1>14. panicked' \in BOOLEAN
  BY <1>1 DEF Structure, Types
<1> QED BY ZenonT(30), <1>1, <1>3, <1>4, <1>7, <1>9, <1>10, <1>11, <1>12, <1>13, <1>14, ReplacedKeeps

(* Issuing a wire keeps the structure.                                     *)
LEMMA IssueKeeps == ASSUME Structure, RunIssue PROVE Structure'
<1>1. /\ Running("issue") /\ IssueWire(Top, Top.pc + 1)
      /\ UNCHANGED <<circuit, input, phase, cursor, pool, output, panicked>>
  BY DEF RunIssue
<1> DEFINE c == circuit[Top.comp]
           toCreate == CreatedBy(circuit, c.body, Top.pc)
           next == CreatedBy(circuit, c.body, Top.pc + 1)
           all == CreatedBy(circuit, c.body, 1)
           ins == Pending(Top)
<1>2. /\ phase = "run" /\ Unallocated = 0 /\ Top.pc + 1 \in Nat \ {0} /\ ins.op = "issue"
      /\ next \in Nat /\ toCreate = Created(circuit, ins) + next
  BY <1>1, PendingIs
<1>3. toCreate = 1 + next
  BY <1>2 DEF Created
<1>4. /\ Top \in Frame(circuit)
      /\ toCreate \in Nat /\ all \in Nat /\ c.nin \in Nat
      /\ Len(Top.credits) \in Nat /\ Len(Top.env) \in Nat
      /\ Len(Top.credits) = toCreate + 0
      /\ Len(Top.env) + 0 + toCreate = c.nin + all
  BY <1>2, TopIs
<1>5. Len(Top.credits) > 0
  BY <1>2, <1>3, <1>4
<1>6. PICK w \in Wire :
        /\ frames' = WithTop(Issued(Top, Top.pc + 1, w))
        /\ store' \in [Slots -> Entry]
  BY <1>1, <1>2, <1>5, IssueIs DEF WireIssued
<1> DEFINE f == Issued(Top, Top.pc + 1, w)
<1>7. /\ f \in Frame(circuit) /\ f.comp = Top.comp /\ f.pc = Top.pc + 1
      /\ Len(f.env) = Len(Top.env) + 1 /\ Len(f.credits) = Len(Top.credits) - 1
  BY SMTT(30), <1>2, <1>4, <1>5, IssuedIs
<1>8. frames' = WithTop(f)
  BY <1>6
<1> HIDE DEF f
<1>9. Len(f.credits) = next + 0 /\ Len(f.env) + 0 + next = c.nin + all
  <2> DEFINE credits == Len(Top.credits)
             bound == Len(Top.env)
             inputs == c.nin
  <2>1. /\ next \in Nat /\ toCreate = 1 + next /\ all \in Nat /\ inputs \in Nat
        /\ credits \in Nat /\ bound \in Nat
        /\ credits = toCreate + 0 /\ bound + 0 + toCreate = inputs + all
    BY <1>2, <1>3, <1>4
  <2>2. Len(f.credits) = credits - 1 /\ Len(f.env) = bound + 1
    BY <1>7
  <2> HIDE DEF toCreate, next, all, c, credits, bound, inputs
  <2>3. credits - 1 = next + 0 /\ (bound + 1) + 0 + next = inputs + all
    BY <2>1
  <2> QED BY <2>2, <2>3 DEF inputs
<1>10. Unallocated' = 0 /\ phase' = "run" /\ cursor' = 1 /\ panicked' \in BOOLEAN
  <2>1. cursor = 1
    BY <1>2 DEF Structure, Control
  <2> QED BY <1>1, <1>2, <2>1 DEF Unallocated, Structure, Types
<1>11. 0 \in Nat /\ 1 \in Nat \ {0} /\ f.pc = Top.pc + 1
  BY <1>7
<1> QED BY <1>1, <1>2, <1>6, <1>7, <1>8, <1>9, <1>10, <1>11, ReplacedKeeps

(* A frame at its next instruction.                                        *)
LEMMA AdvanceIs ==
  ASSUME NEW crt, NEW f \in Frame(crt), NEW g, g = Advance(f)
  PROVE  g \in Frame(crt) /\ g.comp = f.comp /\ g.pc = f.pc + 1 /\ g.env = f.env /\ g.credits = f.credits
BY DEF Advance, Frame

(* A gate keeps the structure.                                             *)
LEMMA GateKeeps == ASSUME Structure, RunGate PROVE Structure'
<1>1. /\ Running("gate") /\ Settle(GateMachine) /\ frames' = WithTop(Advance(Top))
      /\ UNCHANGED <<circuit, input, phase, cursor, pool, output>>
  BY DEF RunGate, GateMachine
<1> DEFINE c == circuit[Top.comp]
           toCreate == CreatedBy(circuit, c.body, Top.pc)
           next == CreatedBy(circuit, c.body, Top.pc + 1)
           all == CreatedBy(circuit, c.body, 1)
           ins == Pending(Top)
           f == Advance(Top)
<1>2. /\ phase = "run" /\ Unallocated = 0 /\ Top.pc + 1 \in Nat \ {0} /\ ins.op = "gate"
      /\ next \in Nat /\ toCreate = Created(circuit, ins) + next
  BY <1>1, PendingIs
<1>3. toCreate = next
  BY <1>2 DEF Created
<1>4. /\ Top \in Frame(circuit)
      /\ Len(Top.credits) = toCreate + 0
      /\ Len(Top.env) + 0 + toCreate = c.nin + all
  BY <1>2, TopIs
<1>5. f \in Frame(circuit) /\ f.comp = Top.comp /\ f.pc = Top.pc + 1 /\ f.env = Top.env /\ f.credits = Top.credits
  BY <1>4, AdvanceIs
<1> HIDE DEF f
<1>6. Len(f.credits) = next + 0 /\ Len(f.env) + 0 + next = c.nin + all
  BY <1>3, <1>4, <1>5
<1>7. Unallocated' = 0 /\ phase' = "run" /\ cursor' = 1
  <2>1. cursor = 1
    BY <1>2 DEF Structure, Control
  <2> QED BY <1>1, <1>2, <2>1 DEF Unallocated
<1>8. store' \in [Slots -> Entry] /\ panicked' \in BOOLEAN
  <2>1. GateMachine \in Machine
    BY <1>1, GateIs
  <2> QED BY <1>1, <2>1, SettleIs
<1>9. 0 \in Nat /\ 1 \in Nat \ {0} /\ frames' = WithTop(f)
  BY <1>1 DEF f
<1> QED BY <1>1, <1>2, <1>5, <1>6, <1>7, <1>8, <1>9, ReplacedKeeps

(* A frame without the counters of a call's outputs.                       *)
LEMMA PoppedIs ==
  ASSUME NEW crt, NEW f \in Frame(crt), NEW n \in Nat, n <= Len(f.credits)
  PROVE  /\ Advance(PopOutputs(f, n)) \in Frame(crt)
         /\ Advance(PopOutputs(f, n)).comp = f.comp
         /\ Advance(PopOutputs(f, n)).pc = f.pc + 1
         /\ Advance(PopOutputs(f, n)).env = f.env
         /\ Len(f.credits) \in Nat
         /\ Len(Advance(PopOutputs(f, n)).credits) = Len(f.credits) - n
         /\ \A j \in 1 .. Len(f.credits) - n : Advance(PopOutputs(f, n)).credits[j] = f.credits[j]
<1> DEFINE g == PopOutputs(f, n)
           T == 0 .. MaxCredits
           c == SubSeq(f.credits, 1, Len(f.credits) - n)
<1>1. f.credits \in Seq(T) /\ Len(f.credits) \in Nat
  BY FrameIs
<1> HIDE DEF T
<1>2. c \in Seq(T) /\ Len(c) = Len(f.credits) - n /\ \A j \in 1 .. Len(f.credits) - n : c[j] = f.credits[j]
  BY <1>1
<1>3. g = [f EXCEPT !.credits = c]
  BY DEF PopOutputs
<1> HIDE DEF c, g
<1>4. g \in Frame(crt) /\ g.comp = f.comp /\ g.pc = f.pc /\ g.env = f.env /\ g.credits = c
  BY <1>2, <1>3 DEF Frame, T
<1>5. /\ Advance(g) \in Frame(crt) /\ Advance(g).comp = g.comp /\ Advance(g).pc = g.pc + 1
      /\ Advance(g).env = g.env /\ Advance(g).credits = g.credits
  BY <1>4, AdvanceIs
<1> QED BY <1>1, <1>2, <1>4, <1>5 DEF g

(* The counters popped, the first for the first output.                    *)
LEMMA PromisedIs ==
  ASSUME NEW crt, NEW f \in Frame(crt), NEW n \in Nat, n <= Len(f.credits)
  PROVE  /\ Counts(OutputCredits(f, n), n)
         /\ \A j \in 1 .. n : OutputCredits(f, n)[j] = f.credits[Len(f.credits) - j + 1]
<1> DEFINE T == 0 .. MaxCredits
           q == Len(f.credits)
           c == SubSeq(f.credits, q - n + 1, q)
           o == OutputCredits(f, n)
<1>1. f.credits \in Seq(T) /\ q \in Nat /\ \A j \in 1 .. q : f.credits[j] \in T
  BY FrameIs
<1> HIDE DEF T
<1>2. Len(c) = n /\ DOMAIN c = 1 .. n /\ \A j \in 1 .. n : c[j] = f.credits[q - n + j]
  BY <1>1
<1>3. \A j \in 1 .. n : c[j] \in T
  <2>1. \A j \in 1 .. n : q - n + j \in 1 .. q
    BY <1>1
  <2> HIDE DEF c
  <2> QED BY <1>1, <1>2, <2>1
<1>4. o = Reverse(c)
  BY DEF OutputCredits
<1> HIDE DEF c
<1>5. Items(c, n, T)
  BY <1>2, <1>3 DEF Items
<1>6. /\ Len(o) = n /\ o \in Seq(T)
      /\ \A j \in 1 .. n : o[j] = c[n - j + 1]
  BY <1>4, <1>5, ReverseIs
<1>7. \A j \in 1 .. n : n - j + 1 \in 1 .. n /\ q - n + (n - j + 1) = q - j + 1
  <2>1. q \in Nat
    BY <1>1
  <2>2. n \in Nat
    OBVIOUS
  <2> HIDE DEF q
  <2> QED BY ONLY <2>1, <2>2
<1> HIDE DEF o
<1>8. \A j \in 1 .. n : o[j] = f.credits[q - j + 1]
  <2> SUFFICES ASSUME NEW j \in 1 .. n PROVE o[j] = f.credits[q - j + 1]
    OBVIOUS
  <2> DEFINE i == n - j + 1
  <2>1. i \in 1 .. n /\ q - n + i = q - j + 1 /\ o[j] = c[i]
    BY <1>6, <1>7
  <2> HIDE DEF i
  <2>2. c[i] = f.credits[q - n + i]
    BY <1>2, <2>1
  <2> QED BY <2>1, <2>2
<1>9. Counts(o, n)
  <2>1. \A j \in 1 .. n : o[j] \in T
    BY <1>6
  <2>2. \A x \in T : x \in Nat
    BY StorageAssumption DEF T
  <2> QED BY <2>1, <2>2 DEF Counts
<1> QED BY <1>8, <1>9 DEF o

(* The parts of a call.                                                    *)
Callee == Pending(Top).comp
Outs == Len(circuit[Callee].outs)
Args == Reals(Top.env, Pending(Top).args)
Promised == OutputCredits(Top, Outs)
Caller == Advance(PopOutputs(Top, Outs))
Child == [comp |-> Callee, pc |-> 1, env |-> Args,
          credits |-> InstanceStack(Template(circuit, Callee), Promised)]
CallMachine == Perform[GrantThenUnpin(Args, InputGrants(Template(circuit, Callee), Promised))]

(* What a call does, in the parts named above.                             *)
LEMMA CallIs ==
  ASSUME Structure, RunCall
  PROVE  /\ Running("call") /\ Callee \in 1 .. Len(circuit) /\ circuit \in Circuits
         /\ pool' \in Pool(circuit) /\ Settle(CallMachine)
         /\ frames' = Append(WithTop(Caller), Child)
         /\ UNCHANGED <<circuit, input, phase, cursor, output>>
         /\ Outs \in Nat /\ Outs <= Len(Top.credits)
         /\ Created(circuit, Pending(Top)) = Outs
         /\ Args \in Seq(Wire) /\ Len(Args) = circuit[Callee].nin
         /\ Counts(Promised, Outs)
         /\ \A j \in 1 .. Outs : Promised[j] = Top.credits[Len(Top.credits) - j + 1]
         /\ StackGood(circuit, Callee, Promised, CreatedBy(circuit, circuit[Callee].body, 1), Child.credits)
         /\ Child \in Frame(circuit) /\ Child.comp = Callee /\ Child.pc = 1 /\ Child.env = Args
<1> DEFINE ins == Pending(Top)
           key == circuit[Callee].key
           newPool == GetOrInsert(pool, key, Template(circuit, Callee))
<1>1. Running("call")
  BY DEF RunCall
<1>2. /\ phase = "run" /\ ins.op = "call" /\ Callee \in 1 .. Len(circuit)
      /\ Len(ins.args) = circuit[Callee].nin
      /\ Within(Operands(ins), Len(Operands(ins)), Len(Top.env)) /\ Len(Operands(ins)) \in Nat
      /\ CreatedBy(circuit, circuit[Top.comp].body, Top.pc + 1) \in Nat
      /\ CreatedBy(circuit, circuit[Top.comp].body, Top.pc)
           = Created(circuit, ins) + CreatedBy(circuit, circuit[Top.comp].body, Top.pc + 1)
      /\ Unallocated = 0
  BY <1>1, PendingIs DEF Callee
<1>3. circuit \in Circuits /\ pool \in Pool(circuit)
  BY DEF Structure, Types
<1>4. Templates[circuit][Callee] = Template(circuit, Callee)
  BY <1>2, RootIs DEF Structure
<1>5. newPool \in Pool(circuit) /\ EntryOf(newPool, key).value = Template(circuit, Callee)
  BY <1>2, <1>3, PoolGives
<1>6. /\ pool' = newPool /\ Settle(CallMachine)
      /\ frames' = Append(WithTop(Caller), Child)
      /\ UNCHANGED <<circuit, input, phase, cursor, output>>
  <2> HIDE DEF newPool
  <2>1. newPool = GetOrInsert(pool, circuit[ins.comp].key, Templates[circuit][ins.comp])
    BY <1>4 DEF newPool, Callee
  <2> QED BY <1>5, <2>1 DEF RunCall, Callee, Outs, Args, Promised, Caller, Child, CallMachine
<1>7. Outs \in Nat /\ Created(circuit, ins) = Outs
  BY <1>2, <1>3, ComponentIs DEF Outs, Created, Callee, NameSeq
<1>8. /\ Top \in Frame(circuit) /\ Top.env \in Seq(Wire) /\ Len(Top.env) \in Nat
      /\ Len(Top.credits) = CreatedBy(circuit, circuit[Top.comp].body, Top.pc) + 0
  BY <1>2, TopIs
<1>9. Outs <= Len(Top.credits)
  BY <1>2, <1>7, <1>8
<1>10. Operands(ins) = ins.args
  BY <1>2 DEF Operands
<1>11. Args \in Seq(Wire) /\ Len(Args) = circuit[Callee].nin
  BY <1>2, <1>8, <1>10, RealsAre DEF Args
<1>12. /\ Counts(Promised, Outs)
       /\ \A j \in 1 .. Outs : Promised[j] = Top.credits[Len(Top.credits) - j + 1]
  BY <1>7, <1>8, <1>9, PromisedIs DEF Promised
<1>13. Child.comp = Callee /\ Child.pc = 1 /\ Child.env = Args
       /\ Child.credits = InstanceStack(Template(circuit, Callee), Promised)
  BY DEF Child
<1>14. StackGood(circuit, Callee, Promised, CreatedBy(circuit, circuit[Callee].body, 1), Child.credits)
  <2>1. Counts(Promised, Len(circuit[Callee].outs))
    BY <1>12 DEF Outs
  <2> QED BY <1>2, <1>3, <1>13, <2>1, StackIs
<1>15. Child.credits \in Seq(0 .. MaxCredits)
  BY <1>14 DEF StackGood
<1>16. Child \in Frame(circuit)
  <2> DEFINE cr == InstanceStack(Template(circuit, Callee), Promised)
  <2>1. cr \in Seq(0 .. MaxCredits) /\ Child = [comp |-> Callee, pc |-> 1, env |-> Args, credits |-> cr]
    BY <1>13, <1>15 DEF Child
  <2> HIDE DEF cr
  <2> QED BY <1>2, <1>11, <2>1 DEF Frame
<1> QED BY <1>1, <1>2, <1>3, <1>5, <1>6, <1>7, <1>9, <1>11, <1>12, <1>13, <1>14, <1>16

(* A frame under another keeps its shape while both are there.             *)
LEMMA UnderOk ==
  ASSUME NEW crt, NEW fs, NEW gs, NEW u, NEW k \in Nat, Len(fs) \in Nat, Len(gs) \in Nat,
         k < Len(fs), k < Len(gs), gs[k] = fs[k], gs[k + 1].comp = fs[k + 1].comp,
         FrameOk(crt, fs, u, k)
  PROVE  FrameOk(crt, gs, u, k)
<1>1. BoundIn(crt, gs, k) = BoundIn(crt, fs, k)
  BY DEF BoundIn
<1> QED BY <1>1 DEF FrameOk

(* Control of a step that stays in the phase "run".                        *)
LEMMA RunControl ==
  ASSUME Structure, phase = "run", UNCHANGED <<circuit, phase, cursor>>,
         frames' \in Seq(Frame(circuit)), Len(frames') > 0, frames'[1].comp = Root
  PROVE  Control'
<1>1. Root' = Root /\ NInputs' = NInputs /\ Len(frames') # 0
  BY DEF Root, NInputs
<1> QED BY <1>1 DEF Structure, Control

(* A call keeps the structure: the caller's counters for the outputs go,   *)
(* and the outputs are about to be bound.                                  *)
LEMMA CallKeeps == ASSUME Structure, RunCall PROVE Structure'
<1> DEFINE n == Len(frames)
           ps == WithTop(Caller)
           gs == frames'
           c == circuit[Top.comp]
           d == circuit[Callee]
           toCreate == CreatedBy(circuit, c.body, Top.pc)
           next == CreatedBy(circuit, c.body, Top.pc + 1)
           all == CreatedBy(circuit, c.body, 1)
<1>1. /\ Running("call") /\ Callee \in 1 .. Len(circuit) /\ circuit \in Circuits
      /\ pool' \in Pool(circuit) /\ Settle(CallMachine)
      /\ gs = Append(ps, Child)
      /\ UNCHANGED <<circuit, input, phase, cursor, output>>
      /\ Outs \in Nat /\ Outs <= Len(Top.credits)
      /\ Created(circuit, Pending(Top)) = Outs
      /\ Args \in Seq(Wire) /\ Len(Args) = d.nin
      /\ Counts(Promised, Outs)
      /\ StackGood(circuit, Callee, Promised, CreatedBy(circuit, d.body, 1), Child.credits)
      /\ Child \in Frame(circuit) /\ Child.comp = Callee /\ Child.pc = 1 /\ Child.env = Args
  BY CallIs
<1>2. /\ phase = "run" /\ Unallocated = 0 /\ Top.pc + 1 \in Nat \ {0}
      /\ next \in Nat /\ toCreate = Outs + next
  BY <1>1, PendingIs
<1>3. /\ Top \in Frame(circuit) /\ Top = frames[n] /\ n \in Nat \ {0} /\ n \in 1 .. n
      /\ Len(Top.credits) = toCreate + 0 /\ Len(Top.env) \in Nat
      /\ Len(Top.env) + 0 + toCreate = c.nin + all /\ c.nin \in Nat /\ all \in Nat
  BY <1>2, TopIs
<1>4. /\ Caller \in Frame(circuit) /\ Caller.comp = Top.comp /\ Caller.pc = Top.pc + 1
      /\ Caller.env = Top.env /\ Len(Top.credits) \in Nat
      /\ Len(Caller.credits) = Len(Top.credits) - Outs
  BY SMTT(30), <1>1, <1>3, PoppedIs DEF Caller
<1>5. /\ ps \in Seq(Frame(circuit)) /\ Len(ps) = n /\ ps[n] = Caller
      /\ \A k \in 1 .. n : k # n => ps[k] = frames[k]
  BY <1>2, <1>4, WithTopIs
<1> HIDE DEF ps, gs, n
<1>6. /\ gs \in Seq(Frame(circuit)) /\ Len(gs) = n + 1
      /\ gs[n + 1] = Child /\ \A k \in 1 .. n : gs[k] = ps[k]
  BY <1>1, <1>5, AppendIs
<1>7. FrameOk(circuit, gs, 0, n + 1)
  <2> DEFINE N == CreatedBy(circuit, d.body, 1)
  <2>1. Len(Child.credits) = N /\ N \in Nat
    BY <1>1 DEF StackGood
  <2>2. BoundIn(circuit, gs, n + 1) = Len(Args)
    <3>1. n + 1 \in Nat /\ Len(gs[n + 1].env) \in Nat /\ gs[n + 1].env = Args
      BY <1>1, <1>3, <1>6
    <3> QED BY <1>6, <3>1, TopBound
  <2>3. d.nin \in Nat
    BY <1>1, ComponentIs
  <2> HIDE DEF N
  <2>4. Len(Child.credits) = N + 0 /\ BoundIn(circuit, gs, n + 1) + 0 + N = d.nin + N
    BY <1>1, <2>1, <2>2, <2>3
  <2>5. gs[n + 1].comp = Callee /\ gs[n + 1].pc = 1 /\ gs[n + 1].credits = Child.credits
    BY <1>1, <1>6
  <2> QED BY <2>4, <2>5 DEF FrameOk, N
<1>8. FrameOk(circuit, gs, 0, n)
  <2>1. gs[n] = Caller /\ n < n + 1 /\ gs[n + 1].comp = Callee
    BY <1>1, <1>3, <1>5, <1>6
  <2>2. BoundIn(circuit, gs, n) = Len(Top.env) + Outs
    BY <1>4, <1>6, <2>1 DEF BoundIn, Outs
  <2> DEFINE credits == Len(Top.credits)
             bound == Len(Top.env)
             inputs == c.nin
  <2>3. /\ next \in Nat /\ toCreate = Outs + next /\ all \in Nat /\ inputs \in Nat
        /\ credits \in Nat /\ bound \in Nat /\ Outs \in Nat
        /\ credits = toCreate + 0 /\ bound + 0 + toCreate = inputs + all
    BY <1>1, <1>2, <1>3, <1>4
  <2>4. Len(Caller.credits) = credits - Outs /\ BoundIn(circuit, gs, n) = bound + Outs
    BY <1>4, <2>2
  <2> HIDE DEF toCreate, next, all, credits, bound, inputs
  <2>5. credits - Outs = next + 0 /\ (bound + Outs) + 0 + next = inputs + all
    BY <2>3
  <2>6. Len(Caller.credits) = next + 0 /\ BoundIn(circuit, gs, n) + 0 + next = c.nin + all
    BY <2>4, <2>5 DEF inputs
  <2> QED BY <1>4, <2>1, <2>6 DEF FrameOk, next, all
<1>9. \A k \in 1 .. n : k # n => FrameOk(circuit, gs, 0, k)
  <2> SUFFICES ASSUME NEW k \in 1 .. n, k # n PROVE FrameOk(circuit, gs, 0, k)
    OBVIOUS
  <2>1. k \in Nat /\ k < n /\ k < n + 1 /\ k + 1 \in 1 .. n /\ n \in Nat /\ n + 1 \in Nat
    BY <1>3
  <2>2. gs[k] = frames[k]
    BY <1>5, <1>6
  <2>3. gs[k + 1].comp = frames[k + 1].comp
    <3>1. gs[k + 1] = ps[k + 1]
      BY <1>6, <2>1
    <3>2. CASE k + 1 = n
      BY <1>3, <1>4, <1>5, <3>1, <3>2
    <3>3. CASE k + 1 # n
      BY <1>5, <2>1, <3>1, <3>3
    <3> QED BY <3>2, <3>3
  <2>4. FrameOk(circuit, frames, 0, k)
    BY <1>2 DEF Structure, Shape, n
  <2> QED BY <1>6, <2>1, <2>2, <2>3, <2>4, UnderOk DEF n
<1>10. \A k \in 1 .. n + 1 : FrameOk(circuit, gs, 0, k)
  <2>1. \A k \in 1 .. n + 1 : k = n + 1 \/ k = n \/ (k \in 1 .. n /\ k # n)
    BY <1>3
  <2> QED BY <1>7, <1>8, <1>9, <2>1
<1>11. Shape'
  <2>1. Unallocated' = 0
    BY <1>1, <1>2 DEF Unallocated
  <2> QED BY <1>1, <1>6, <1>10, <2>1 DEF Shape, gs
<1>12. gs[1].comp = Root
  <2>1. 1 \in 1 .. n
    BY <1>3
  <2>2. frames[1].comp = Root
    BY <1>2 DEF Structure, Control
  <2>3. CASE n = 1
    BY <1>3, <1>4, <1>5, <1>6, <2>1, <2>2, <2>3
  <2>4. CASE n # 1
    BY <1>5, <1>6, <2>1, <2>2, <2>4
  <2> QED BY <2>3, <2>4
<1>13. Control'
  <2>1. Len(gs) > 0
    BY <1>3, <1>6
  <2> QED BY <1>1, <1>2, <1>6, <1>12, <2>1, RunControl DEF gs
<1>14. Types'
  <2>1. CallMachine \in Machine
    <3>1. Counts(Promised, Len(d.outs)) /\ store \in [Slots -> Entry]
      BY <1>1 DEF Outs, Structure, Types
    <3> QED BY <1>1, <3>1, CallAccesses DEF CallMachine
  <2>2. store' \in [Slots -> Entry] /\ panicked' \in BOOLEAN
    BY <1>1, <2>1, SettleIs
  <2> QED BY <1>1, <1>6, <2>2 DEF Structure, Types, NInputs, Root, gs
<1> QED BY <1>11, <1>13, <1>14 DEF Structure

(* The parts of a return.                                                  *)
Returned == Reals(Top.env, circuit[Top.comp].outs)
Under == frames[Len(frames) - 1]
Resumed == [Under EXCEPT !.env = @ \o Returned]

(* A frame that learns more wires.                                         *)
LEMMA JoinedEnv ==
  ASSUME NEW crt, NEW f \in Frame(crt), NEW r \in Seq(Wire), NEW g, g = [f EXCEPT !.env = @ \o r]
  PROVE  /\ g \in Frame(crt) /\ g.comp = f.comp /\ g.pc = f.pc /\ g.credits = f.credits
         /\ g.env = f.env \o r
<1>1. f.env \in Seq(Wire)
  BY FrameIs
<1>2. f.env \o r \in Seq(Wire)
  BY <1>1
<1> DEFINE e == f.env \o r
<1>3. e \in Seq(Wire) /\ g = [f EXCEPT !.env = e]
  BY <1>2 DEF Frame
<1> HIDE DEF e
<1>4. /\ g \in Frame(crt) /\ g.comp = f.comp /\ g.pc = f.pc /\ g.credits = f.credits
      /\ g.env = e
  BY <1>3 DEF Frame
<1> QED BY <1>4 DEF e

(* The first elements of a sequence.                                       *)
LEMMA PrefixIs ==
  ASSUME NEW T, NEW s \in Seq(T), NEW m \in Nat, m <= Len(s)
  PROVE  LET p == SubSeq(s, 1, m)
         IN  p \in Seq(T) /\ Len(p) = m /\ \A k \in 1 .. m : p[k] = s[k]
OBVIOUS

(* The length of a concatenation.                                          *)
LEMMA JoinedLen ==
  ASSUME NEW T, NEW a \in Seq(T), NEW b \in Seq(T)
  PROVE  Len(a \o b) = Len(a) + Len(b)
OBVIOUS

(* What a return does, in the parts named above.                           *)
LEMMA ReturnIs ==
  ASSUME Structure, RunReturn
  PROVE  LET n == Len(frames)
             c == circuit[Top.comp]
         IN  /\ phase = "run" /\ ~panicked /\ Unallocated = 0 /\ Finished(Top)
             /\ n \in Nat /\ n > 1 /\ n - 1 \in 1 .. n /\ n - 1 \in Nat
             /\ Len(c.outs) \in Nat /\ Len(Returned) = Len(c.outs) /\ Returned \in Seq(Wire)
             /\ Within(c.outs, Len(c.outs), Len(Top.env))
             /\ Under \in Frame(circuit)
             /\ Resumed \in Frame(circuit) /\ Resumed.comp = Under.comp /\ Resumed.pc = Under.pc
             /\ Resumed.credits = Under.credits /\ Resumed.env = Under.env \o Returned
             /\ Len(Resumed.env) = Len(Under.env) + Len(c.outs) /\ Len(Under.env) \in Nat
             /\ frames' = Append(SubSeq(frames, 1, n - 2), Resumed)
             /\ frames' \in Seq(Frame(circuit)) /\ Len(frames') = n - 1
             /\ frames'[n - 1] = Resumed /\ \A k \in 1 .. n - 2 : frames'[k] = frames[k]
             /\ UNCHANGED <<circuit, input, phase, cursor, store, pool, output, panicked>>
<1> DEFINE n == Len(frames)
           c == circuit[Top.comp]
<1>1. /\ phase = "run" /\ ~panicked /\ n > 1 /\ Finished(Top)
      /\ UNCHANGED <<circuit, input, phase, cursor, store, pool, output, panicked>>
      /\ frames' = Append(SubSeq(frames, 1, n - 2), Resumed)
  BY DEF RunReturn, Resumed, Under, Returned, CompOf
<1>2. Unallocated = 0 /\ phase # "metadata"
  BY <1>1 DEF Unallocated
<1>3. Top.env \in Seq(Wire) /\ n \in Nat /\ Len(Top.env) \in Nat
  BY <1>2, TopIs
<1>4. Within(c.outs, Len(c.outs), Len(Top.env)) /\ Len(c.outs) \in Nat
  BY <1>1, <1>2, OutsWithin
<1>5. Returned \in Seq(Wire) /\ Len(Returned) = Len(c.outs)
  BY <1>3, <1>4, RealsAre DEF Returned
<1>6. n - 1 \in 1 .. n /\ n - 1 \in Nat
  BY <1>1, <1>3
<1>7. frames \in Seq(Frame(circuit))
  BY DEF Structure, Types
<1>8. Under \in Frame(circuit)
  BY <1>6, <1>7, FramesAre DEF Under
<1>9. Under.env \in Seq(Wire) /\ Len(Under.env) \in Nat
  BY <1>8, FrameIs
<1>10. /\ Resumed \in Frame(circuit) /\ Resumed.comp = Under.comp /\ Resumed.pc = Under.pc
       /\ Resumed.credits = Under.credits /\ Resumed.env = Under.env \o Returned
  BY <1>5, <1>8, JoinedEnv DEF Resumed
<1>11. Len(Under.env \o Returned) = Len(Under.env) + Len(c.outs)
  <2>1. Len(Under.env \o Returned) = Len(Under.env) + Len(Returned)
    BY <1>5, <1>9, JoinedLen
  <2> QED BY <1>5, <2>1
<1>12. Len(Resumed.env) = Len(Under.env) + Len(c.outs)
  BY <1>10, <1>11
<1>13. /\ frames' \in Seq(Frame(circuit)) /\ Len(frames') = n - 1
       /\ frames'[n - 1] = Resumed /\ \A k \in 1 .. n - 2 : frames'[k] = frames[k]
  <2> DEFINE T == Frame(circuit)
             s == SubSeq(frames, 1, n - 2)
  <2>1. frames \in Seq(T) /\ Resumed \in T
    BY <1>7, <1>10
  <2> HIDE DEF T
  <2>2. s \in Seq(T) /\ Len(s) = n - 2 /\ \A k \in 1 .. n - 2 : s[k] = frames[k]
    <3>1. n - 2 \in Nat /\ n - 2 <= Len(frames)
      BY <1>1, <1>3
    <3> QED BY <2>1, <3>1, PrefixIs
  <2> HIDE DEF s
  <2>3. /\ Append(s, Resumed) \in Seq(T) /\ Len(Append(s, Resumed)) = n - 2 + 1
        /\ Append(s, Resumed)[n - 2 + 1] = Resumed
        /\ \A k \in 1 .. n - 2 : Append(s, Resumed)[k] = s[k]
    BY <2>1, <2>2, AppendIs
  <2>4. n - 2 + 1 = n - 1
    BY <1>3
  <2> QED BY <1>1, <2>2, <2>3, <2>4 DEF T, s
<1> QED BY <1>1, <1>2, <1>3, <1>4, <1>5, <1>6, <1>8, <1>9, <1>10, <1>12, <1>13

(* A return keeps the structure.                                           *)
LEMMA ReturnKeeps == ASSUME Structure, RunReturn PROVE Structure'
<1> DEFINE n == Len(frames)
           gs == frames'
           r == Len(circuit[Top.comp].outs)
<1>1. /\ phase = "run" /\ Unallocated = 0
      /\ n \in Nat /\ n > 1 /\ n - 1 \in 1 .. n /\ n - 1 \in Nat
      /\ r \in Nat /\ Resumed.comp = Under.comp /\ Resumed.pc = Under.pc
      /\ Resumed.credits = Under.credits
      /\ Len(Resumed.env) = Len(Under.env) + r /\ Len(Under.env) \in Nat
      /\ gs \in Seq(Frame(circuit)) /\ Len(gs) = n - 1
      /\ gs[n - 1] = Resumed /\ \A k \in 1 .. n - 2 : gs[k] = frames[k]
      /\ UNCHANGED <<circuit, input, phase, cursor, store, pool, output, panicked>>
  BY ReturnIs
<1>2. \A k \in 1 .. n : FrameOk(circuit, frames, 0, k)
  BY <1>1 DEF Structure, Shape
<1>3. Under = frames[n - 1] /\ Top = frames[n]
  BY DEF Under, Top
<1> HIDE DEF gs
<1>4. FrameOk(circuit, gs, 0, n - 1)
  <2>1. BoundIn(circuit, gs, n - 1) = Len(Resumed.env)
    <3>1. n - 1 \in Nat /\ Len(gs) = n - 1 /\ Len(gs[n - 1].env) \in Nat
      BY <1>1
    <3>2. gs[n - 1] = Resumed
      BY <1>1
    <3> HIDE DEF n
    <3> QED BY <3>1, <3>2, TopBound
  <2>2. n - 1 < n /\ n - 1 + 1 = n
    BY <1>1
  <2>3. BoundIn(circuit, frames, n - 1) = Len(Under.env) + r
    BY <1>3, <2>2 DEF BoundIn
  <2>4. FrameOk(circuit, frames, 0, n - 1)
    BY <1>1, <1>2
  <2> QED BY <1>1, <1>3, <2>1, <2>3, <2>4 DEF FrameOk
<1>5. \A k \in 1 .. n - 2 : FrameOk(circuit, gs, 0, k)
  <2> SUFFICES ASSUME NEW k \in 1 .. n - 2 PROVE FrameOk(circuit, gs, 0, k)
    OBVIOUS
  <2>1. k \in Nat /\ k < n /\ k < n - 1 /\ k + 1 \in 1 .. n - 1 /\ k \in 1 .. n
    BY <1>1
  <2>2. gs[k] = frames[k] /\ FrameOk(circuit, frames, 0, k)
    BY <1>1, <1>2, <2>1
  <2>3. gs[k + 1].comp = frames[k + 1].comp
    <3>1. CASE k + 1 = n - 1
      BY <1>1, <1>3, <3>1
    <3>2. CASE k + 1 # n - 1
      <4>1. k + 1 \in 1 .. n - 2
        BY <1>1, <2>1, <3>2
      <4> QED BY <1>1, <4>1
    <3> QED BY <3>1, <3>2
  <2> HIDE DEF n
  <2> QED BY <1>1, <2>1, <2>2, <2>3, UnderOk DEF n
<1>6. Shape'
  <2>1. Unallocated' = 0
    BY <1>1 DEF Unallocated
  <2>2. \A k \in 1 .. n - 1 : k = n - 1 \/ k \in 1 .. n - 2
    BY <1>1
  <2>3. \A k \in 1 .. n - 1 : FrameOk(circuit, gs, 0, k)
    BY <1>4, <1>5, <2>2
  <2> QED BY <1>1, <2>1, <2>3 DEF Shape, gs
<1>7. gs[1].comp = Root
  <2>1. frames[1].comp = Root
    BY <1>1 DEF Structure, Control
  <2>2. CASE n - 1 = 1
    BY <1>1, <1>3, <2>1, <2>2
  <2>3. CASE n - 1 # 1
    <3>1. 1 \in 1 .. n - 2
      BY <1>1, <2>3
    <3> QED BY <1>1, <2>1, <3>1
  <2> QED BY <2>2, <2>3
<1>8. Control'
  <2>1. Len(gs) > 0
    BY <1>1
  <2> QED BY <1>1, <1>7, <2>1, RunControl DEF gs
<1>9. Types'
  BY <1>1 DEF Structure, Types, NInputs, Root, gs
<1> QED BY <1>6, <1>8, <1>9 DEF Structure

(* No wire has credits in an empty storage.                                *)
LEMMA EmptyIs ==
  /\ EmptyStore \in [Slots -> Entry]
  /\ \A k \in Keys : Credit(EmptyStore, k) = 0
<1>1. VacantEntry \in Entry /\ VacantEntry.credits = 0
  BY StorageAssumption DEF VacantEntry, Entry
<1>2. EmptyStore = [i \in Slots |-> VacantEntry]
  BY DEF EmptyStore
<1> QED BY <1>1, <1>2, KeysAre DEF Credit

(* A run starts with the structure.                                        *)
LEMMA StructureInit == ASSUME Init PROVE Structure
<1>1. circuit \in Circuits /\ pool = <<>> /\ store = EmptyStore
  BY DEF Init
<1>2. 1 \in 1 .. Len(circuit)
  BY <1>1, ComponentIs
<1>3. pool \in Pool(circuit)
  BY <1>1, <1>2, PoolStarts
<1>4. input \in [1 .. NInputs -> BOOLEAN]
  BY DEF Init, NInputs, Root
<1>5. frames \in Seq(Frame(circuit)) /\ Len(frames) = 0 /\ output \in Seq(BOOLEAN)
  BY DEF Init
<1>6. Types
  <2>1. cursor \in Nat \ {0}
    BY DEF Init
  <2>2. phase \in {"metadata", "allocate", "encode", "collect", "run", "decode", "done"}
    BY DEF Init
  <2>3. panicked \in BOOLEAN
    BY DEF Init
  <2>4. store \in [Slots -> Entry]
    BY <1>1, EmptyIs
  <2> QED BY <1>1, <1>3, <1>4, <1>5, <2>1, <2>2, <2>3, <2>4 DEF Types
<1>7. Control
  BY <1>1, <1>5 DEF Init, Control
<1>8. Shape
  BY <1>5 DEF Shape
<1> QED BY <1>6, <1>7, <1>8 DEF Structure

(* No step of the run breaks the structure.                                *)
LEMMA StructureStep == ASSUME Structure, [Next]_vars PROVE Structure'
<1>1. CASE Next
  BY <1>1, EnterKeeps, AllocateKeeps, EncodeKeeps, CollectKeeps, IssueKeeps, GateKeeps,
     CallKeeps, ReturnKeeps, FinishKeeps, DecodeKeeps DEF Next
<1>2. CASE UNCHANGED vars
  <2>1. Unallocated' = Unallocated
    BY <1>2 DEF vars, Unallocated, NInputs, Root
  <2>2. Control'
    <3>1. Root' = Root /\ NInputs' = NInputs
      BY <1>2 DEF vars, Root, NInputs
    <3> QED BY <1>2, <3>1 DEF vars, Structure, Control
  <2> QED BY <1>2, <2>1, <2>2, Idle DEF vars, Structure, Types
<1> QED BY <1>1, <1>2

(* In every state of a run the variables have their types, phase, cursor   *)
(* and stack agree, and every frame has a counter for each wire it still   *)
(* creates and has bound the names it counts with: what                    *)
(* `issue_wire_with_credit` and `with_named_child` rely on when they pop.  *)
THEOREM StructureInvariant == Spec => []Structure
<1>1. Init => Structure
  BY StructureInit
<1>2. Structure /\ [Next]_vars => Structure'
  BY StructureStep
<1> QED BY <1>1, <1>2, PTL DEF Spec

(* The structure includes the types.                                       *)
LEMMA StructureTypes == ASSUME Structure PROVE TypeOK
<1>1. \A k \in DOMAIN frames :
        /\ \A j \in DOMAIN frames[k].env : frames[k].env[j] \in Wire
        /\ \A j \in DOMAIN frames[k].credits : frames[k].credits[j] \in 0 .. MaxCredits
  <2> SUFFICES ASSUME NEW k \in DOMAIN frames
               PROVE  /\ \A j \in DOMAIN frames[k].env : frames[k].env[j] \in Wire
                      /\ \A j \in DOMAIN frames[k].credits : frames[k].credits[j] \in 0 .. MaxCredits
    OBVIOUS
  <2> DEFINE f == frames[k]
             T == 0 .. MaxCredits
  <2>1. f \in Frame(circuit)
    BY DEF Structure, Types
  <2> HIDE DEF f, T
  <2>2. f.env \in Seq(Wire) /\ f.credits \in Seq(T)
    BY <2>1, FrameIs DEF T
  <2>3. \A j \in DOMAIN f.env : f.env[j] \in Wire
    BY <2>2
  <2>4. \A j \in DOMAIN f.credits : f.credits[j] \in T
    BY <2>2
  <2> QED BY <2>3, <2>4 DEF f, T
<1>2. \A j \in DOMAIN output : output[j] \in BOOLEAN
  <2>1. output \in Seq(BOOLEAN)
    BY DEF Structure, Types
  <2> QED BY <2>1
<1>3. Len(pool) <= Capacity
  BY DEF Structure, Types, Pool
<1> QED BY <1>1, <1>2, <1>3 DEF Structure, Types, TypeOK

(* The structure includes the balance of the frames.                       *)
LEMMA StructureBalances == ASSUME Structure PROVE FramesBalanced
<1>1. DOMAIN frames = 1 .. Len(frames)
  BY DEF Structure, Types
<1> QED BY <1>1 DEF Structure, Shape, FrameOk, FramesBalanced, Unallocated, CompOf

(* Every variable has its type, whatever the circuits, the size of the     *)
(* storage and the capacity of the pool.                                   *)
THEOREM TypesInvariant == Spec => []TypeOK
BY StructureInvariant, StructureTypes, PTL

(* A frame holds exactly one counter for each wire its closure is still to *)
(* create, so the pop of `issue_wire_with_credit` never meets an empty     *)
(* stack and no counter is left when a closure returns (the assertion      *)
(* `with_named_child` makes in test builds).                               *)
THEOREM BalancedInvariant == Spec => []FramesBalanced
BY StructureInvariant, StructureBalances, PTL

(* The configuration of a state.                                           *)
Now == [frames |-> frames, decoded |-> Decoded, inputs |-> {p \in Nat : Uncollected(p)}]

(* The counter of a frame for a wire it has not created yet is the number  *)
(* of reads the wire will have.                                            *)
Stacked(crt, s, k) ==
  LET q == Len(s.frames[k].credits)
      b == BoundIn(crt, s.frames, k)
  IN  \A i \in 1 .. q : s.frames[k].credits[q - i + 1] = Coming(crt, s, k, b + i + 1)
AllStacked(crt, s) == \A k \in 1 .. Len(s.frames) : Stacked(crt, s, k)

(* Every slot has the credits for the reads its wire is owed.              *)
AllPaid(crt, s, st) == \A w \in Keys : Credit(st, w) = Owing(crt, s, w)

Exact == ~panicked => AllStacked(circuit, Now) /\ AllPaid(circuit, Now, store)

(* The configuration of a state is one.                                    *)
LEMMA NowIs ==
  ASSUME Structure
  PROVE  /\ Now \in Config(circuit) /\ Now.frames = frames /\ Now.decoded = Decoded
         /\ Now.inputs = {p \in Nat : Uncollected(p)}
<1>1. frames \in Seq(Frame(circuit)) /\ cursor \in Nat \ {0}
  BY DEF Structure, Types
<1>2. Len(circuit[Root].outs) \in Nat
  BY RootIs, ComponentIs DEF Structure, Types, NameSeq
<1>3. Decoded \in Nat
  BY <1>1, <1>2 DEF Decoded
<1> QED BY <1>1, <1>3 DEF Now, Config

(* The configuration of the next state.                                    *)
LEMMA NextNow ==
  ASSUME Structure, Structure', circuit' = circuit
  PROVE  /\ Now' \in Config(circuit) /\ Now'.frames = frames' /\ Now'.decoded = Decoded'
         /\ Now'.inputs = {p \in Nat : Uncollected(p)'}
<1>1. frames' \in Seq(Frame(circuit)) /\ cursor' \in Nat \ {0} /\ Root' = Root
  BY DEF Structure, Types, Root
<1>2. Len(circuit[Root].outs) \in Nat
  BY RootIs, ComponentIs DEF Structure, Types, NameSeq
<1>3. Decoded' \in Nat
  BY <1>1, <1>2 DEF Decoded
<1> QED BY <1>1, <1>3 DEF Now, Config

(* The reads to come, in terms of the configuration.                       *)
LEMMA ToComeIs ==
  ASSUME Structure, NEW k, NEW l
  PROVE  ToCome(k, l) = Coming(circuit, Now, k, l)
<1>1. Left(circuit, Now) = Remaining(circuit, frames, Decoded)
  BY NowIs DEF Left
<1>2. Uncollected(l - FirstMock + 1) <=> l - FirstMock + 1 \in Now.inputs
  BY NowIs DEF Uncollected
<1> QED BY <1>1, <1>2 DEF ToCome, Coming

(* The demand of a wire is what the configuration owes it.                 *)
LEMMA DemandIs ==
  ASSUME Structure, NEW w
  PROVE  Demand(w) = Owing(circuit, Now, w)
<1> DEFINE n == Len(frames)
           row(k) == [j \in DOMAIN frames[k].env |->
                        IF frames[k].env[j] = w THEN ToCome(k, j + FirstMock - 1) ELSE 0]
<1>1. /\ DOMAIN frames = 1 .. n /\ Now.frames = frames
      /\ \A k \in 1 .. n : DOMAIN frames[k].env = 1 .. Len(frames[k].env) /\ Len(frames[k].env) \in Nat
  BY NowIs, ConfigIs
<1>2. \A k \in 1 .. n : row(k) = Weights(frames[k].env, w, Names(circuit, Now, k))
  <2> SUFFICES ASSUME NEW k \in 1 .. n
               PROVE  row(k) = Weights(frames[k].env, w, Names(circuit, Now, k))
    OBVIOUS
  <2>1. \A j \in DOMAIN frames[k].env :
          ToCome(k, j + FirstMock - 1) = Names(circuit, Now, k)[j]
    <3> SUFFICES ASSUME NEW j \in DOMAIN frames[k].env
                 PROVE  ToCome(k, j + FirstMock - 1) = Names(circuit, Now, k)[j]
      OBVIOUS
    <3>1. j \in Nat
      BY <1>1
    <3>2. ToCome(k, j + FirstMock - 1) = Coming(circuit, Now, k, j + FirstMock - 1)
      BY ToComeIs
    <3> QED BY <3>1, <3>2 DEF Names
  <2> QED BY <2>1 DEF Weights
<1>3. \A k \in 1 .. n : Total[row(k)] = Owed(circuit, Now, k, w)
  BY <1>1, <1>2 DEF Owed, Weighed
<1>4. Demand(w) = Total[[k \in 1 .. n |-> Total[row(k)]]]
  BY <1>1 DEF Demand
<1> HIDE DEF row
<1>5. [k \in 1 .. n |-> Total[row(k)]] = [k \in 1 .. n |-> Owed(circuit, Now, k, w)]
  BY <1>3
<1> QED BY <1>1, <1>4, <1>5 DEF Owing, Owes

(* What the invariant says of a state without a panic.                     *)
LEMMA ExactIs ==
  ASSUME Structure, Exact
  PROVE  CreditsExact
<1> SUFFICES ASSUME ~panicked, NEW w \in Keys PROVE store[ToIndex(w)].credits = Demand(w)
  BY DEF CreditsExact
<1>1. Credit(store, w) = Owing(circuit, Now, w)
  BY DEF Exact, AllPaid
<1> QED BY <1>1, DemandIs DEF Credit

(* What is to come for a name of frame k, from what is left to frame k - 1 *)
(* for the names of the outputs.                                           *)
LEMMA LeftIs ==
  ASSUME NEW crt \in Circuits, NEW s \in Config(crt), NEW k \in 1 .. Len(s.frames)
  PROVE  LET c == crt[s.frames[k].comp]
             d == Shift(Left(crt, s)[k - 1], NextName(s.frames, k - 1))
         IN  /\ Counts(d, Len(c.outs))
             /\ \A l \in Nat :
                  /\ Left(crt, s)[k][l] = Reads(c.body, s.frames[k].pc, l) + Weighed(c.outs, l, d)
                  /\ Reads(c.body, s.frames[k].pc, l) \in Nat /\ Weighed(c.outs, l, d) \in Nat
<1> DEFINE fs == s.frames
           t == Left(crt, s)[k - 1]
<1>1. fs \in Seq(Frame(crt)) /\ s.decoded \in Nat /\ Len(fs) \in Nat
      /\ fs[k].comp \in 1 .. Len(crt) /\ fs[k].pc \in Nat /\ k \in 1 .. Len(fs)
  BY ConfigIs
<1>2. k - 1 \in 0 .. Len(fs)
  BY <1>1
<1>3. t \in [Nat -> Nat]
  BY <1>1, <1>2, RemainingType DEF Left
<1>4. Left(crt, s)[k] = LeftAt(crt, fs, k, t)
  BY <1>1, RemainingIs DEF Left
<1>5. \A l \in Nat : Reads(crt[fs[k].comp].body, fs[k].pc, l) \in Nat
  BY <1>1, ReadsAre
<1> HIDE DEF t, fs
<1> DEFINE d == Shift(t, NextName(fs, k - 1))
           outs == crt[fs[k].comp].outs
<1>6. /\ \A l \in Nat : LeftAt(crt, fs, k, t)[l] = Reads(crt[fs[k].comp].body, fs[k].pc, l) + Weighed(outs, l, d)
      /\ Counts(d, Len(outs))
      /\ \A l \in Nat : Weighed(outs, l, d) \in Nat
  BY <1>1, <1>3, LeftAtIs
<1> HIDE DEF d
<1>7. \A l \in Nat : Left(crt, s)[k][l] = Reads(crt[fs[k].comp].body, fs[k].pc, l) + Weighed(outs, l, d)
  BY <1>4, <1>6
<1> QED BY <1>5, <1>6, <1>7 DEF t, d, fs

(* The counters of a frame that does not change.                           *)
LEMMA StackedSame ==
  ASSUME NEW crt, NEW s, NEW t, NEW k,
         t.frames[k].credits = s.frames[k].credits,
         BoundIn(crt, t.frames, k) = BoundIn(crt, s.frames, k),
         \A i \in 1 .. Len(s.frames[k].credits) :
           Coming(crt, s, k, BoundIn(crt, s.frames, k) + i + 1)
             = Coming(crt, t, k, BoundIn(crt, s.frames, k) + i + 1),
         Stacked(crt, s, k)
  PROVE  Stacked(crt, t, k)
BY DEF Stacked

(* The number of names bound.                                              *)
LEMMA BoundNat ==
  ASSUME NEW crt \in Circuits, NEW s \in Config(crt), NEW k \in 1 .. Len(s.frames)
  PROVE  BoundIn(crt, s.frames, k) \in Nat /\ BoundIn(crt, s.frames, k) >= Len(s.frames[k].env)
<1>1. Len(s.frames[k].env) \in Nat
  BY ConfigIs
<1>2. k < Len(s.frames) => Len(crt[s.frames[k + 1].comp].outs) \in Nat
  <2> SUFFICES ASSUME k < Len(s.frames) PROVE Len(crt[s.frames[k + 1].comp].outs) \in Nat
    OBVIOUS
  <2>1. k + 1 \in 1 .. Len(s.frames)
    BY ConfigIs
  <2>2. s.frames[k + 1].comp \in 1 .. Len(crt)
    BY <2>1, ConfigIs
  <2> QED BY <2>2, ComponentIs DEF NameSeq
<1> DEFINE a == Len(s.frames[k].env)
           o == Len(crt[s.frames[k + 1].comp].outs)
<1>3. BoundIn(crt, s.frames, k) = a + (IF k < Len(s.frames) THEN o ELSE 0)
  BY DEF BoundIn
<1>4. a \in Nat /\ (k < Len(s.frames) => o \in Nat)
  BY <1>1, <1>2
<1> HIDE DEF a, o
<1>5. BoundIn(crt, s.frames, k) \in Nat /\ BoundIn(crt, s.frames, k) >= a
  BY <1>3, <1>4
<1> QED BY <1>5 DEF a

(* A frame that is left alone, under a frame of the same component.        *)
LEMMA StackedUnder ==
  ASSUME NEW crt \in Circuits, NEW s \in Config(crt), NEW t \in Config(crt), NEW k,
         k \in 1 .. Len(s.frames), k < Len(s.frames), k < Len(t.frames),
         t.frames[k] = s.frames[k], t.frames[k + 1].comp = s.frames[k + 1].comp,
         Alike(crt, s, t, k), Stacked(crt, s, k)
  PROVE  Stacked(crt, t, k)
<1>1. BoundIn(crt, t.frames, k) = BoundIn(crt, s.frames, k)
  BY DEF BoundIn
<1> DEFINE b == BoundIn(crt, s.frames, k)
           q == Len(s.frames[k].credits)
<1>2. b \in Nat /\ q \in Nat
  BY BoundNat, ConfigIs, FrameIs
<1> HIDE DEF b, q
<1>3. \A i \in 1 .. q : b + i + 1 \in Nat
  BY <1>2
<1>4. \A i \in 1 .. q : Coming(crt, s, k, b + i + 1) = Coming(crt, t, k, b + i + 1)
  BY <1>3 DEF Alike
<1> QED BY <1>1, <1>4, StackedSame DEF b, q

(* The top frame moves on to its next instruction.                         *)
Moved(crt, s, t, n) ==
  /\ n \in Nat \ {0} /\ Len(s.frames) = n /\ Len(t.frames) = n
  /\ s.decoded = t.decoded /\ s.inputs = t.inputs
  /\ \A k \in 1 .. n : k # n => t.frames[k] = s.frames[k]
  /\ t.frames[n].comp = s.frames[n].comp /\ t.frames[n].pc = s.frames[n].pc + 1
  /\ s.frames[n].pc \in 1 .. Len(crt[s.frames[n].comp].body)

(* When the top frame moves on, its instruction's reads are behind it, and *)
(* nothing changes for the frames under it.                                *)
LEMMA TopMoves ==
  ASSUME NEW crt \in Circuits, NEW s \in Config(crt), NEW t \in Config(crt), NEW n, Moved(crt, s, t, n)
  PROVE  LET ns == Operands(crt[s.frames[n].comp].body[s.frames[n].pc])
         IN  /\ \A k \in 1 .. n : k # n => Alike(crt, s, t, k)
             /\ \A l \in Nat : Coming(crt, s, n, l) = Coming(crt, t, n, l) + Occurrences(ns, l)
<1> DEFINE c == crt[s.frames[n].comp]
           pc == s.frames[n].pc
           ns == Operands(c.body[pc])
           b == NextName(s.frames, n - 1)
           d == Shift(Left(crt, s)[n - 1], b)
<1>1. /\ n \in Nat \ {0} /\ Len(s.frames) = n /\ Len(t.frames) = n
      /\ s.decoded = t.decoded /\ s.inputs = t.inputs
      /\ \A k \in 1 .. n : k # n => t.frames[k] = s.frames[k]
      /\ t.frames[n].comp = s.frames[n].comp /\ t.frames[n].pc = pc + 1
      /\ pc \in 1 .. Len(c.body)
  BY DEF Moved
<1>2. n - 1 \in Nat /\ n - 1 <= n /\ n \in 1 .. n
      /\ \A k \in 1 .. n - 1 : k \in 1 .. n /\ k # n
  BY <1>1
<1>3. \A k \in 1 .. n - 1 : s.frames[k] = t.frames[k]
  BY <1>1, <1>2
<1>4. \A k \in 1 .. n - 1 : Alike(crt, s, t, k)
  <2>1. \A i \in 1 .. n - 1 : s.frames[i].comp = t.frames[i].comp /\ s.frames[i].pc = t.frames[i].pc
    BY <1>3
  <2>2. \A i \in 1 .. n - 1 - 1 : Len(s.frames[i].env) = Len(t.frames[i].env)
    <3>1. \A i \in 1 .. n - 1 - 1 : i \in 1 .. n - 1
      BY <1>2
    <3> QED BY <1>3, <3>1
  <2> QED BY <1>1, <1>2, <2>1, <2>2, AlikeBelow
<1>5. \A k \in 1 .. n : k # n => k \in 1 .. n - 1
  BY <1>1
<1>6. Left(crt, s)[n - 1] = Left(crt, t)[n - 1]
  <2> DEFINE fs == s.frames
             gs == t.frames
             e == n - 1
  <2>1. \A i \in 1 .. e : fs[i].comp = gs[i].comp /\ fs[i].pc = gs[i].pc
    BY <1>3
  <2>2. \A i \in 1 .. e - 1 : Len(fs[i].env) = Len(gs[i].env)
    <3>1. \A i \in 1 .. e - 1 : i \in 1 .. e
      BY <1>2
    <3> QED BY <1>3, <3>1
  <2>3. e \in Nat /\ e <= Len(fs) /\ e <= Len(gs) /\ Len(fs) \in Nat /\ Len(gs) \in Nat /\ e \in 0 .. e
    BY <1>1, <1>2
  <2>4. Left(crt, s) = Remaining(crt, fs, s.decoded) /\ Left(crt, t) = Remaining(crt, gs, s.decoded)
    BY <1>1 DEF Left
  <2> HIDE DEF fs, gs, e
  <2>5. Remaining(crt, fs, s.decoded)[e] = Remaining(crt, gs, s.decoded)[e]
    BY <2>1, <2>2, <2>3, RemainingSame
  <2> QED BY <2>4, <2>5 DEF e
<1>7. NextName(t.frames, n - 1) = b
  <2>1. CASE n - 1 = 0
    BY <2>1 DEF NextName
  <2>2. CASE n - 1 # 0
    <3>1. n - 1 \in 1 .. n - 1
      BY <1>2, <2>2
    <3> QED BY <1>3, <2>2, <3>1 DEF NextName
  <2> QED BY <2>1, <2>2
<1>8. \A l \in Nat : Reads(c.body, pc, l) = Occurrences(ns, l) + Reads(c.body, pc + 1, l)
                     /\ Reads(c.body, pc + 1, l) \in Nat
  <2>1. s.frames[n].comp \in 1 .. Len(crt) /\ pc \in Nat
    <3>1. n \in 1 .. Len(s.frames)
      BY <1>1
    <3> QED BY <3>1, ConfigIs
  <2>2. pc + 1 \in Nat
    BY <2>1
  <2> QED BY ZenonT(60), <1>1, <2>1, <2>2, ReadsAre
<1>9. /\ \A l \in Nat : Left(crt, s)[n][l] = Reads(c.body, pc, l) + Weighed(c.outs, l, d)
      /\ \A l \in Nat : Weighed(c.outs, l, d) \in Nat
  BY <1>1, <1>2, LeftIs
<1>10. \A l \in Nat : Left(crt, t)[n][l] = Reads(c.body, pc + 1, l) + Weighed(c.outs, l, d)
  <2> DEFINE g == Shift(Left(crt, t)[n - 1], NextName(t.frames, n - 1))
             h == t.frames[n]
  <2>1. n \in 1 .. Len(t.frames)
    BY <1>1, <1>2
  <2>2. \A l \in Nat : Left(crt, t)[n][l] = Reads(crt[h.comp].body, h.pc, l) + Weighed(crt[h.comp].outs, l, g)
    BY <2>1, LeftIs
  <2>3. g = d
    BY <1>6, <1>7
  <2>4. h.comp = s.frames[n].comp /\ h.pc = pc + 1
    BY <1>1
  <2> HIDE DEF g, h, d, pc
  <2> QED BY <2>2, <2>3, <2>4
<1> HIDE DEF d, c, pc, ns
<1>11. \A l \in Nat : Occurrences(ns, l) \in Nat
  <2>1. c.body[pc] \in Instruction
    <3>1. s.frames[n].comp \in 1 .. Len(crt)
      BY <1>1, <1>2, ConfigIs
    <3>2. c.body \in Seq(Instruction)
      BY <3>1, ComponentIs DEF c
    <3> QED BY <1>1, <3>2
  <2> QED BY <2>1, OperandsAre, OccurrencesIs DEF ns, NameSeq
<1>12. \A l \in Nat : Left(crt, s)[n][l] = Left(crt, t)[n][l] + Occurrences(ns, l)
                      /\ Left(crt, t)[n][l] \in Nat
  <2> SUFFICES ASSUME NEW l \in Nat
               PROVE  Left(crt, s)[n][l] = Left(crt, t)[n][l] + Occurrences(ns, l)
                      /\ Left(crt, t)[n][l] \in Nat
    OBVIOUS
  <2> DEFINE x == Reads(c.body, pc + 1, l)
             y == Weighed(c.outs, l, d)
             o == Occurrences(ns, l)
  <2>1. x \in Nat /\ y \in Nat /\ o \in Nat /\ Left(crt, s)[n][l] = o + x + y /\ Left(crt, t)[n][l] = x + y
    BY <1>8, <1>9, <1>10, <1>11
  <2> HIDE DEF x, y, o
  <2> QED BY <2>1 DEF o
<1>13. \A l \in Nat : Coming(crt, s, n, l) = Coming(crt, t, n, l) + Occurrences(ns, l)
  <2> SUFFICES ASSUME NEW l \in Nat
               PROVE  Coming(crt, s, n, l) = Coming(crt, t, n, l) + Occurrences(ns, l)
    OBVIOUS
  <2> DEFINE i == IF n = 1 /\ l - FirstMock + 1 \in s.inputs THEN 1 ELSE 0
             x == Left(crt, t)[n][l]
             o == Occurrences(ns, l)
  <2>1. Coming(crt, s, n, l) = Left(crt, s)[n][l] + i /\ Coming(crt, t, n, l) = x + i
    BY <1>1 DEF Coming
  <2>2. x \in Nat /\ o \in Nat /\ i \in Nat /\ Left(crt, s)[n][l] = x + o
    BY <1>11, <1>12
  <2> HIDE DEF i, x, o
  <2>3. Coming(crt, s, n, l) = Coming(crt, t, n, l) + o
    BY <2>1, <2>2
  <2> QED BY <2>3 DEF o
<1> QED BY <1>4, <1>5, <1>13 DEF c, pc, ns

(* A step that changes neither credits nor configuration.                  *)
LEMMA ExactSame ==
  ASSUME Exact, ~panicked, circuit' = circuit, Now' = Now,
         ~panicked' => \A w \in Keys : Credit(store', w) = Credit(store, w)
  PROVE  Exact'
BY DEF Exact, AllPaid

(* A step that changes no part of the configuration.                       *)
LEMMA NowSame ==
  ASSUME frames' = frames, Decoded' = Decoded, \A p \in Nat : Uncollected(p)' <=> Uncollected(p)
  PROVE  Now' = Now
BY DEF Now

(* Feeding an input keeps the counts exact.                                *)
LEMMA EncodeExact == ASSUME Structure, Exact, EncodeInput PROVE Exact'
<1>1. Turn("encode", "collect", NInputs) /\ UNCHANGED <<circuit, input, frames, pool, output>>
  BY DEF EncodeInput
<1>2. NInputs \in Nat
  BY RootIs DEF Structure
<1>3. /\ cursor \in 1 .. NInputs /\ phase = "encode" /\ ~panicked
      /\ \/ cursor' = 1 /\ phase' = "collect"
         \/ phase' = "encode"
  BY <1>1, <1>2, TurnIs DEF Turn
<1> DEFINE m == Feed(Start, Top.env[cursor], input[cursor])
<1>4. Settle(m)
  BY DEF EncodeInput
<1>5. m \in Machine /\ (m.ok => \A w \in Keys : Credit(m.store, w) = Credit(store, w))
  <2>1. input[cursor] \in Data
    BY <1>3, CircuitsAssumption DEF Structure, Types
  <2>2. Start \in Machine /\ Start.store = store
    BY StartIs DEF Structure, Types
  <2>3. Accessed(Start, m, Top.env[cursor], 0, 0)
    BY <2>1, <2>2, FeedIs
  <2> HIDE DEF m
  <2>4. m \in Machine
    BY <2>3 DEF Accessed
  <2>5. ASSUME m.ok, NEW w \in Keys PROVE Credit(m.store, w) = Credit(store, w)
    <3>1. Credit(m.store, w) + 0 = Credit(store, w) + 0
      BY <2>2, <2>3, <2>5 DEF Accessed
    <3>2. Credit(m.store, w) \in Nat /\ Credit(store, w) \in Nat
      BY <2>2, <2>4, MachineIs
    <3> QED BY <3>1, <3>2
  <2> QED BY <2>4, <2>5
<1>6. ~panicked' => \A w \in Keys : Credit(store', w) = Credit(store, w)
  <2> HIDE DEF m
  <2> QED BY <1>4, <1>5, SettleIs
<1>7. NInputs' = NInputs
  BY <1>1 DEF NInputs, Root
<1>8. Decoded' = Decoded
  BY <1>3 DEF Decoded
<1>9. \A p \in Nat : Uncollected(p)' <=> Uncollected(p)
  <2> SUFFICES ASSUME NEW p \in Nat PROVE Uncollected(p)' <=> Uncollected(p)
    OBVIOUS
  <2>1. p \in 1 .. NInputs => p >= 1
    OBVIOUS
  <2> QED BY <1>3, <1>7, <2>1 DEF Uncollected
<1> QED BY <1>1, <1>3, <1>6, <1>8, <1>9, NowSame, ExactSame

(* So does the end of the root's closure.                                  *)
LEMMA FinishExact == ASSUME Structure, Exact, RunFinish PROVE Exact'
<1>1. /\ phase = "run" /\ phase' \in {"decode", "done"} /\ ~panicked
      /\ phase' = "done" => circuit[Root].outs = <<>>
      /\ UNCHANGED <<circuit, input, cursor, store, frames, pool, output, panicked>>
  BY DEF RunFinish
<1>2. cursor = 1
  BY <1>1 DEF Structure, Control
<1>3. Decoded' = Decoded
  BY <1>1, <1>2 DEF Decoded, Root
<1>4. \A p \in Nat : Uncollected(p)' <=> Uncollected(p)
  BY <1>1 DEF Uncollected
<1> QED BY <1>1, <1>3, <1>4, NowSame, ExactSame

(* Occurrences in a sequence of one.                                       *)
LEMMA OccursOne ==
  ASSUME NEW x, NEW y
  PROVE  /\ Occurrences(<<x>>, y) = IF y = x THEN 1 ELSE 0
         /\ DOMAIN <<x>> = 1 .. 1 /\ <<x>>[1] = x
<1>1. DOMAIN <<x>> = 1 .. One /\ <<x>>[One] = x
  BY DEF One
<1>2. Occurrences(<<x>>, y) = Weighed(<<x>>, y, AllOne)
  BY <1>1, OneIs, OccurrencesIs
<1>3. AllOne[One] = 1
  BY OneIs DEF AllOne
<1> QED BY <1>1, <1>2, <1>3, OneIs, WeighedOne DEF One

(* The counters on the stacks are for wires to be created: a read of bound *)
(* names leaves them right.                                                *)
LEMMA ReadOffStacked ==
  ASSUME NEW crt \in Circuits, NEW s \in Config(crt), NEW t \in Config(crt),
         NEW n, NEW ns, NEW r, ReadOff(crt, s, t, n, ns, r), AllStacked(crt, s),
         t.frames[n].credits = s.frames[n].credits
  PROVE  AllStacked(crt, t)
<1> DEFINE m == Len(s.frames[n].env)
<1>1. /\ n \in Nat \ {0} /\ Len(s.frames) = n /\ Len(t.frames) = n
      /\ \A k \in 1 .. n : k # n => t.frames[k] = s.frames[k] /\ Alike(crt, s, t, k)
      /\ t.frames[n].comp = s.frames[n].comp /\ t.frames[n].env = s.frames[n].env
      /\ t.frames[n].credits = s.frames[n].credits
      /\ r \in Nat /\ DOMAIN ns = 1 .. r /\ \A j \in 1 .. r : ns[j] \in 0 .. m + 1
      /\ \A l \in Nat : Coming(crt, s, n, l) = Coming(crt, t, n, l) + Occurrences(ns, l)
  BY DEF ReadOff, Within
<1>2. n \in 1 .. n /\ n \in Nat /\ n \in 1 .. Len(s.frames)
  BY <1>1
<1>3. m \in Nat
  BY <1>2, ConfigIs
<1>4. \A k \in 1 .. n : t.frames[k].comp = s.frames[k].comp
  BY <1>1
<1>5. Stacked(crt, t, n)
  <2> DEFINE q == Len(s.frames[n].credits)
             b == BoundIn(crt, s.frames, n)
  <2>1. b = m /\ BoundIn(crt, t.frames, n) = m
    BY <1>1, <1>2, <1>3, TopBound
  <2>2. ASSUME NEW i \in 1 .. q
        PROVE  Coming(crt, s, n, b + i + 1) = Coming(crt, t, n, b + i + 1)
    <3> DEFINE l == m + i + 1
    <3>1. q \in Nat
      BY <1>2, ConfigIs, FrameIs
    <3> HIDE DEF q, b, m
    <3>2. l \in Nat /\ \A j \in 1 .. r : ns[j] # l
      BY <1>1, <1>3, <3>1
    <3> HIDE DEF l
    <3>3. Occurrences(ns, l) = 0
      BY <1>1, <3>2, OccursNot
    <3>4. Coming(crt, t, n, l) \in Nat /\ Coming(crt, s, n, l) = Coming(crt, t, n, l) + 0
      <4>1. n \in 1 .. Len(t.frames)
        BY <1>1, <1>2
      <4> QED BY <1>1, <3>2, <3>3, <4>1, ComingNat
    <3>5. Coming(crt, s, n, l) = Coming(crt, t, n, l)
      BY <3>4
    <3> QED BY <2>1, <3>5 DEF l
  <2>3. Stacked(crt, s, n)
    BY <1>1, <1>2 DEF AllStacked
  <2> HIDE DEF m
  <2> QED BY <1>1, <2>1, <2>2, <2>3, StackedSame
<1>6. \A k \in 1 .. n : k # n => Stacked(crt, t, k)
  <2> SUFFICES ASSUME NEW k \in 1 .. n, k # n PROVE Stacked(crt, t, k)
    OBVIOUS
  <2>1. k < Len(s.frames) /\ k < Len(t.frames) /\ k + 1 \in 1 .. n /\ k \in 1 .. Len(s.frames)
    BY <1>1
  <2>2. t.frames[k] = s.frames[k] /\ t.frames[k + 1].comp = s.frames[k + 1].comp /\ Alike(crt, s, t, k)
    BY <1>1, <1>4, <2>1
  <2>3. Stacked(crt, s, k)
    BY <2>1 DEF AllStacked
  <2> QED BY <2>1, <2>2, <2>3, StackedUnder
<1> QED BY <1>1, <1>5, <1>6 DEF AllStacked

(* A step that reads names of the top frame: the storage gives them up.    *)
LEMMA ReadExact ==
  ASSUME Structure, Exact, ~panicked, circuit' = circuit, Now' \in Config(circuit),
         NEW n, NEW ns, NEW r, ReadOff(circuit, Now, Now', n, ns, r),
         Now'.frames[n].credits = Now.frames[n].credits,
         ~panicked' => \A w \in Keys :
            Credit(store', w) \in Nat /\
            Credit(store', w) + Occurrences(Reals(Now.frames[n].env, ns), w) = Credit(store, w)
  PROVE  Exact'
<1> SUFFICES ASSUME ~panicked'
             PROVE  AllStacked(circuit, Now') /\ AllPaid(circuit, Now', store')
  BY DEF Exact
<1> DEFINE s == Now
           t == Now'
<1>1. circuit \in Circuits /\ s \in Config(circuit)
  BY NowIs DEF Structure, Types
<1>2. AllStacked(circuit, s) /\ AllPaid(circuit, s, store)
  BY DEF Exact
<1>3. t \in Config(circuit) /\ ReadOff(circuit, s, t, n, ns, r) /\ t.frames[n].credits = s.frames[n].credits
  OBVIOUS
<1>4. \A w \in Keys :
        Credit(store', w) \in Nat /\ Credit(store', w) + Occurrences(Reals(s.frames[n].env, ns), w) = Credit(store, w)
  OBVIOUS
<1> HIDE DEF s, t
<1>5. AllStacked(circuit, t)
  BY <1>1, <1>2, <1>3, ReadOffStacked
<1>6. AllPaid(circuit, t, store')
  <2> SUFFICES ASSUME NEW w \in Keys PROVE Credit(store', w) = Owing(circuit, t, w)
    BY DEF AllPaid
  <2> DEFINE o == Occurrences(Reals(s.frames[n].env, ns), w)
             x == Owing(circuit, t, w)
             c == Credit(store', w)
  <2>1. Owing(circuit, s, w) = x + o /\ o \in Nat
    BY <1>1, <1>3, TopReads
  <2>2. x \in Nat
    BY <1>1, <1>3, OwedNat
  <2>3. c \in Nat /\ c + o = Owing(circuit, s, w)
    BY <1>2, <1>4 DEF AllPaid
  <2> HIDE DEF o, x, c
  <2>4. c = x
    BY <2>1, <2>2, <2>3
  <2> QED BY <2>4 DEF c, x
<1> QED BY <1>5, <1>6 DEF t

(* A phase in which only the root is there.                                *)
LEMMA RootAlone ==
  ASSUME Structure, phase \notin {"metadata", "run"}
  PROVE  /\ Len(frames) = 1 /\ Top = frames[1] /\ Top.comp = Root /\ 1 \in 1 .. Len(frames)
         /\ Top \in Frame(circuit) /\ Top.env \in Seq(Wire) /\ Len(Top.env) \in Nat
         /\ Now.frames[1] = Top /\ Now.frames = frames
<1>1. phase # "metadata" /\ phase # "run"
  OBVIOUS
<1>2. Len(frames) = 1 /\ Top = frames[1] /\ Top.comp = Root
  BY <1>1, TopIs
<1>3. Top \in Frame(circuit) /\ Top.env \in Seq(Wire) /\ Len(Top.env) \in Nat
  BY <1>1, TopIs
<1>4. Now.frames = frames
  BY NowIs
<1> QED BY <1>2, <1>3, <1>4

(* The same as a read of the top frame's.                                 *)
LEMMA OneReadOff ==
  ASSUME Structure, Structure', circuit' = circuit, frames' = frames,
         phase \notin {"metadata", "run"},
         NEW l \in 0 .. Len(Top.env) + 1,
         \A i \in Nat : Coming(circuit, Now, 1, i)
                          = Coming(circuit, Now', 1, i) + (IF i = l THEN 1 ELSE 0)
  PROVE  /\ ReadOff(circuit, Now, Now', 1, <<l>>, 1)
         /\ Now' \in Config(circuit) /\ Now.frames[1] = Top /\ Now'.frames[1] = Top
         /\ Reals(Top.env, <<l>>) = <<Real(Top.env, l)>>
<1> DEFINE ns == <<l>>
           w == Real(Top.env, l)
<1>1. /\ Len(frames) = 1 /\ Now.frames[1] = Top /\ Now.frames = frames
      /\ Now' \in Config(circuit) /\ Now'.frames = frames
  BY RootAlone, NextNow
<1>2. DOMAIN ns = 1 .. 1 /\ ns[1] = l /\ \A i : Occurrences(ns, i) = IF i = l THEN 1 ELSE 0
  BY OccursOne
<1>3. Reals(Top.env, ns) = <<w>>
  BY DEF Reals
<1> HIDE DEF ns, w
<1>4. Within(ns, 1, Len(Top.env))
  BY <1>2 DEF Within
<1>5. \A i \in Nat : Coming(circuit, Now, 1, i) = Coming(circuit, Now', 1, i) + Occurrences(ns, i)
  BY <1>2
<1>6. ReadOff(circuit, Now, Now', 1, ns, 1)
  <2>1. \A k \in 1 .. 1 : k = 1
    OBVIOUS
  <2> QED BY <1>1, <1>4, <1>5, <2>1 DEF ReadOff
<1> QED BY <1>1, <1>3, <1>6 DEF ns, w

(* One read of wire Real(Top.env, l), while the root is alone.             *)
LEMMA OneReadExact ==
  ASSUME Structure, Structure', Exact, ~panicked, circuit' = circuit, frames' = frames,
         phase \notin {"metadata", "run"},
         NEW l \in 0 .. Len(Top.env) + 1,
         \A i \in Nat : Coming(circuit, Now, 1, i)
                          = Coming(circuit, Now', 1, i) + (IF i = l THEN 1 ELSE 0),
         Settle(Lookup(Start, Real(Top.env, l)))
  PROVE  Exact'
<1> DEFINE ns == <<l>>
           w == Real(Top.env, l)
           m == Lookup(Start, w)
<1>1. /\ Now' \in Config(circuit) /\ Now.frames[1] = Top /\ Now'.frames[1] = Top
      /\ ReadOff(circuit, Now, Now', 1, ns, 1) /\ Reals(Top.env, ns) = <<w>>
  BY OneReadOff
<1> HIDE DEF ns, w, m
<1>2. ~panicked' => \A k \in Keys :
        Credit(store', k) \in Nat /\ Credit(store', k) + Occurrences(<<w>>, k) = Credit(store, k)
  <2> SUFFICES ASSUME ~panicked', NEW k \in Keys
               PROVE  Credit(store', k) \in Nat
                      /\ Credit(store', k) + Occurrences(<<w>>, k) = Credit(store, k)
    OBVIOUS
  <2>1. Start \in Machine /\ Start.store = store
    BY StartIs DEF Structure, Types
  <2>2. Accessed(Start, m, w, 1, 0)
    BY <2>1, LookupIs DEF m
  <2>3. m \in Machine
    BY <2>2 DEF Accessed
  <2>4. store' = m.store /\ m.ok
    BY <2>3, SettleIs DEF m, w
  <2>5. Credit(m.store, k) + (IF k = w THEN 1 ELSE 0) = Credit(store, k) + (IF k = w THEN 0 ELSE 0)
    BY <2>1, <2>2, <2>4 DEF Accessed
  <2>6. Credit(m.store, k) \in Nat /\ Credit(store, k) \in Nat
    BY <2>1, <2>3, MachineIs
  <2>7. Occurrences(<<w>>, k) = IF k = w THEN 1 ELSE 0
    BY OccursOne
  <2> QED BY <2>4, <2>5, <2>6, <2>7
<1>3. Now'.frames[1].credits = Now.frames[1].credits
  BY <1>1
<1> QED BY <1>1, <1>2, <1>3, ReadExact

(* A name of the root frame is read while none of the closures runs.       *)
ReadsOne(l) ==
  /\ ~panicked /\ circuit' = circuit /\ frames' = frames /\ phase \notin {"metadata", "run"}
  /\ l \in 0 .. Len(Top.env) + 1
  /\ \A i \in Nat : Coming(circuit, Now, 1, i)
                      = Coming(circuit, Now', 1, i) + (IF i = l THEN 1 ELSE 0)
  /\ Settle(Lookup(Start, Real(Top.env, l)))

(* The read with which run_streaming collects an input.                    *)
LEMMA CollectReads == ASSUME Structure, Structure', CollectInput PROVE ReadsOne(cursor + 1)
<1>1. Turn("collect", "run", NInputs) /\ UNCHANGED <<circuit, input, frames, pool, output>>
      /\ Settle(Lookup(Start, Top.env[cursor]))
  BY DEF CollectInput
<1>2. NInputs \in Nat
  BY RootIs DEF Structure
<1>3. /\ cursor \in 1 .. NInputs /\ phase = "collect" /\ ~panicked
      /\ \/ cursor = NInputs /\ cursor' = 1 /\ phase' = "run"
         \/ cursor < NInputs /\ cursor' = cursor + 1 /\ phase' = "collect"
  BY <1>1, <1>2, TurnIs DEF Turn
<1>4. Len(Top.env) = NInputs
  <2>1. Unallocated = 0 /\ Top.pc = 1
    <3>1. frames[1].pc = 1 /\ Top = frames[1]
      BY <1>3, RootAlone DEF Structure, Control
    <3> QED BY <1>3, <3>1 DEF Unallocated
  <2> DEFINE a == CreatedBy(circuit, circuit[Top.comp].body, 1)
  <2>2. a \in Nat /\ Len(Top.env) \in Nat /\ Top.comp = Root
        /\ Len(Top.env) + 0 + a = circuit[Top.comp].nin + a
    BY <1>3, <2>1, TopIs
  <2> HIDE DEF a
  <2> QED BY <1>2, <2>2 DEF NInputs
<1> DEFINE l == cursor + 1
<1>5. Real(Top.env, l) = Top.env[cursor]
  <2>1. l \notin Constants /\ l - FirstMock + 1 = cursor
    BY <1>3 DEF Constants, FALSE_WIRE, TRUE_WIRE, FirstMock
  <2> QED BY <2>1 DEF Real
<1>6. Decoded' = Decoded
  BY <1>3 DEF Decoded
<1>7. \A p \in Nat : Uncollected(p) <=> Uncollected(p)' \/ p = cursor
  <2>1. NInputs' = NInputs
    BY <1>1 DEF NInputs, Root
  <2> SUFFICES ASSUME NEW p \in Nat PROVE Uncollected(p) <=> Uncollected(p)' \/ p = cursor
    OBVIOUS
  <2> QED BY <1>2, <1>3, <2>1 DEF Uncollected
<1>8. \A p \in Nat : p = cursor => ~Uncollected(p)'
  <2>1. NInputs' = NInputs
    BY <1>1 DEF NInputs, Root
  <2> SUFFICES ASSUME NEW p \in Nat, p = cursor PROVE ~Uncollected(p)'
    OBVIOUS
  <2> QED BY <1>2, <1>3, <2>1 DEF Uncollected
<1>9. \A i \in Nat : Coming(circuit, Now, 1, i)
                       = Coming(circuit, Now', 1, i) + (IF i = l THEN 1 ELSE 0)
  <2> SUFFICES ASSUME NEW i \in Nat
               PROVE  Coming(circuit, Now, 1, i)
                        = Coming(circuit, Now', 1, i) + (IF i = l THEN 1 ELSE 0)
    OBVIOUS
  <2> DEFINE p == i - FirstMock + 1
             x == Left(circuit, Now)[1][i]
  <2>1. /\ Now.frames = frames /\ Now.decoded = Decoded /\ Now.inputs = {q \in Nat : Uncollected(q)}
        /\ Now'.frames = frames /\ Now'.decoded = Decoded
        /\ Now'.inputs = {q \in Nat : Uncollected(q)'}
    BY <1>1, <1>6, NowIs, NextNow
  <2>2. Left(circuit, Now) = Left(circuit, Now')
    BY <2>1 DEF Left
  <2>3. p \in Now.inputs <=> p \in Now'.inputs \/ p = cursor
    <3>1. cursor \in Nat
      BY <1>3
    <3> HIDE DEF p
    <3> QED BY <1>7, <2>1, <3>1
  <2>4. cursor \notin Now'.inputs
    BY <1>8, <2>1
  <2>5. Coming(circuit, Now, 1, i) = x + (IF p \in Now.inputs THEN 1 ELSE 0)
        /\ Coming(circuit, Now', 1, i) = x + (IF p \in Now'.inputs THEN 1 ELSE 0)
    BY <2>2 DEF Coming
  <2>6. p = cursor <=> i = l
    BY <1>3 DEF FirstMock
  <2>7. x \in Nat
    <3>1. Coming(circuit, Now, 1, i) \in Nat
      <4>1. 1 \in 1 .. Len(Now.frames) /\ Now \in Config(circuit) /\ circuit \in Circuits
        BY <1>3, RootAlone, NowIs DEF Structure, Types
      <4> QED BY <4>1, ComingNat
    <3>2. 1 \in 0 .. Len(frames) /\ frames \in Seq(Frame(circuit)) /\ Decoded \in Nat /\ circuit \in Circuits
      <4>1. Len(frames) = 1
        BY <1>3, RootAlone
      <4>2. Decoded \in Nat
        BY <1>3 DEF Decoded
      <4> QED BY <4>1, <4>2 DEF Structure, Types
    <3> QED BY <2>1, <3>2, RemainingType DEF Left
  <2> HIDE DEF x, p, l
  <2> QED BY <2>3, <2>4, <2>5, <2>6, <2>7
<1>10. l \in 0 .. Len(Top.env) + 1
  BY <1>2, <1>3, <1>4
<1> HIDE DEF l
<1>11. ReadsOne(l)
  BY <1>1, <1>3, <1>5, <1>9, <1>10 DEF ReadsOne
<1> QED BY <1>11 DEF l

(* It was counted.                                                         *)
LEMMA CollectExact == ASSUME Structure, Structure', Exact, CollectInput PROVE Exact'
BY CollectReads, OneReadExact DEF ReadsOne

(* The outputs from position c on.                                         *)
FromOn(d, n, c) == \A j \in 1 .. n : d[j] = IF j >= c THEN 1 ELSE 0

(* One output less to decode.                                              *)
LEMMA OneLess ==
  ASSUME NEW n \in Nat, NEW outs, DOMAIN outs = 1 .. n, NEW c \in 1 .. n,
         NEW d, FromOn(d, n, c), NEW e, FromOn(e, n, c + 1), NEW v
  PROVE  Weighed(outs, v, d) = Weighed(outs, v, e) + (IF v = outs[c] THEN 1 ELSE 0)
<1> DEFINE f == Weights(outs, v, d)
           g == Weights(outs, v, e)
<1>1. Counts(d, n) /\ Counts(e, n)
  BY DEF FromOn, Counts
<1>2. f \in Nums(n) /\ \A j \in 1 .. n : f[j] = IF outs[j] = v THEN d[j] ELSE 0
  BY <1>1, WeightsAre
<1>3. g \in Nums(n) /\ \A j \in 1 .. n : g[j] = IF outs[j] = v THEN e[j] ELSE 0
  BY <1>1, WeightsAre
<1> HIDE DEF f, g
<1>4. \A j \in 1 .. n : j # c => f[j] = g[j]
  BY <1>2, <1>3 DEF FromOn
<1>5. g[c] = 0 /\ f[c] = IF v = outs[c] THEN 1 ELSE 0
  BY <1>2, <1>3 DEF FromOn
<1>6. Total[f] + g[c] = Total[g] + f[c]
  BY <1>2, <1>3, <1>4, TotalChange
<1>7. Total[f] \in Nat /\ Total[g] \in Nat
  BY <1>2, <1>3, TotalNat
<1>8. Total[f] = Total[g] + (IF v = outs[c] THEN 1 ELSE 0)
  BY <1>5, <1>6, <1>7
<1> QED BY <1>8 DEF Weighed, f, g

(* What the decoding still reads.                                          *)
LEMMA LaterFrom ==
  ASSUME NEW d \in Nat, NEW n
  PROVE  FromOn(Shift(Later(d), FirstMock), n, d + 1)
<1> SUFFICES ASSUME NEW j \in 1 .. n
             PROVE  Shift(Later(d), FirstMock)[j] = IF j >= d + 1 THEN 1 ELSE 0
  BY DEF FromOn
<1>1. j \in Nat /\ FirstMock + j - 1 \in Nat
  BY DEF FirstMock
<1>2. Shift(Later(d), FirstMock)[j] = Later(d)[FirstMock + j - 1]
  BY <1>1 DEF Shift
<1>3. Later(d)[FirstMock + j - 1] = IF FirstMock + j - 1 >= FirstMock + d THEN 1 ELSE 0
  BY <1>1 DEF Later
<1>4. FirstMock + j - 1 >= FirstMock + d <=> j >= d + 1
  BY <1>1 DEF FirstMock
<1> QED BY <1>2, <1>3, <1>4

(* The root, and the outputs still to decode.                              *)
RootHas(crt, s, f, b) ==
  LET c == crt[f.comp]
      d == Shift(Later(b), FirstMock)
  IN  /\ Counts(d, Len(c.outs)) /\ FromOn(d, Len(c.outs), b + 1)
      /\ \A l \in Nat :
           /\ Left(crt, s)[1][l] = Reads(c.body, f.pc, l) + Weighed(c.outs, l, d)
           /\ Reads(c.body, f.pc, l) \in Nat /\ Weighed(c.outs, l, d) \in Nat

(* What is left to the names of a root that is alone.                      *)
LEMMA RootLeft ==
  ASSUME NEW crt \in Circuits, NEW s \in Config(crt), Len(s.frames) = 1
  PROVE  RootHas(crt, s, s.frames[1], s.decoded)
<1> DEFINE b == 0
           a == 1
<1>1. a \in 1 .. Len(s.frames) /\ a - 1 = b /\ s.decoded \in Nat /\ Len(s.frames) \in Nat
  BY ConfigIs
<1>2. NextName(s.frames, b) = FirstMock
  BY DEF NextName
<1>3. Left(crt, s)[b] = Later(s.decoded)
  BY <1>1, RemainingIs DEF Left
<1>4. FromOn(Shift(Later(s.decoded), FirstMock), Len(crt[s.frames[a].comp].outs), s.decoded + 1)
  BY <1>1, LaterFrom
<1>5. Shift(Left(crt, s)[a - 1], NextName(s.frames, a - 1)) = Shift(Later(s.decoded), FirstMock)
  BY <1>1, <1>2, <1>3
<1> HIDE DEF a, b
<1>6. /\ Counts(Shift(Left(crt, s)[a - 1], NextName(s.frames, a - 1)), Len(crt[s.frames[a].comp].outs))
      /\ \A l \in Nat :
           /\ Left(crt, s)[a][l]
                = Reads(crt[s.frames[a].comp].body, s.frames[a].pc, l)
                    + Weighed(crt[s.frames[a].comp].outs, l,
                              Shift(Left(crt, s)[a - 1], NextName(s.frames, a - 1)))
           /\ Reads(crt[s.frames[a].comp].body, s.frames[a].pc, l) \in Nat
           /\ Weighed(crt[s.frames[a].comp].outs, l,
                      Shift(Left(crt, s)[a - 1], NextName(s.frames, a - 1))) \in Nat
  BY <1>1, LeftIs
<1> QED BY <1>4, <1>5, <1>6 DEF a, RootHas

(* The read with which an output is decoded.                               *)
LEMMA DecodeReads == ASSUME Structure, Structure', DecodeOutput PROVE ReadsOne(circuit[Root].outs[cursor])
<1> DEFINE outs == circuit[Root].outs
           n == Len(outs)
           l == outs[cursor]
<1>1. Turn("decode", "done", n) /\ UNCHANGED <<circuit, input, frames, pool>>
      /\ Settle(Lookup(Start, Real(Top.env, l)))
  BY DEF DecodeOutput
<1>2. n \in Nat /\ DOMAIN outs = 1 .. n /\ circuit \in Circuits
  BY RootIs, ComponentIs DEF Structure, Types, NameSeq
<1>3. /\ cursor \in 1 .. n /\ phase = "decode" /\ ~panicked /\ cursor \in Nat /\ cursor - 1 \in Nat
      /\ \/ cursor = n /\ cursor' = 1 /\ phase' = "done"
         \/ cursor < n /\ cursor' = cursor + 1 /\ phase' = "decode"
  <2>1. /\ cursor \in 1 .. n /\ phase = "decode" /\ ~panicked
        /\ \/ cursor = n /\ cursor' = 1 /\ phase' = "done"
           \/ cursor < n /\ cursor' = cursor + 1 /\ phase' = "decode"
    BY <1>1, <1>2, TurnIs DEF Turn
  <2> HIDE DEF n
  <2> QED BY <1>2, <2>1
<1>4. /\ Len(frames) = 1 /\ Top = frames[1] /\ Top.comp = Root
      /\ Now.frames = frames
  BY <1>3, RootAlone
<1>5. l \in 0 .. Len(Top.env) + 1
  <2>1. Finished(Top) /\ Unallocated = 0 /\ phase # "metadata"
    BY <1>3, <1>4 DEF Structure, Control, Finished, CompOf, Unallocated
  <2>2. Within(outs, n, Len(Top.env))
    BY <1>4, <2>1, OutsWithin
  <2> HIDE DEF outs, n
  <2> QED BY <1>3, <2>2 DEF Within
<1>6. Decoded = cursor - 1 /\ Decoded' = cursor
  BY <1>1, <1>3 DEF Decoded, Root
<1>7. /\ Now \in Config(circuit) /\ Now' \in Config(circuit) /\ Now'.frames = frames
      /\ Now.decoded = cursor - 1 /\ Now'.decoded = cursor
      /\ Now.inputs = {} /\ Now'.inputs = {}
  <2>1. \A p \in Nat : ~Uncollected(p) /\ ~Uncollected(p)'
    BY <1>3 DEF Uncollected
  <2> QED BY <1>1, <1>6, <2>1, NowIs, NextNow
<1> DEFINE s == Now
           t == Now'
           c == circuit[Top.comp]
           d == Shift(Later(cursor - 1), FirstMock)
           e == Shift(Later(cursor), FirstMock)
<1>8. /\ FromOn(d, n, cursor) /\ Counts(d, n)
      /\ \A i \in Nat : /\ Left(circuit, s)[1][i] = Reads(c.body, Top.pc, i) + Weighed(outs, i, d)
                        /\ Reads(c.body, Top.pc, i) \in Nat
  <2>1. cursor - 1 + 1 = cursor
    BY <1>3
  <2>2. RootHas(circuit, s, s.frames[1], s.decoded)
    BY <1>2, <1>4, <1>7, RootLeft
  <2>3. RootHas(circuit, s, Top, cursor - 1)
    BY <1>4, <1>7, <2>2
  <2> HIDE DEF s
  <2> QED BY <1>4, <2>1, <2>3 DEF RootHas
<1>9. /\ FromOn(e, n, cursor + 1) /\ Counts(e, n)
      /\ \A i \in Nat : Left(circuit, t)[1][i] = Reads(c.body, Top.pc, i) + Weighed(outs, i, e)
  <2>1. RootHas(circuit, t, t.frames[1], t.decoded)
    BY <1>2, <1>4, <1>7, RootLeft
  <2>2. RootHas(circuit, t, Top, cursor)
    BY <1>4, <1>7, <2>1
  <2> HIDE DEF t
  <2> QED BY <1>4, <2>2 DEF RootHas
<1> HIDE DEF s, t, c, d, e, outs, n, l
<1>10. \A i \in Nat : Coming(circuit, s, 1, i) = Coming(circuit, t, 1, i) + (IF i = l THEN 1 ELSE 0)
  <2> SUFFICES ASSUME NEW i \in Nat
               PROVE  Coming(circuit, s, 1, i) = Coming(circuit, t, 1, i) + (IF i = l THEN 1 ELSE 0)
    OBVIOUS
  <2> DEFINE x == Weighed(outs, i, d)
             y == Weighed(outs, i, e)
             r == Reads(c.body, Top.pc, i)
  <2>1. x = y + (IF i = l THEN 1 ELSE 0)
    <3> DEFINE cu == cursor
    <3>1. n \in Nat /\ DOMAIN outs = 1 .. n /\ cu \in 1 .. n /\ FromOn(d, n, cu) /\ FromOn(e, n, cu + 1)
          /\ l = outs[cu]
      BY <1>2, <1>3, <1>8, <1>9 DEF l
    <3> HIDE DEF cu
    <3> QED BY ONLY <3>1, OneLess
  <2>2. Coming(circuit, s, 1, i) = Left(circuit, s)[1][i] + 0
        /\ Coming(circuit, t, 1, i) = Left(circuit, t)[1][i] + 0
    BY <1>7 DEF Coming, s, t
  <2>3. y \in Nat /\ r \in Nat
    BY <1>2, <1>8, <1>9, WeighedNat
  <2>4. Left(circuit, s)[1][i] = r + x /\ Left(circuit, t)[1][i] = r + y
    BY <1>8, <1>9
  <2> HIDE DEF x, y, r, l
  <2> QED BY <2>1, <2>2, <2>3, <2>4
<1>11. ReadsOne(l)
  BY <1>1, <1>3, <1>4, <1>5, <1>10 DEF ReadsOne, s, t
<1> QED BY <1>11 DEF l, outs

(* It was counted too.                                                     *)
LEMMA DecodeExact == ASSUME Structure, Structure', Exact, DecodeOutput PROVE Exact'
BY DecodeReads, OneReadExact DEF ReadsOne

(* While the closures run, nothing is decoded and every input collected.   *)
LEMMA RunNow ==
  ASSUME Structure, Structure', circuit' = circuit, phase = "run", phase' = "run"
  PROVE  /\ circuit \in Circuits /\ Now \in Config(circuit) /\ Now' \in Config(circuit)
         /\ Now.frames = frames /\ Now'.frames = frames'
         /\ Now.decoded = 0 /\ Now'.decoded = 0 /\ Now.inputs = {} /\ Now'.inputs = {}
<1>1. \A p \in Nat : ~Uncollected(p) /\ ~Uncollected(p)'
  BY DEF Uncollected
<1>2. Decoded = 0 /\ Decoded' = 0
  BY DEF Decoded
<1> QED BY <1>1, <1>2, NowIs, NextNow DEF Structure, Types

(* A frame put in the place of the top one, an instruction further on.     *)
LEMMA RunMoved ==
  ASSUME Structure, NEW op, Running(op), NEW s \in Config(circuit), NEW t \in Config(circuit),
         s.frames = frames, NEW f \in Frame(circuit), t.frames = WithTop(f),
         f.comp = Top.comp, f.pc = Top.pc + 1,
         s.decoded = t.decoded, s.inputs = t.inputs
  PROVE  Moved(circuit, s, t, Len(frames)) /\ t.frames[Len(frames)] = f
<1> DEFINE n == Len(frames)
<1>1. phase = "run" /\ Top.pc \in 1 .. Len(circuit[Top.comp].body)
  BY PendingIs
<1>2. n \in Nat \ {0} /\ n \in 1 .. n /\ Top = frames[n]
  BY <1>1, TopIs
<1>3. /\ Len(WithTop(f)) = n /\ WithTop(f)[n] = f
      /\ \A k \in 1 .. n : k # n => WithTop(f)[k] = frames[k]
  BY <1>1, WithTopIs
<1> QED BY <1>1, <1>2, <1>3 DEF Moved

(* A gate takes the top closure one instruction on.                        *)
LEMMA GateMoves ==
  ASSUME Structure, Structure', RunGate
  PROVE  LET n == Len(frames)
             ns == Operands(Pending(Top))
         IN  /\ circuit \in Circuits /\ Now \in Config(circuit) /\ Now' \in Config(circuit)
             /\ Now.frames = frames /\ Now'.frames = frames'
             /\ n \in Nat \ {0} /\ n \in 1 .. n /\ Top = frames[n]
             /\ Moved(circuit, Now, Now', n) /\ frames'[n] = Advance(Top)
             /\ ReadOff(circuit, Now, Now', n, ns, Len(ns))
             /\ frames'[n].credits = frames[n].credits
<1> DEFINE n == Len(frames)
           ins == Pending(Top)
           ns == Operands(ins)
           r == Len(ns)
           f == Advance(Top)
           s == Now
           t == Now'
<1>1. /\ Running("gate") /\ frames' = WithTop(f)
      /\ UNCHANGED <<circuit, input, phase, cursor, pool, output>>
  BY DEF RunGate
<1>2. /\ phase = "run" /\ ~panicked
      /\ ins = circuit[Top.comp].body[Top.pc]
      /\ Within(ns, r, Len(Top.env)) /\ r \in Nat
  BY <1>1, PendingIs
<1>3. /\ n \in Nat \ {0} /\ Top = frames[n] /\ n \in 1 .. n /\ Top \in Frame(circuit)
  BY <1>2, TopIs
<1>4. f \in Frame(circuit) /\ f.comp = Top.comp /\ f.pc = Top.pc + 1 /\ f.env = Top.env /\ f.credits = Top.credits
  BY <1>3, AdvanceIs
<1>5. /\ circuit \in Circuits /\ s \in Config(circuit) /\ t \in Config(circuit)
      /\ s.frames = frames /\ t.frames = WithTop(f)
      /\ s.decoded = t.decoded /\ s.inputs = t.inputs
  BY <1>1, <1>2, RunNow
<1> HIDE DEF n, f, s, t
<1>6. Moved(circuit, s, t, n) /\ t.frames[n] = f
  BY <1>1, <1>4, <1>5, RunMoved DEF n
<1>7. ReadOff(circuit, s, t, n, ns, r)
  <2>1. /\ \A k \in 1 .. n : k # n => Alike(circuit, s, t, k)
        /\ \A l \in Nat : Coming(circuit, s, n, l) = Coming(circuit, t, n, l) + Occurrences(ns, l)
    <3>1. s.frames[n] = Top
      BY <1>3, <1>5
    <3>2. ns = Operands(circuit[s.frames[n].comp].body[s.frames[n].pc])
      BY <1>2, <3>1
    <3> HIDE DEF ns, ins
    <3> QED BY <1>5, <1>6, <3>2, TopMoves
  <2>2. /\ Len(s.frames) = n /\ Len(t.frames) = n
        /\ \A k \in 1 .. n : k # n => t.frames[k] = s.frames[k]
    BY <1>6 DEF Moved
  <2>3. s.frames[n] = Top
    BY <1>3, <1>5
  <2> HIDE DEF ns, ins, r
  <2> QED BY <1>2, <1>3, <1>4, <1>6, <2>1, <2>2, <2>3 DEF ReadOff
<1> HIDE DEF ns, r
<1> QED BY <1>1, <1>3, <1>4, <1>5, <1>6, <1>7 DEF n, s, t, f, ns, r

(* A gate uses one counted read of each operand.                           *)
LEMMA GateExact == ASSUME Structure, Structure', Exact, RunGate PROVE Exact'
<1> DEFINE n == Len(frames)
           ns == Operands(Pending(Top))
           m == GateMachine
<1>1. Running("gate") /\ Settle(m) /\ circuit' = circuit
  BY DEF RunGate, GateMachine
<1>2. /\ m \in Machine
      /\ m.ok => \A w \in Keys :
           Credit(m.store, w) + Occurrences(Reals(Top.env, ns), w) = Credit(store, w)
  BY <1>1, GateIs
<1>3. /\ Now' \in Config(circuit) /\ Now.frames[n] = Top /\ ReadOff(circuit, Now, Now', n, ns, Len(ns))
      /\ Now'.frames[n].credits = Now.frames[n].credits
  BY GateMoves
<1> HIDE DEF n, ns, m
<1>4. ~panicked' => \A w \in Keys :
        Credit(store', w) \in Nat
        /\ Credit(store', w) + Occurrences(Reals(Now.frames[n].env, ns), w) = Credit(store, w)
  <2>1. store' = m.store /\ (panicked' <=> ~m.ok)
    BY <1>1, <1>2, SettleIs
  <2>2. \A w \in Keys : Credit(m.store, w) \in Nat
    BY <1>2, MachineIs
  <2> QED BY <1>2, <1>3, <2>1, <2>2
<1>5. ~panicked
  BY <1>1 DEF Running
<1> QED BY <1>1, <1>3, <1>4, <1>5, ReadExact

(* From s to t a wire w is issued to the top frame.                        *)
IssuedTo(crt, s, t, n, f, pc, w) ==
  /\ n \in Nat \ {0} /\ Len(s.frames) = n /\ Len(t.frames) = n
  /\ \A k \in 1 .. n : Alike(crt, s, t, k)
  /\ \A k \in 1 .. n : k # n => t.frames[k] = s.frames[k]
  /\ pc \in Nat \ {0} /\ w \in Wire /\ f \in Frame(crt) /\ Len(f.credits) > 0
  /\ s.frames[n] = f /\ t.frames[n] = Issued(f, pc, w)

(* What is issued is one more name of the top frame.                       *)
LEMMA IssuedParts ==
  ASSUME NEW crt \in Circuits, NEW s \in Config(crt), NEW t \in Config(crt),
         NEW n, NEW f, NEW pc, NEW w, IssuedTo(crt, s, t, n, f, pc, w)
  PROVE  LET g == t.frames[n] m == Len(f.env) q == Len(f.credits)
         IN  /\ n \in Nat \ {0} /\ n \in 1 .. n /\ Len(s.frames) = n /\ Len(t.frames) = n
             /\ \A k \in 1 .. n : Alike(crt, s, t, k)
             /\ \A k \in 1 .. n : k # n => t.frames[k] = s.frames[k]
             /\ s.frames[n] = f /\ m \in Nat /\ q \in Nat /\ q > 0
             /\ g.comp = f.comp /\ Len(g.env) = m + 1 /\ g.env[m + 1] = w
             /\ \A j \in 1 .. m : g.env[j] = f.env[j]
             /\ Len(g.credits) = q - 1
             /\ \A j \in 1 .. q - 1 : g.credits[j] = f.credits[j]
             /\ Last(f.credits) = f.credits[q]
BY IssuedIs DEF IssuedTo

(* The counter popped is gone from the stack, the others stay right.       *)
LEMMA IssuedStacked ==
  ASSUME NEW crt \in Circuits, NEW s \in Config(crt), NEW t \in Config(crt),
         NEW n, NEW f, NEW pc, NEW w, IssuedTo(crt, s, t, n, f, pc, w), AllStacked(crt, s)
  PROVE  /\ AllStacked(crt, t)
         /\ Last(f.credits) = Coming(crt, s, n, Len(f.env) + 2)
<1> DEFINE g == t.frames[n]
           m == Len(f.env)
           q == Len(f.credits)
<1>1. /\ n \in Nat \ {0} /\ n \in 1 .. n /\ Len(s.frames) = n /\ Len(t.frames) = n
      /\ \A k \in 1 .. n : Alike(crt, s, t, k)
      /\ \A k \in 1 .. n : k # n => t.frames[k] = s.frames[k]
      /\ s.frames[n] = f /\ m \in Nat /\ q \in Nat /\ q > 0
      /\ g.comp = f.comp /\ Len(g.env) = m + 1
      /\ Len(g.credits) = q - 1
      /\ \A j \in 1 .. q - 1 : g.credits[j] = f.credits[j]
      /\ Last(f.credits) = f.credits[q]
  BY IssuedParts
<1>2. BoundIn(crt, s.frames, n) = m /\ BoundIn(crt, t.frames, n) = m + 1
  <2>1. n \in Nat /\ Len(g.env) \in Nat /\ Len(s.frames[n].env) = m /\ Len(s.frames[n].env) \in Nat
    BY <1>1
  <2> QED BY <1>1, <2>1, TopBound
<1>3. \A i \in 1 .. q : f.credits[q - i + 1] = Coming(crt, s, n, m + i + 1)
  <2>1. Stacked(crt, s, n)
    BY <1>1 DEF AllStacked
  <2> QED BY <1>1, <1>2, <2>1 DEF Stacked
<1> HIDE DEF g, m, q
<1>4. Last(f.credits) = Coming(crt, s, n, m + 2)
  <2>1. 1 \in 1 .. q /\ q - 1 + 1 = q /\ m + 1 + 1 = m + 2
    BY <1>1
  <2>2. f.credits[q - 1 + 1] = Coming(crt, s, n, m + 1 + 1)
    BY <1>3, <2>1
  <2> QED BY <1>1, <2>1, <2>2
<1>5. Stacked(crt, t, n)
  <2>1. ASSUME NEW i \in 1 .. q - 1
        PROVE  g.credits[q - 1 - i + 1] = Coming(crt, t, n, m + 1 + i + 1)
    <3> DEFINE h == i + 1
               l == m + h + 1
    <3>1. h \in 1 .. q /\ q - 1 - i + 1 \in 1 .. q - 1 /\ q - 1 - i + 1 = q - h + 1
          /\ l \in Nat /\ m + 1 + i + 1 = l
      <4>1. q \in Nat /\ m \in Nat /\ i \in 1 .. q - 1
        BY <1>1
      <4> QED BY ONLY <4>1
    <3>2. f.credits[q - h + 1] = Coming(crt, s, n, l)
      BY <1>3, <3>1
    <3>3. Coming(crt, s, n, l) = Coming(crt, t, n, l)
      BY <1>1, <3>1 DEF Alike
    <3>4. g.credits[q - 1 - i + 1] = f.credits[q - 1 - i + 1]
      BY <1>1, <3>1
    <3> HIDE DEF h, l
    <3> QED BY <3>1, <3>2, <3>3, <3>4
  <2> QED BY <1>1, <1>2, <2>1 DEF Stacked, g
<1>6. \A k \in 1 .. n : k # n => Stacked(crt, t, k)
  <2> SUFFICES ASSUME NEW k \in 1 .. n, k # n PROVE Stacked(crt, t, k)
    OBVIOUS
  <2>1. k < Len(s.frames) /\ k < Len(t.frames) /\ k + 1 \in 1 .. n /\ k \in 1 .. Len(s.frames)
    BY <1>1
  <2>2. t.frames[k + 1].comp = s.frames[k + 1].comp
    BY <1>1, <2>1 DEF g
  <2>3. Stacked(crt, s, k) /\ t.frames[k] = s.frames[k] /\ Alike(crt, s, t, k)
    BY <1>1, <2>1 DEF AllStacked
  <2> QED BY <2>1, <2>2, <2>3, StackedUnder
<1> QED BY <1>1, <1>4, <1>5, <1>6 DEF AllStacked, m

(* The slot issued starts with the reads of its new name.                  *)
LEMMA IssuedPays ==
  ASSUME NEW crt \in Circuits, NEW s \in Config(crt), NEW t \in Config(crt),
         NEW n, NEW f, NEW pc, NEW w, IssuedTo(crt, s, t, n, f, pc, w), AllStacked(crt, s)
  PROVE  /\ Last(f.credits) \in Nat
         /\ \A h \in Keys : Owing(crt, t, h)
                              = Owing(crt, s, h) + (IF w = h THEN Last(f.credits) ELSE 0)
<1> DEFINE m == Len(f.env)
           xs == <<w>>
           e == <<Last(f.credits)>>
           g == t.frames[n]
<1>1. /\ n \in Nat \ {0} /\ n \in 1 .. n /\ Len(s.frames) = n /\ Len(t.frames) = n
      /\ \A k \in 1 .. n : Alike(crt, s, t, k)
      /\ \A k \in 1 .. n : k # n => t.frames[k] = s.frames[k]
      /\ s.frames[n] = f /\ m \in Nat
      /\ Len(g.env) = m + 1 /\ g.env[m + 1] = w
      /\ \A j \in 1 .. m : g.env[j] = f.env[j]
  BY IssuedParts
<1>2. Last(f.credits) = Coming(crt, s, n, m + 2)
  BY IssuedStacked
<1>3. Last(f.credits) \in Nat
  <2>1. m + 2 \in Nat
    BY <1>1
  <2>2. n \in 1 .. Len(s.frames)
    BY <1>1
  <2> HIDE DEF m
  <2> QED BY <1>2, <2>1, <2>2, ComingNat
<1>4. DOMAIN xs = 1 .. One /\ xs[One] = w /\ e[One] = Last(f.credits)
  BY DEF One
<1> HIDE DEF xs, e, m
<1>5. Learnt(crt, s, t, n, xs, One, e)
  <2>1. \A j \in 1 .. One : g.env[m + j] = xs[j]
    <3>1. g.env[m + One] = xs[One]
      BY <1>1, <1>4 DEF One
    <3> QED BY <3>1, OneIs
  <2>2. \A j \in 1 .. One : e[j] = Coming(crt, s, n, m + j + 1)
    <3>1. m + One + 1 = m + 2
      BY <1>1 DEF One
    <3>2. e[One] = Coming(crt, s, n, m + One + 1)
      BY <1>2, <1>4, <3>1
    <3> QED BY <3>2, OneIs
  <2>3. Len(g.env) = m + One
    BY <1>1 DEF One
  <2>4. \A k \in 1 .. n : k # n => s.frames[k].env = t.frames[k].env
    BY <1>1
  <2> QED BY <1>1, <1>4, <2>1, <2>2, <2>3, <2>4, OneIs DEF Learnt, m
<1>6. \A h \in Keys : Owing(crt, t, h) = Owing(crt, s, h) + Weighed(xs, h, e)
  BY <1>5, TopLearns
<1>7. \A h \in Keys : Weighed(xs, h, e) = IF w = h THEN Last(f.credits) ELSE 0
  BY <1>3, <1>4, WeighedOne
<1> QED BY <1>3, <1>6, <1>7

(* A wire is issued with exactly the reads that are to come for it; one    *)
(* that gets none is not allocated.                                        *)
LEMMA IssueExact ==
  ASSUME Structure, Structure', Exact, ~panicked, ~panicked', circuit' = circuit,
         phase # "metadata", Len(Top.credits) > 0,
         NEW pc \in Nat \ {0}, IssueWire(Top, pc),
         \A w \in Wire : frames' = WithTop(Issued(Top, pc, w)) =>
           IssuedTo(circuit, Now, Now', Len(frames), Top, pc, w)
  PROVE  Exact'
<1> DEFINE c == Last(Top.credits)
           s == Now
           t == Now'
           n == Len(frames)
<1>0. PICK w \in Wire : WireIssued(pc, w)
  BY IssueIs
<1>1. /\ frames' = WithTop(Issued(Top, pc, w))
      /\ c \in 0 .. MaxCredits
      /\ \/ c = 0 /\ w \notin Keys /\ store' = store
         \/ /\ c > 0 /\ w \in Keys
            /\ Credit(store, w) = 0 /\ Credit(store', w) = c
            /\ \A k \in Keys : k # w => Credit(store', k) = Credit(store, k)
  <2>1. UNREACHABLE \notin Keys
    BY KeysAre
  <2> QED BY <1>0, <2>1 DEF WireIssued, Credit
<1>2. /\ circuit \in Circuits /\ s \in Config(circuit) /\ t \in Config(circuit)
      /\ AllStacked(circuit, s) /\ AllPaid(circuit, s, store)
      /\ IssuedTo(circuit, s, t, n, Top, pc, w)
  BY <1>1, NowIs, NextNow DEF Exact, Structure, Types
<1> HIDE DEF s, t, n
<1>3. AllStacked(circuit, t)
  BY <1>2, IssuedStacked
<1>4. \A h \in Keys : Owing(circuit, t, h) = Owing(circuit, s, h) + (IF w = h THEN c ELSE 0)
  BY <1>2, IssuedPays
<1>5. \A h \in Keys : Owing(circuit, s, h) \in Nat
  BY <1>2, OwedNat
<1> HIDE DEF c
<1>6. AllPaid(circuit, t, store')
  <2> SUFFICES ASSUME NEW h \in Keys PROVE Credit(store', h) = Owing(circuit, t, h)
    BY DEF AllPaid
  <2>1. Credit(store, h) = Owing(circuit, s, h)
    BY <1>2 DEF AllPaid
  <2>2. Owing(circuit, t, h) = Owing(circuit, s, h) + (IF w = h THEN c ELSE 0) /\ Owing(circuit, s, h) \in Nat
    BY <1>4, <1>5
  <2>3. CASE w = h
    BY <1>1, <2>1, <2>2, <2>3
  <2>4. CASE w # h
    BY <1>1, <2>1, <2>2, <2>4
  <2> QED BY <2>3, <2>4
<1> QED BY <1>3, <1>6 DEF Exact, t

(* What the allocation of an input issues.                                 *)
LEMMA AllocateIssues ==
  ASSUME Structure, Structure', AllocateInput
  PROVE  /\ ~panicked /\ ~panicked' /\ circuit' = circuit /\ phase # "metadata"
         /\ Len(Top.credits) > 0 /\ IssueWire(Top, 1)
         /\ \A w \in Wire : frames' = WithTop(Issued(Top, 1, w)) =>
              IssuedTo(circuit, Now, Now', Len(frames), Top, 1, w)
<1>1. /\ Turn("allocate", "encode", NInputs) /\ IssueWire(Top, 1)
      /\ UNCHANGED <<circuit, input, pool, output, panicked>>
  BY DEF AllocateInput
<1>2. NInputs \in Nat
  BY RootIs DEF Structure
<1>3. /\ cursor \in 1 .. NInputs /\ phase = "allocate" /\ ~panicked
      /\ phase' \in {"allocate", "encode"}
  BY <1>1, <1>2, TurnIs DEF Turn
<1>4. /\ Len(frames) = 1 /\ Top = frames[1] /\ Top \in Frame(circuit) /\ Now.frames = frames
      /\ Top.pc = 1
  BY <1>3, RootAlone DEF Structure, Control
<1>5. Len(Top.credits) > 0
  <2> DEFINE a == CreatedBy(circuit, circuit[Top.comp].body, Top.pc)
  <2>1. a \in Nat /\ Len(Top.credits) = a + Unallocated
    BY <1>3, TopIs
  <2>2. Unallocated = NInputs - cursor + 1
    BY <1>3 DEF Unallocated
  <2> HIDE DEF a
  <2> QED BY <1>2, <1>3, <2>1, <2>2
<1>6. /\ circuit \in Circuits /\ Now \in Config(circuit) /\ Now' \in Config(circuit)
      /\ Now'.frames = frames' /\ Now.decoded = Now'.decoded /\ Now.inputs = Now'.inputs
  <2>1. \A p \in Nat : Uncollected(p)' <=> Uncollected(p)
    BY <1>1, <1>3 DEF Uncollected, NInputs, Root
  <2>2. Decoded' = Decoded
    BY <1>3 DEF Decoded
  <2> QED BY <1>1, <2>1, <2>2, NowIs, NextNow DEF Structure, Types
<1>7. \A w \in Wire : frames' = WithTop(Issued(Top, 1, w)) =>
        IssuedTo(circuit, Now, Now', Len(frames), Top, 1, w)
  <2> SUFFICES ASSUME NEW w \in Wire, frames' = WithTop(Issued(Top, 1, w))
               PROVE  IssuedTo(circuit, Now, Now', Len(frames), Top, 1, w)
    OBVIOUS
  <2> DEFINE f == Issued(Top, 1, w)
             s == Now
             t == Now'
  <2>1. f \in Frame(circuit) /\ f.comp = Top.comp /\ f.pc = 1
    <3>1. 1 \in Nat \ {0}
      OBVIOUS
    <3> QED BY <1>4, <1>5, <3>1, IssuedIs
  <2>2. Len(WithTop(f)) = 1 /\ WithTop(f)[1] = f
    BY <1>3, <1>4, <2>1, WithTopIs
  <2>3. /\ circuit \in Circuits /\ s \in Config(circuit) /\ t \in Config(circuit)
        /\ s.decoded = t.decoded /\ s.inputs = t.inputs
        /\ Len(s.frames) = 1 /\ Len(t.frames) = 1 /\ s.frames[1] = Top /\ t.frames[1] = f
    BY <1>4, <1>6, <2>2
  <2> HIDE DEF s, t, f
  <2>4. \A k \in 1 .. One : Alike(circuit, s, t, k)
    <3>1. \A i \in 1 .. One : s.frames[i].comp = t.frames[i].comp /\ s.frames[i].pc = t.frames[i].pc
      BY <1>4, <2>1, <2>3, OneIs DEF One
    <3>2. \A i \in 1 .. One - 1 : Len(s.frames[i].env) = Len(t.frames[i].env)
      BY DEF One
    <3>3. One \in Nat /\ One <= Len(s.frames) /\ One <= Len(t.frames)
      BY <2>3 DEF One
    <3> QED BY <2>3, <3>1, <3>2, <3>3, AlikeBelow
  <2>5. \A k \in 1 .. 1 : Alike(circuit, s, t, k)
    BY <2>4 DEF One
  <2>6. \A k \in 1 .. 1 : k = 1
    OBVIOUS
  <2> QED BY <1>4, <1>5, <2>3, <2>5, <2>6 DEF IssuedTo, f, s, t
<1> QED BY <1>1, <1>3, <1>5, <1>7

(* So is a wire allocated for an input.                                    *)
LEMMA AllocateExact == ASSUME Structure, Structure', Exact, AllocateInput PROVE Exact'
<1>1. 1 \in Nat \ {0}
  OBVIOUS
<1> QED BY <1>1, AllocateIssues, IssueExact

(* What the issue of a wire does to the top frame.                         *)
LEMMA RunIssues ==
  ASSUME Structure, Structure', RunIssue
  PROVE  /\ ~panicked /\ ~panicked' /\ circuit' = circuit /\ phase # "metadata"
         /\ Len(Top.credits) > 0 /\ Top.pc + 1 \in Nat \ {0} /\ IssueWire(Top, Top.pc + 1)
         /\ \A w \in Wire : frames' = WithTop(Issued(Top, Top.pc + 1, w)) =>
              IssuedTo(circuit, Now, Now', Len(frames), Top, Top.pc + 1, w)
<1> DEFINE ins == Pending(Top)
           n == Len(frames)
           pc == Top.pc + 1
<1>1. /\ Running("issue") /\ IssueWire(Top, pc)
      /\ UNCHANGED <<circuit, input, phase, cursor, pool, output, panicked>>
  BY DEF RunIssue
<1>2. /\ phase = "run" /\ ~panicked /\ pc \in Nat \ {0} /\ ins.op = "issue" /\ Unallocated = 0
      /\ ins = circuit[Top.comp].body[Top.pc]
      /\ CreatedBy(circuit, circuit[Top.comp].body, Top.pc + 1) \in Nat
      /\ CreatedBy(circuit, circuit[Top.comp].body, Top.pc)
           = Created(circuit, ins) + CreatedBy(circuit, circuit[Top.comp].body, Top.pc + 1)
  BY <1>1, PendingIs
<1>3. /\ n \in Nat \ {0} /\ Top = frames[n] /\ n \in 1 .. n /\ Top \in Frame(circuit)
      /\ Len(Top.credits) = CreatedBy(circuit, circuit[Top.comp].body, Top.pc) + 0
  BY <1>2, TopIs
<1>4. Len(Top.credits) > 0
  <2>1. Created(circuit, ins) = 1
    BY <1>2 DEF Created
  <2> QED BY <1>2, <1>3, <2>1
<1>5. /\ circuit \in Circuits /\ Now \in Config(circuit) /\ Now' \in Config(circuit)
      /\ Now.frames = frames /\ Now'.frames = frames'
      /\ Now.decoded = Now'.decoded /\ Now.inputs = Now'.inputs
  BY <1>1, <1>2, RunNow
<1>6. \A l : Occurrences(Operands(ins), l) = 0
  <2>1. DOMAIN Operands(ins) = 1 .. 0
    BY <1>2 DEF Operands
  <2> QED BY <2>1, OccursNot
<1> HIDE DEF pc
<1>7. \A w \in Wire : frames' = WithTop(Issued(Top, pc, w)) =>
        IssuedTo(circuit, Now, Now', Len(frames), Top, pc, w)
  <2> SUFFICES ASSUME NEW w \in Wire, frames' = WithTop(Issued(Top, pc, w))
               PROVE  IssuedTo(circuit, Now, Now', n, Top, pc, w)
    OBVIOUS
  <2> DEFINE f == Issued(Top, pc, w)
             s == Now
             t == Now'
  <2>1. f \in Frame(circuit) /\ f.comp = Top.comp /\ f.pc = Top.pc + 1
    <3>1. f \in Frame(circuit) /\ f.comp = Top.comp /\ f.pc = pc
      BY <1>2, <1>3, <1>4, IssuedIs
    <3> QED BY <3>1 DEF pc
  <2>2. /\ circuit \in Circuits /\ s \in Config(circuit) /\ t \in Config(circuit)
        /\ s.decoded = t.decoded /\ s.inputs = t.inputs /\ s.frames = frames
        /\ t.frames = WithTop(f)
    BY <1>5
  <2> HIDE DEF s, t, f
  <2>3. Moved(circuit, s, t, n) /\ t.frames[n] = f
    BY <1>1, <2>1, <2>2, RunMoved
  <2>4. s.frames[n] = Top
    BY <1>3, <2>2
  <2>5. /\ \A k \in 1 .. n : k # n => Alike(circuit, s, t, k)
        /\ \A l \in Nat : Coming(circuit, s, n, l) = Coming(circuit, t, n, l) + Occurrences(Operands(ins), l)
    <3>1. Operands(ins) = Operands(circuit[s.frames[n].comp].body[s.frames[n].pc])
      BY <1>2, <2>4
    <3> HIDE DEF ins
    <3> QED BY SMTT(30), <2>2, <2>3, <3>1, TopMoves
  <2>6. Len(s.frames) = n /\ Len(t.frames) = n /\ \A k \in 1 .. n : k # n => t.frames[k] = s.frames[k]
    BY <2>3 DEF Moved
  <2>7. Alike(circuit, s, t, n)
    <3> SUFFICES ASSUME NEW l \in Nat PROVE Coming(circuit, s, n, l) = Coming(circuit, t, n, l)
      BY DEF Alike
    <3>1. Coming(circuit, s, n, l) = Coming(circuit, t, n, l) + 0
      BY <1>6, <2>5
    <3>2. Coming(circuit, t, n, l) \in Nat
      <4>1. n \in 1 .. Len(t.frames)
        BY <1>3, <2>6
      <4> QED BY <2>2, <4>1, ComingNat
    <3> QED BY <3>1, <3>2
  <2> QED BY <1>2, <1>3, <1>4, <2>3, <2>4, <2>5, <2>6, <2>7 DEF IssuedTo, f, s, t
<1> QED BY <1>1, <1>2, <1>4, <1>7 DEF pc

(* So is a wire of a closure.                                              *)
LEMMA RunIssueExact == ASSUME Structure, Structure', Exact, RunIssue PROVE Exact'
BY RunIssues, IssueExact

(* `Credits` can hold the counts of a configuration.                       *)
Fits(crt, t) ==
  \A k \in 1 .. Len(t.frames) :
    LET c == crt[t.frames[k].comp]
    IN  \A l \in FirstMock .. FirstMock - 1 + c.nin + CreatedBy(crt, c.body, 1) :
          Coming(crt, t, k, l) <= MaxCredits

(* The counts of a state fit in those of its configuration.                *)
LEMMA FitsIs == ASSUME Structure, CountsFit PROVE Fits(circuit, Now)
<1>1. Now \in Config(circuit) /\ Now.frames = frames /\ circuit \in Circuits /\ DOMAIN frames = 1 .. Len(frames)
  BY NowIs, ConfigIs DEF Structure, Types
<1> SUFFICES ASSUME NEW k \in 1 .. Len(frames),
                    NEW l \in FirstMock .. FirstMock - 1 + circuit[frames[k].comp].nin
                                + CreatedBy(circuit, circuit[frames[k].comp].body, 1)
             PROVE  Coming(circuit, Now, k, l) <= MaxCredits
  BY <1>1 DEF Fits
<1> DEFINE c == frames[k].comp
           body == circuit[c].body
<1>2. c \in 1 .. Len(circuit)
  BY <1>1, ConfigIs
<1>3. /\ circuit[c].nin \in Nat /\ Len(body) \in Nat
      /\ CreatedBy(circuit, body, 1) \in Nat /\ CreatedBy(circuit, body, Len(body) + 1) = 0
  <2>1. Len(body) \in Nat /\ circuit[c].nin \in Nat
    BY <1>1, <1>2, ComponentIs
  <2>2. Len(body) + 1 \in Nat /\ Len(body) + 1 > Len(body)
    BY <2>1
  <2> QED BY <1>1, <1>2, <2>1, <2>2, CreatedAre
<1>4. l \in Known(circuit, c, Len(body) + 1) /\ l >= FirstMock
  BY <1>3 DEF Known, NewName, FirstMock
<1>5. ToCome(k, l) <= MaxCredits
  BY <1>1, <1>4 DEF CountsFit, CompOf
<1> QED BY <1>5, ToComeIs

(* The counters of the root are the reads of its wires: by its closure, by *)
(* the decoding, and one to collect each input.                            *)
LEMMA EnterExact == ASSUME Structure, Structure', Exact, EnterRoot, Fits(circuit', Now') PROVE Exact'
<1> DEFINE tmpl == Template(circuit, Root)
           cr == RootStack(tmpl)
           oc == Ones(tmpl)
           f == [comp |-> Root, pc |-> 1, env |-> <<>>, credits |-> cr]
           body == circuit[Root].body
           outs == circuit[Root].outs
           N == CreatedBy(circuit, body, 1)
           nin == circuit[Root].nin
           t == Now'
<1>1. circuit \in Circuits /\ Root \in 1 .. Len(circuit) /\ Templates[circuit][Root] = tmpl
  BY RootIs DEF Structure, Types
<1>2. /\ phase' \in {"allocate", "run"} /\ frames' = <<f>> /\ store = EmptyStore
      /\ phase' = "run" => nin = 0
      /\ UNCHANGED <<circuit, input, cursor, store, output, panicked>>
  BY <1>1 DEF EnterRoot, RootStack, Structure, Control, NInputs
<1>3. RootGood(circuit, Root, oc, N, nin, cr)
  BY <1>1, RootCredits
<1>4. f.comp = Root /\ f.pc = 1 /\ f.env = <<>> /\ f.credits = cr
  OBVIOUS
<1>5. N \in Nat /\ nin \in Nat /\ Len(cr) = N + nin /\ Len(outs) \in Nat /\ DOMAIN outs = 1 .. Len(outs)
  BY <1>1, <1>3, ComponentIs DEF RootGood, NameSeq
<1>6. /\ t \in Config(circuit) /\ t.frames = <<f>> /\ t.decoded = 0
      /\ \A p \in Nat : p \in t.inputs <=> p \in 1 .. nin
  <2>1. \A p \in Nat : Uncollected(p)' <=> p \in 1 .. nin
    BY <1>2 DEF Uncollected, NInputs, Root
  <2>2. Decoded' = 0
    BY <1>2 DEF Decoded
  <2> QED BY <1>2, <2>1, <2>2, NextNow
<1>7. Len(t.frames) = 1 /\ t.frames[1] = f
  BY <1>6
<1> HIDE DEF t, f, cr, oc, tmpl
<1>8. \A l \in Nat : Left(circuit, t)[1][l] = ReadIn(circuit, Root, oc, l)
  <2> DEFINE d == Shift(Later(0), FirstMock)
  <2>1. RootHas(circuit, t, f, 0)
    BY <1>1, <1>6, <1>7, RootLeft
  <2>2. /\ FromOn(d, Len(outs), 0 + 1)
        /\ \A l \in Nat : Left(circuit, t)[1][l] = Reads(body, 1, l) + Weighed(outs, l, d)
    BY <1>4, <2>1 DEF RootHas
  <2> HIDE DEF d
  <2>3. \A j \in 1 .. Len(outs) : d[j] = oc[j]
    BY <1>3, <2>2 DEF FromOn, RootGood
  <2>4. \A l \in Nat : Weighed(outs, l, d) = Weighed(outs, l, oc)
    BY <1>5, <2>3, WeighedSame
  <2> QED BY <2>2, <2>4 DEF ReadIn
<1>9. \A l \in Nat : ReadIn(circuit, Root, oc, l) \in Nat
  <2>1. Counts(oc, Len(circuit[Root].outs))
    BY <1>3 DEF RootGood
  <2> QED BY <1>1, <2>1, ReadInNat
<1>10. \A l \in FirstMock .. FirstMock - 1 + nin + N : Coming(circuit, t, 1, l) <= MaxCredits
  BY <1>2, <1>4, <1>7 DEF Fits, t
<1> HIDE DEF N, nin, body, outs
<1>11. \A i \in 1 .. N + nin : cr[N + nin - i + 1] = Coming(circuit, t, 1, i + 1)
  <2> SUFFICES ASSUME NEW i \in 1 .. N + nin PROVE cr[N + nin - i + 1] = Coming(circuit, t, 1, i + 1)
    OBVIOUS
  <2>1. i + 1 \in Nat /\ i \in Nat /\ i + 1 - FirstMock + 1 = i
        /\ i + 1 \in FirstMock .. FirstMock - 1 + nin + N
    BY <1>5 DEF FirstMock
  <2>2. Coming(circuit, t, 1, i + 1)
          = ReadIn(circuit, Root, oc, i + 1) + (IF i \in 1 .. nin THEN 1 ELSE 0)
    <3>1. Coming(circuit, t, 1, i + 1) = Left(circuit, t)[1][i + 1] + (IF i \in t.inputs THEN 1 ELSE 0)
      <4> DEFINE l == i + 1
                 p == l - FirstMock + 1
      <4>1. Coming(circuit, t, 1, l) = Left(circuit, t)[1][l] + (IF p \in t.inputs THEN 1 ELSE 0)
        <5> HIDE DEF l
        <5> QED BY DEF Coming
      <4>2. p = i
        BY <2>1 DEF FirstMock
      <4> HIDE DEF p
      <4> QED BY <4>1, <4>2
    <3> QED BY <1>6, <1>8, <2>1, <3>1
  <2>3. Coming(circuit, t, 1, i + 1) <= MaxCredits
    BY <1>10, <2>1
  <2>4. ReadIn(circuit, Root, oc, i + 1) \in Nat
    BY <1>9, <2>1
  <2>5. CASE i \in 1 .. nin
    <3>1. Coming(circuit, t, 1, i + 1) = 1 + ReadIn(circuit, Root, oc, i + 1)
      BY <2>2, <2>4, <2>5
    <3>2. cr[N + nin - i + 1] = 1 + ReadIn(circuit, Root, oc, i + 1)
      BY <1>3, <2>3, <2>5, <3>1 DEF RootGood
    <3> QED BY <3>1, <3>2
  <2>6. CASE i \notin 1 .. nin
    <3> DEFINE j == i - nin
    <3>1. j \in 1 .. N /\ j + nin + 1 = i + 1 /\ N - j + 1 = N + nin - i + 1
      BY <1>5, <2>6
    <3>2. Coming(circuit, t, 1, i + 1) = ReadIn(circuit, Root, oc, i + 1)
      BY <2>2, <2>4, <2>6
    <3> HIDE DEF j
    <3>3. ReadIn(circuit, Root, oc, j + nin + 1) <= MaxCredits
      BY <2>3, <3>1, <3>2
    <3>4. cr[N - j + 1] = ReadIn(circuit, Root, oc, j + nin + 1)
      BY <1>3, <3>1, <3>3 DEF RootGood
    <3> QED BY <3>1, <3>2, <3>4
  <2> QED BY <2>5, <2>6
<1>12. AllStacked(circuit, t)
  <2>1. BoundIn(circuit, t.frames, 1) = 0
    <3>1. Len(t.frames[1].env) = 0
      BY <1>4, <1>7
    <3>2. 1 \in Nat /\ Len(t.frames[1].env) \in Nat
      BY <3>1
    <3> QED BY ONLY <1>7, <3>1, <3>2, TopBound
  <2>2. \A i \in 1 .. N + nin : 0 + i + 1 = i + 1
    BY <1>5
  <2>3. Len(t.frames[1].credits) = N + nin /\ t.frames[1].credits = cr
    BY <1>4, <1>5, <1>7
  <2>4. Stacked(circuit, t, 1)
    <3> DEFINE q == Len(t.frames[1].credits)
               b == BoundIn(circuit, t.frames, 1)
    <3>1. ASSUME NEW i \in 1 .. q
          PROVE  t.frames[1].credits[q - i + 1] = Coming(circuit, t, 1, b + i + 1)
      <4>1. q = N + nin /\ b = 0 /\ t.frames[1].credits = cr
        BY <2>1, <2>3
      <4> HIDE DEF q, b
      <4>2. i \in 1 .. N + nin
        BY <4>1
      <4>3. b + i + 1 = i + 1
        BY <1>5, <4>1, <4>2
      <4>4. q - i + 1 = N + nin - i + 1
        BY <1>5, <4>1, <4>2
      <4>5. cr[N + nin - i + 1] = Coming(circuit, t, 1, i + 1)
        BY <1>11, <4>2
      <4> QED BY ONLY <4>1, <4>3, <4>4, <4>5
    <3> QED BY <3>1 DEF Stacked
  <2>5. \A k \in 1 .. 1 : k = 1
    OBVIOUS
  <2> QED BY <1>7, <2>4, <2>5 DEF AllStacked
<1>13. AllPaid(circuit, t, store')
  <2> SUFFICES ASSUME NEW w \in Keys PROVE Credit(store', w) = Owing(circuit, t, w)
    BY DEF AllPaid
  <2>1. Credit(store', w) = 0
    BY <1>2, EmptyIs
  <2> DEFINE o == Owes(circuit, t, w)
  <2>2. o \in Nums(One) /\ \A k \in 1 .. One : o[k] = Owed(circuit, t, k, w)
    BY <1>1, <1>6, <1>7, OwedNat DEF One
  <2>3. Owed(circuit, t, One, w) = 0
    <3>1. DOMAIN t.frames[One].env = 1 .. 0
      BY <1>4, <1>7 DEF One
    <3>2. Counts(Names(circuit, t, One), 0)
      BY DEF Counts
    <3> DEFINE env == t.frames[One].env
               d == Names(circuit, t, One)
               z == 0
    <3>3. DOMAIN env = 1 .. z /\ Counts(d, z) /\ z \in Nat /\ \A j \in 1 .. z : env[j] # w \/ d[j] = 0
      BY <3>1, <3>2
    <3> HIDE DEF env, d, z
    <3>4. Weighed(env, w, d) = 0
      BY ONLY <3>3, WeighedNone
    <3> QED BY <3>4 DEF Owed, env, d
  <2> HIDE DEF o
  <2>4. Total[o] = 0
    BY <2>2, <2>3, OneIs, TotalZero
  <2> QED BY <2>1, <2>4 DEF Owing, o
<1> QED BY <1>2, <1>12, <1>13 DEF Exact, t

(* Frame n of u, under n + 1 frames of s: n + 1 is about to hand back.     *)
(* What is to come for its names, seen from the frame under it.            *)
LEMMA HandedBack ==
  ASSUME NEW crt \in Circuits, NEW s \in Config(crt), NEW n \in Nat \ {0}, Len(s.frames) = n + 1,
         s.inputs = {}
  PROVE  LET f == s.frames[n + 1]
             c == crt[f.comp]
             e == [j \in Nat |-> Coming(crt, s, n, Len(s.frames[n].env) + j + 1)]
         IN  \A l \in Nat :
               /\ Coming(crt, s, n + 1, l) = Reads(c.body, f.pc, l) + Weighed(c.outs, l, e)
               /\ Reads(c.body, f.pc, l) \in Nat /\ Weighed(c.outs, l, e) \in Nat
<1> DEFINE f == s.frames[n + 1]
           c == crt[f.comp]
           m == Len(s.frames[n].env)
           e == [j \in Nat |-> Coming(crt, s, n, m + j + 1)]
           h == n + 1
           d == Shift(Left(crt, s)[h - 1], NextName(s.frames, h - 1))
<1>1. h \in 1 .. Len(s.frames) /\ h - 1 = n /\ n # 0 /\ h # 1
  OBVIOUS
<1>2. m \in Nat /\ f.comp \in 1 .. Len(crt)
  <2>1. n \in 1 .. Len(s.frames)
    OBVIOUS
  <2> QED BY <1>1, <2>1, ConfigIs
<1>3. NextName(s.frames, n) = FirstMock + m
  BY <1>1 DEF NextName
<1> HIDE DEF h
<1>4. \A l \in Nat :
        /\ Left(crt, s)[h][l] = Reads(c.body, s.frames[h].pc, l) + Weighed(c.outs, l, d)
        /\ Reads(c.body, s.frames[h].pc, l) \in Nat /\ Weighed(c.outs, l, d) \in Nat
  <2> DEFINE g == s.frames[h]
  <2>1. \A l \in Nat :
          /\ Left(crt, s)[h][l] = Reads(crt[g.comp].body, g.pc, l) + Weighed(crt[g.comp].outs, l, d)
          /\ Reads(crt[g.comp].body, g.pc, l) \in Nat /\ Weighed(crt[g.comp].outs, l, d) \in Nat
    BY <1>1, LeftIs
  <2>2. g = f
    BY DEF h
  <2> HIDE DEF g, d
  <2> QED BY <2>1, <2>2 DEF g
<1>5. \A j \in DOMAIN c.outs : d[j] = e[j]
  <2> SUFFICES ASSUME NEW j \in DOMAIN c.outs PROVE d[j] = e[j]
    OBVIOUS
  <2>1. j \in Nat
    <3>1. NameSeq(c.outs, Len(c.outs))
      BY <1>2, ComponentIs
    <3> QED BY <3>1 DEF NameSeq
  <2>2. d[j] = Left(crt, s)[n][FirstMock + m + j - 1]
    BY <1>1, <1>3, <2>1 DEF Shift
  <2>3. FirstMock + m + j - 1 = m + j + 1
    BY <1>2, <2>1 DEF FirstMock
  <2>4. e[j] = Coming(crt, s, n, m + j + 1)
    BY <2>1
  <2> DEFINE l == m + j + 1
             x == Left(crt, s)[n][l]
  <2>5. x \in Nat
    <3>1. n \in 0 .. Len(s.frames) /\ l \in Nat
      BY <1>2, <2>1
    <3>2. s.frames \in Seq(Frame(crt)) /\ s.decoded \in Nat
      BY ConfigIs
    <3>3. Left(crt, s)[n] \in [Nat -> Nat]
      BY <3>1, <3>2, RemainingType DEF Left
    <3> HIDE DEF l
    <3> QED BY <3>1, <3>3
  <2>6. Coming(crt, s, n, l) = x + 0
    <3> HIDE DEF l
    <3> QED BY DEF Coming
  <2> HIDE DEF x, e, d
  <2>7. Coming(crt, s, n, l) = x
    BY <2>5, <2>6
  <2> QED BY <2>2, <2>3, <2>4, <2>7 DEF x
<1>6. \A l : Weighed(c.outs, l, d) = Weighed(c.outs, l, e)
  <2> HIDE DEF d, e
  <2> QED BY <1>5, WeighedSame
<1>7. \A l \in Nat : Coming(crt, s, h, l) = Left(crt, s)[h][l]
  <2> SUFFICES ASSUME NEW l \in Nat PROVE Coming(crt, s, h, l) = Left(crt, s)[h][l]
    OBVIOUS
  <2> DEFINE x == Left(crt, s)[h][l]
  <2>1. Coming(crt, s, h, l) = x + 0
    BY <1>1 DEF Coming
  <2>2. x \in Nat
    <3> DEFINE a == Reads(c.body, s.frames[h].pc, l)
               b == Weighed(c.outs, l, d)
    <3>1. x = a + b /\ a \in Nat /\ b \in Nat
      BY <1>4
    <3> HIDE DEF a, b, x
    <3> QED BY <3>1
  <2> HIDE DEF x
  <2> QED BY <2>1, <2>2 DEF x
<1> HIDE DEF d, e
<1> QED BY <1>4, <1>6, <1>7 DEF h, e

(* The configuration between the caller's reads and the child's entry.     *)
Mid == [frames |-> WithTop(Caller), decoded |-> 0, inputs |-> {}]

(* The names the call reads.                                               *)
Names0 == Operands(Pending(Top))

(* The caller once the outputs' counters are popped.                       *)
LEMMA CallerIs ==
  ASSUME Structure, RunCall
  PROVE  /\ Caller \in Frame(circuit) /\ Caller.comp = Top.comp /\ Caller.pc = Top.pc + 1
         /\ Caller.env = Top.env
         /\ Len(Top.credits) \in Nat /\ Outs \in Nat /\ Outs <= Len(Top.credits)
         /\ Len(Caller.credits) = Len(Top.credits) - Outs
         /\ \A j \in 1 .. Len(Top.credits) - Outs : Caller.credits[j] = Top.credits[j]
         /\ Len(Top.env) \in Nat
<1>1. Running("call") /\ Outs \in Nat /\ Outs <= Len(Top.credits)
  BY CallIs
<1>2. phase = "run"
  BY <1>1 DEF Running
<1>3. Top \in Frame(circuit) /\ Len(Top.env) \in Nat
  BY <1>2, TopIs
<1> QED BY <1>1, <1>3, PoppedIs DEF Caller

(* A call is a read of the arguments, and then a frame pushed.             *)
LEMMA MidIs ==
  ASSUME Structure, Structure', RunCall
  PROVE  LET n == Len(frames)
         IN  /\ circuit \in Circuits /\ Now \in Config(circuit) /\ Mid \in Config(circuit)
             /\ Now' \in Config(circuit) /\ Now'.inputs = {}
             /\ n \in Nat \ {0} /\ n \in 1 .. n /\ Len(Now.frames) = n /\ Now.frames[n] = Top
             /\ Moved(circuit, Now, Mid, n) /\ Mid.frames[n] = Caller
             /\ Pushed(Mid, Now', n)
             /\ Now'.frames[n + 1] = Child /\ Now'.frames[n] = Caller
             /\ ReadOff(circuit, Now, Mid, n, Names0, Len(Names0))
<1> DEFINE n == Len(frames)
           s == Now
           u == Mid
           t == Now'
<1>1. /\ Running("call") /\ frames' = Append(WithTop(Caller), Child) /\ Child \in Frame(circuit)
      /\ UNCHANGED <<circuit, input, phase, cursor, output>>
  BY CallIs
<1>2. /\ phase = "run" /\ ~panicked /\ Pending(Top) = circuit[Top.comp].body[Top.pc]
      /\ Within(Names0, Len(Names0), Len(Top.env)) /\ Len(Names0) \in Nat
  BY <1>1, PendingIs DEF Names0
<1>3. n \in Nat \ {0} /\ Top = frames[n] /\ n \in 1 .. n
  BY <1>2, TopIs
<1>4. /\ circuit \in Circuits /\ s \in Config(circuit) /\ t \in Config(circuit)
      /\ s.frames = frames /\ t.frames = frames' /\ s.decoded = 0 /\ t.decoded = 0
      /\ s.inputs = {} /\ t.inputs = {}
  BY <1>1, <1>2, RunNow
<1>5. Caller \in Frame(circuit) /\ Caller.comp = Top.comp /\ Caller.pc = Top.pc + 1 /\ Caller.env = Top.env
  BY CallerIs
<1>6. /\ WithTop(Caller) \in Seq(Frame(circuit)) /\ Len(WithTop(Caller)) = n
  BY <1>2, <1>5, WithTopIs
<1>7. u \in Config(circuit) /\ u.frames = WithTop(Caller) /\ u.decoded = 0 /\ u.inputs = {}
  BY <1>6 DEF Mid, Config
<1> HIDE DEF n, s, u, t
<1>8. Moved(circuit, s, u, n) /\ u.frames[n] = Caller
  <2>1. Running("call") /\ s.decoded = u.decoded /\ s.inputs = u.inputs
    BY <1>1, <1>4, <1>7
  <2> HIDE DEF Caller
  <2> DEFINE g == Caller
  <2>2. g \in Frame(circuit) /\ g.comp = Top.comp /\ g.pc = Top.pc + 1 /\ u.frames = WithTop(g)
    BY <1>5, <1>7
  <2> HIDE DEF g
  <2>3. Moved(circuit, s, u, Len(frames)) /\ u.frames[Len(frames)] = g
    BY ONLY ZenonT(60), Structure, <1>4, <1>7, <2>1, <2>2, RunMoved
  <2> QED BY <2>3 DEF g, n
<1>9. /\ Len(frames') = n + 1 /\ frames'[n + 1] = Child
      /\ \A k \in 1 .. n : frames'[k] = WithTop(Caller)[k]
  BY <1>1, <1>6, AppendIs
<1>10. Pushed(u, t, n)
  BY <1>3, <1>4, <1>6, <1>7, <1>9 DEF Pushed
<1>11. s.frames[n] = Top /\ Len(s.frames) = n /\ t.frames[n + 1] = Child /\ t.frames[n] = Caller
  BY <1>3, <1>4, <1>7, <1>8, <1>9 DEF n
<1>12. ReadOff(circuit, s, u, n, Names0, Len(Names0))
  <2>1. /\ \A k \in 1 .. n : k # n => Alike(circuit, s, u, k)
        /\ \A l \in Nat : Coming(circuit, s, n, l) = Coming(circuit, u, n, l) + Occurrences(Names0, l)
    <3>1. Names0 = Operands(circuit[s.frames[n].comp].body[s.frames[n].pc])
      BY <1>2, <1>11 DEF Names0
    <3> QED BY SMTT(30), <1>4, <1>7, <1>8, <3>1, TopMoves
  <2>2. /\ Len(s.frames) = n /\ Len(u.frames) = n
        /\ \A k \in 1 .. n : k # n => u.frames[k] = s.frames[k]
    BY <1>8 DEF Moved
  <2> QED BY <1>2, <1>3, <1>5, <1>8, <1>11, <2>1, <2>2 DEF ReadOff
<1> QED BY <1>3, <1>4, <1>7, <1>8, <1>10, <1>11, <1>12 DEF n, s, u, t

(* A name that is not an operand, of the frame that calls.                 *)
LEMMA CallerNames ==
  ASSUME Structure, Structure', RunCall
  PROVE  \A i \in Nat \ {0} :
           LET l == Len(Top.env) + i + 1
           IN  /\ l \in Nat
               /\ Coming(circuit, Now, Len(frames), l) = Coming(circuit, Now', Len(frames), l)
               /\ Coming(circuit, Now', Len(frames), l) \in Nat
<1> DEFINE n == Len(frames)
           m == Len(Top.env)
           s == Now
           u == Mid
           t == Now'
           r == Len(Names0)
<1>1. /\ circuit \in Circuits /\ s \in Config(circuit) /\ u \in Config(circuit) /\ t \in Config(circuit)
      /\ n \in Nat \ {0} /\ n \in 1 .. n /\ Len(s.frames) = n /\ s.frames[n] = Top
      /\ Pushed(u, t, n) /\ ReadOff(circuit, s, u, n, Names0, r)
  BY MidIs
<1>2. m \in Nat
  BY CallerIs
<1> HIDE DEF n, s, u, t, r
<1>3. /\ r \in Nat /\ DOMAIN Names0 = 1 .. r /\ \A j \in 1 .. r : Names0[j] \in 0 .. m + 1
      /\ \A l \in Nat : Coming(circuit, s, n, l) = Coming(circuit, u, n, l) + Occurrences(Names0, l)
  BY <1>1 DEF ReadOff, Within
<1>4. Alike(circuit, u, t, n)
  BY <1>1, FramePushed
<1> HIDE DEF m
<1> SUFFICES ASSUME NEW i \in Nat \ {0}
             PROVE  LET l == m + i + 1
                    IN  /\ l \in Nat /\ Coming(circuit, s, n, l) = Coming(circuit, t, n, l)
                        /\ Coming(circuit, t, n, l) \in Nat
  BY DEF n, s, t, m
<1> DEFINE l == m + i + 1
<1>5. l \in Nat /\ \A j \in 1 .. r : Names0[j] # l
  BY <1>2, <1>3
<1> HIDE DEF l
<1>6. Occurrences(Names0, l) = 0
  BY <1>3, <1>5, OccursNot
<1>7. Coming(circuit, s, n, l) = Coming(circuit, u, n, l) + 0 /\ Coming(circuit, u, n, l) = Coming(circuit, t, n, l)
  BY <1>3, <1>4, <1>5, <1>6 DEF Alike
<1>8. Coming(circuit, t, n, l) \in Nat
  <2>1. n \in 1 .. Len(t.frames)
    BY <1>1 DEF Pushed
  <2> QED BY <1>1, <1>5, <2>1, ComingNat
<1>9. Coming(circuit, s, n, l) = Coming(circuit, t, n, l)
  BY <1>7, <1>8
<1> QED BY <1>5, <1>8, <1>9 DEF l

(* The counters popped for the outputs are the reads the caller has for    *)
(* them, so the child starts with exactly the reads it was granted.        *)
LEMMA ChildReads ==
  ASSUME Structure, Structure', RunCall, Exact
  PROVE  \A l \in Nat : Coming(circuit, Now', Len(frames) + 1, l) = ReadIn(circuit, Callee, Promised, l)
<1> DEFINE n == Len(frames)
           m == Len(Top.env)
           s == Now
           t == Now'
           q == Len(Top.credits)
           body == circuit[Callee].body
           outs == circuit[Callee].outs
           h == n + 1
<1>1. /\ circuit \in Circuits /\ s \in Config(circuit) /\ t \in Config(circuit) /\ t.inputs = {}
      /\ n \in Nat \ {0} /\ n \in 1 .. n /\ Len(s.frames) = n /\ s.frames[n] = Top
      /\ t.frames[n + 1] = Child /\ t.frames[n] = Caller /\ Pushed(Mid, t, n)
  BY MidIs
<1>2. /\ m \in Nat /\ q \in Nat /\ Outs \in Nat /\ Outs <= q /\ Caller.env = Top.env
  BY CallerIs
<1>3. /\ Running("call") /\ Child.comp = Callee /\ Child.pc = 1
      /\ \A j \in 1 .. Outs : Promised[j] = Top.credits[q - j + 1]
      /\ Callee \in 1 .. Len(circuit)
  BY CallIs
<1>4. Stacked(circuit, s, n)
  <2>1. ~panicked
    BY <1>3 DEF Running
  <2> QED BY <1>1, <2>1 DEF Exact, AllStacked
<1>5. \A i \in Nat \ {0} :
        /\ Coming(circuit, s, n, m + i + 1) = Coming(circuit, t, n, m + i + 1)
        /\ m + i + 1 \in Nat
  BY CallerNames
<1>6. DOMAIN outs = 1 .. Outs
  BY <1>1, <1>3, ComponentIs DEF NameSeq, Outs
<1>7. Len(t.frames) = n + 1
  BY <1>1 DEF Pushed
<1> HIDE DEF n, s, t, m, q
<1>8. BoundIn(circuit, s.frames, n) = m
  <2>1. n \in Nat /\ Len(s.frames[n].env) \in Nat /\ Len(s.frames[n].env) = m
    BY <1>1, <1>2 DEF m
  <2> QED BY <1>1, <2>1, TopBound
<1> DEFINE e == [j \in Nat |-> Coming(circuit, t, n, m + j + 1)]
<1>9. \A j \in 1 .. Outs : e[j] = Promised[j]
  <2> SUFFICES ASSUME NEW j \in 1 .. Outs PROVE e[j] = Promised[j]
    OBVIOUS
  <2>1. j \in Nat /\ j \in Nat \ {0} /\ j \in 1 .. q
    BY <1>2
  <2>2. e[j] = Coming(circuit, t, n, m + j + 1)
    BY <2>1
  <2>3. s.frames[n].credits[q - j + 1] = Coming(circuit, s, n, m + j + 1)
    <3>1. q = Len(s.frames[n].credits)
      BY <1>1 DEF q
    <3> QED BY <1>4, <1>8, <2>1, <3>1 DEF Stacked
  <2> HIDE DEF e
  <2> QED BY <1>1, <1>3, <1>5, <2>1, <2>2, <2>3
<1>10. \A l \in Nat : /\ Coming(circuit, t, h, l) = Reads(body, 1, l) + Weighed(outs, l, e)
  <2>1. LET f == t.frames[n + 1]
            c == circuit[f.comp]
            g == [j \in Nat |-> Coming(circuit, t, n, Len(t.frames[n].env) + j + 1)]
        IN  \A l \in Nat :
              /\ Coming(circuit, t, n + 1, l) = Reads(c.body, f.pc, l) + Weighed(c.outs, l, g)
              /\ Reads(c.body, f.pc, l) \in Nat /\ Weighed(c.outs, l, g) \in Nat
    BY <1>1, <1>7, HandedBack
  <2>2. Len(t.frames[n].env) = m
    BY <1>1, <1>2 DEF m
  <2>3. t.frames[n + 1].comp = Callee /\ t.frames[n + 1].pc = 1
    BY <1>1, <1>3
  <2> QED BY ONLY <2>1, <2>2, <2>3
<1> HIDE DEF e, h
<1>11. \A l : Weighed(outs, l, e) = Weighed(outs, l, Promised)
  <2>1. \A j \in DOMAIN outs : e[j] = Promised[j]
    BY <1>6, <1>9
  <2> HIDE DEF outs
  <2> QED BY <2>1, WeighedSame
<1>12. \A l \in Nat : Coming(circuit, t, h, l) = ReadIn(circuit, Callee, Promised, l)
  BY <1>10, <1>11 DEF ReadIn
<1> QED BY <1>12 DEF n, t, h

(* The counters of the child are the reads of the wires it creates.        *)
LEMMA ChildStacked ==
  ASSUME Structure, Structure', RunCall, Exact, Fits(circuit, Now')
  PROVE  Stacked(circuit, Now', Len(frames) + 1)
<1> DEFINE n == Len(frames)
           t == Now'
           h == n + 1
           nin == circuit[Callee].nin
           N == CreatedBy(circuit, circuit[Callee].body, 1)
           cr == Child.credits
<1>1. /\ n \in Nat \ {0} /\ t.frames[n + 1] = Child /\ Pushed(Mid, t, n)
  BY MidIs
<1>2. /\ Child.comp = Callee /\ Child.env = Args /\ Len(Args) = nin
      /\ StackGood(circuit, Callee, Promised, N, cr) /\ circuit \in Circuits
      /\ Callee \in 1 .. Len(circuit)
  BY CallIs
<1>3. \A l \in Nat : Coming(circuit, t, h, l) = ReadIn(circuit, Callee, Promised, l)
  BY ChildReads
<1>4. Len(t.frames) = n + 1
  BY <1>1 DEF Pushed
<1>5. nin \in Nat
  BY <1>2, ComponentIs
<1>6. N \in Nat /\ Len(cr) = N
      /\ \A i \in 1 .. N : ReadIn(circuit, Callee, Promised, i + nin + 1) <= MaxCredits
                             => cr[N - i + 1] = ReadIn(circuit, Callee, Promised, i + nin + 1)
  BY <1>2 DEF StackGood
<1> HIDE DEF n, t, cr
<1>7. h \in 1 .. Len(t.frames) /\ h \in Nat /\ Len(t.frames) = h /\ t.frames[h] = Child
  BY <1>1, <1>4
<1> HIDE DEF h
<1>8. \A l \in FirstMock .. FirstMock - 1 + nin + N : Coming(circuit, t, h, l) <= MaxCredits
  <2>1. Fits(circuit, t)
    BY DEF t
  <2> QED BY <1>2, <1>7, <2>1 DEF Fits
<1>9. BoundIn(circuit, t.frames, h) = nin
  <2>1. Len(t.frames[h].env) = nin
    BY <1>2, <1>7
  <2> HIDE DEF nin
  <2> QED BY <1>5, <1>7, <2>1, TopBound
<1> HIDE DEF nin, N
<1>10. ASSUME NEW i \in 1 .. N
       PROVE  cr[N - i + 1] = Coming(circuit, t, h, nin + i + 1)
  <2> DEFINE l == nin + i + 1
  <2>1. l \in Nat /\ l \in FirstMock .. FirstMock - 1 + nin + N /\ i + nin + 1 = l
    BY <1>5, <1>6 DEF FirstMock
  <2> HIDE DEF l
  <2>2. Coming(circuit, t, h, l) = ReadIn(circuit, Callee, Promised, l)
        /\ Coming(circuit, t, h, l) <= MaxCredits
    BY <1>3, <1>8, <2>1
  <2> QED BY <1>6, <2>1, <2>2 DEF l
<1>11. t.frames[h].credits = cr
  BY <1>7 DEF cr
<1>12. Stacked(circuit, t, h)
  BY <1>6, <1>9, <1>10, <1>11 DEF Stacked
<1> QED BY <1>12 DEF h, n, t

(* Those that stay with the caller are for the wires after the outputs.    *)
LEMMA CallerStacked ==
  ASSUME Structure, Structure', RunCall, Exact
  PROVE  Stacked(circuit, Now', Len(frames))
<1> DEFINE n == Len(frames)
           s == Now
           t == Now'
           m == Len(Top.env)
           q == Len(Top.credits)
           o == Outs
           cr == Caller.credits
<1>1. /\ n \in Nat \ {0} /\ n \in 1 .. n /\ t.frames[n + 1] = Child /\ t.frames[n] = Caller
      /\ Pushed(Mid, t, n) /\ circuit \in Circuits
      /\ Len(s.frames) = n /\ s.frames[n] = Top /\ s \in Config(circuit)
  BY MidIs
<1>2. /\ m \in Nat /\ q \in Nat /\ o \in Nat /\ o <= q /\ Caller.env = Top.env
      /\ Len(cr) = q - o /\ \A j \in 1 .. q - o : cr[j] = Top.credits[j]
  BY CallerIs
<1>3. Child.comp = Callee /\ Running("call")
  BY CallIs
<1>4. Stacked(circuit, s, n)
  <2>1. ~panicked
    BY <1>3 DEF Running
  <2> QED BY <1>1, <2>1 DEF Exact, AllStacked
<1>5. \A i \in Nat \ {0} :
        /\ Coming(circuit, s, n, m + i + 1) = Coming(circuit, t, n, m + i + 1)
        /\ m + i + 1 \in Nat
  BY CallerNames
<1>6. Len(t.frames) = n + 1
  BY <1>1 DEF Pushed
<1>7. BoundIn(circuit, t.frames, n) = m + o
  <2>1. n < Len(t.frames)
    BY <1>1, <1>6
  <2> QED BY <1>1, <1>2, <1>3, <2>1 DEF BoundIn, Outs
<1>8. Top.credits = s.frames[n].credits /\ Len(s.frames[n].env) = m /\ Len(s.frames[n].credits) = q
      /\ t.frames[n].credits = cr
  BY <1>1
<1> HIDE DEF n, s, t, m, q, o, cr
<1>9. BoundIn(circuit, s.frames, n) = m
  <2>1. n \in Nat
    BY <1>1
  <2> QED BY <1>1, <1>2, <1>8, <2>1, TopBound
<1> DEFINE p == q - o
<1>10. ASSUME NEW i \in 1 .. p
       PROVE  cr[p - i + 1] = Coming(circuit, t, n, (m + o) + i + 1)
  <2> DEFINE j == o + i
  <2>1. /\ j \in 1 .. q /\ j \in Nat \ {0} /\ p - i + 1 = q - j + 1 /\ p - i + 1 \in 1 .. q - o
        /\ (m + o) + i + 1 = m + j + 1
    <3>1. m \in Nat /\ q \in Nat /\ o \in Nat /\ o <= q /\ i \in 1 .. q - o
      BY <1>2
    <3> QED BY ONLY <3>1
  <2> HIDE DEF j, p
  <2>2. cr[p - i + 1] = s.frames[n].credits[q - j + 1]
    BY <1>2, <1>8, <2>1
  <2>3. s.frames[n].credits[q - j + 1] = Coming(circuit, s, n, m + j + 1)
    BY <1>4, <1>8, <1>9, <2>1 DEF Stacked
  <2>4. Coming(circuit, s, n, m + j + 1) = Coming(circuit, t, n, m + j + 1)
    BY <1>5, <2>1
  <2> QED BY <2>1, <2>2, <2>3, <2>4
<1>11. Stacked(circuit, t, n)
  <2>1. Len(t.frames[n].credits) = p
    BY <1>2, <1>8
  <2> HIDE DEF p
  <2> QED BY <1>7, <1>8, <1>10, <2>1 DEF Stacked
<1> QED BY <1>11 DEF n, t

(* After a call every counter is right.                                    *)
LEMMA CallStacked ==
  ASSUME Structure, Structure', RunCall, Exact, Fits(circuit, Now')
  PROVE  AllStacked(circuit, Now')
<1> DEFINE n == Len(frames)
           s == Now
           u == Mid
           t == Now'
<1>1. /\ circuit \in Circuits /\ s \in Config(circuit) /\ u \in Config(circuit)
      /\ t \in Config(circuit)
      /\ n \in Nat \ {0} /\ n \in 1 .. n /\ Len(s.frames) = n
      /\ Moved(circuit, s, u, n) /\ Pushed(u, t, n)
  BY MidIs
<1>2. Stacked(circuit, t, n + 1) /\ Stacked(circuit, t, n)
  BY ChildStacked, CallerStacked
<1>3. AllStacked(circuit, s)
  <2>1. ~panicked
    BY DEF RunCall, Running
  <2> QED BY <2>1 DEF Exact
<1> HIDE DEF n, s, u, t
<1>4. /\ Len(t.frames) = n + 1 /\ \A k \in 1 .. n : u.frames[k] = t.frames[k]
  BY <1>1 DEF Pushed
<1>5. /\ \A k \in 1 .. n : k # n => u.frames[k] = s.frames[k]
      /\ u.frames[n].comp = s.frames[n].comp
  BY <1>1 DEF Moved
<1>6. \A k \in 1 .. n : k # n => Alike(circuit, s, u, k)
  BY <1>1, TopMoves
<1>7. \A k \in 1 .. n : Alike(circuit, u, t, k)
  BY <1>1, FramePushed
<1>8. ASSUME NEW k \in 1 .. n, k # n
      PROVE  Stacked(circuit, t, k)
  <2>1. k \in 1 .. Len(s.frames) /\ k < Len(s.frames) /\ k < Len(t.frames) /\ k + 1 \in 1 .. n
    BY <1>1, <1>4, <1>8
  <2>2. t.frames[k] = s.frames[k]
    BY <1>4, <1>5, <1>8
  <2>3. t.frames[k + 1].comp = s.frames[k + 1].comp
    <3>1. t.frames[k + 1] = u.frames[k + 1]
      BY <1>4, <2>1
    <3>2. CASE k + 1 = n
      BY <1>5, <3>1, <3>2
    <3>3. CASE k + 1 # n
      BY <1>5, <2>1, <3>1, <3>3
    <3> QED BY <3>2, <3>3
  <2>4. Alike(circuit, s, t, k)
    BY <1>6, <1>7, <1>8 DEF Alike
  <2>5. Stacked(circuit, s, k)
    BY <1>3, <2>1 DEF AllStacked
  <2> QED BY <1>1, <2>1, <2>2, <2>3, <2>4, <2>5, StackedUnder
<1>9. \A k \in 1 .. n + 1 : k = n + 1 \/ k = n \/ (k \in 1 .. n /\ k # n)
  BY <1>1
<1>10. AllStacked(circuit, t)
  BY <1>2, <1>4, <1>8, <1>9 DEF AllStacked
<1> QED BY <1>10 DEF t

(* The reads the child has of its arguments are the promised ones, and for *)
(* every wire they and the reads by the call make the difference.          *)
LEMMA CallOwes ==
  ASSUME Structure, Structure', RunCall, Exact, Fits(circuit, Now')
  PROVE  LET tt == Names(circuit, Now', Len(frames) + 1)
         IN  /\ PromisedReads(circuit, Callee, Promised, tt)
             /\ \A w \in Keys :
                  /\ Owing(circuit, Now, w) + Weighed(Args, w, tt)
                       = Owing(circuit, Now', w) + Occurrences(Args, w)
                  /\ Owing(circuit, Now, w) \in Nat /\ Owing(circuit, Now', w) \in Nat
                  /\ Occurrences(Args, w) \in Nat
<1> DEFINE n == Len(frames)
           s == Now
           u == Mid
           t == Now'
           h == n + 1
           r == Len(Names0)
           nin == circuit[Callee].nin
           tt == Names(circuit, t, h)
           N == CreatedBy(circuit, circuit[Callee].body, 1)
<1>1. /\ circuit \in Circuits /\ s \in Config(circuit) /\ u \in Config(circuit)
      /\ t \in Config(circuit)
      /\ n \in Nat \ {0} /\ s.frames[n] = Top /\ t.frames[n + 1] = Child
      /\ Pushed(u, t, n) /\ ReadOff(circuit, s, u, n, Names0, r)
  BY MidIs
<1>2. /\ Running("call") /\ Callee \in 1 .. Len(circuit)
      /\ Child.env = Args /\ Child.comp = Callee
      /\ StackGood(circuit, Callee, Promised, N, Child.credits)
  BY CallIs
<1>3. \A l \in Nat : Coming(circuit, t, h, l) = ReadIn(circuit, Callee, Promised, l)
  BY ChildReads
<1>4. Len(t.frames) = h /\ h \in Nat /\ h \in 1 .. Len(t.frames) /\ t.frames[h] = Child
  BY <1>1 DEF Pushed
<1>5. Args = Reals(Top.env, Names0)
  BY <1>2 DEF Args, Names0, Operands, Running
<1>6. nin \in Nat /\ N \in Nat
  BY <1>1, <1>2, ComponentIs DEF StackGood
<1> HIDE DEF n, s, u, t, h, r, nin, N
<1>9. PromisedReads(circuit, Callee, Promised, tt)
  <2> SUFFICES ASSUME NEW p \in 1 .. nin
               PROVE  tt[p] = ReadIn(circuit, Callee, Promised, p + 1)
                      /\ ReadIn(circuit, Callee, Promised, p + 1) <= MaxCredits
    BY DEF PromisedReads, nin
  <2> DEFINE l == p + 1
  <2>1. p \in Nat /\ l \in Nat /\ l \in FirstMock .. FirstMock - 1 + nin + N
    BY <1>6 DEF FirstMock
  <2>2. tt[p] = Coming(circuit, t, h, p + 1)
    BY <1>1, <1>4, <2>1, ComingNat
  <2> HIDE DEF tt, l
  <2>3. Coming(circuit, t, h, l) <= MaxCredits
    <3>1. t.frames[h].comp = Callee
      BY <1>2, <1>4
    <3> QED BY <1>4, <2>1, <3>1 DEF Fits, nin, N, t
  <2>4. Coming(circuit, t, h, l) = ReadIn(circuit, Callee, Promised, l)
    BY <1>3, <2>1
  <2> QED BY <2>2, <2>3, <2>4 DEF l
<1> HIDE DEF tt
<1>10. ASSUME NEW w \in Keys
       PROVE  /\ Owing(circuit, s, w) + Weighed(Args, w, tt) = Owing(circuit, t, w) + Occurrences(Args, w)
              /\ Owing(circuit, s, w) \in Nat /\ Owing(circuit, t, w) \in Nat
              /\ Occurrences(Args, w) \in Nat
  <2> DEFINE b == Occurrences(Args, w)
             c == Owing(circuit, u, w)
             d == Weighed(Args, w, tt)
  <2>1. Owing(circuit, s, w) = c + b /\ b \in Nat
    <3>1. /\ Owing(circuit, s, w) = c + Occurrences(Reals(s.frames[n].env, Names0), w)
          /\ Occurrences(Reals(s.frames[n].env, Names0), w) \in Nat
      BY <1>1, TopReads
    <3> QED BY <1>1, <1>5, <3>1
  <2>2. Owing(circuit, t, w) = c + d
    <3>1. Owing(circuit, t, w) = c + Owed(circuit, t, h, w)
      BY <1>1, FramePushed DEF h
    <3>2. Owed(circuit, t, h, w) = d
      BY <1>2, <1>4 DEF Owed, tt
    <3> QED BY <3>1, <3>2
  <2>3. c \in Nat /\ Owing(circuit, s, w) \in Nat /\ Owing(circuit, t, w) \in Nat
    BY <1>1, OwedNat
  <2>4. d \in Nat
    <3>1. Owed(circuit, t, h, w) \in Nat /\ Owed(circuit, t, h, w) = d
      BY <1>1, <1>2, <1>4, OwedNat DEF Owed, tt
    <3> QED BY <3>1
  <2> HIDE DEF b, c, d
  <2>5. Owing(circuit, s, w) + d = Owing(circuit, t, w) + b
    BY <2>1, <2>2, <2>3, <2>4
  <2> QED BY <2>1, <2>3, <2>5 DEF b, d
<1> QED BY <1>9, <1>10 DEF tt, s, t, h, n

(* The grants less the reads used up are what the child owes, so that      *)
(* every slot has the credits it needs.                                    *)
LEMMA CallPaid ==
  ASSUME Structure, Structure', RunCall, Exact, Fits(circuit, Now'), ~panicked'
  PROVE  AllPaid(circuit, Now', store')
<1> DEFINE tt == Names(circuit, Now', Len(frames) + 1)
           m == CallMachine
<1>1. /\ PromisedReads(circuit, Callee, Promised, tt)
      /\ \A w \in Keys :
           /\ Owing(circuit, Now, w) + Weighed(Args, w, tt)
                = Owing(circuit, Now', w) + Occurrences(Args, w)
           /\ Owing(circuit, Now, w) \in Nat /\ Owing(circuit, Now', w) \in Nat
           /\ Occurrences(Args, w) \in Nat
  BY CallOwes
<1>2. /\ Running("call") /\ Callee \in 1 .. Len(circuit) /\ circuit \in Circuits /\ Settle(m)
      /\ Args \in Seq(Wire) /\ Len(Args) = circuit[Callee].nin /\ Counts(Promised, Outs)
  BY CallIs
<1>3. AllPaid(circuit, Now, store) /\ store \in [Slots -> Entry]
  BY <1>2 DEF Running, Exact, Structure, Types
<1>4. m = Perform[GrantThenUnpin(Args, InputGrants(Template(circuit, Callee), Promised))]
  BY DEF CallMachine
<1> HIDE DEF m, tt
<1>5. /\ m \in Machine
      /\ \A v : m.ok /\ PromisedReads(circuit, Callee, Promised, v) =>
           \A w \in Keys :
             /\ Credit(m.store, w) + Occurrences(Args, w) = Credit(store, w) + Weighed(Args, w, v)
             /\ Occurrences(Args, w) \in Nat /\ Weighed(Args, w, v) \in Nat
  <2>1. Counts(Promised, Len(circuit[Callee].outs))
    BY <1>2 DEF Outs
  <2> QED BY <1>2, <1>3, <1>4, <2>1, CallAccesses
<1>6. store' = m.store /\ m.ok /\ \A w \in Keys : Credit(m.store, w) \in Nat
  BY <1>2, <1>5, SettleIs, MachineIs
<1> SUFFICES ASSUME NEW w \in Keys PROVE Credit(store', w) = Owing(circuit, Now', w)
  BY DEF AllPaid
<1> DEFINE a == Credit(store', w)
           b == Occurrences(Args, w)
           d == Weighed(Args, w, tt)
           x == Owing(circuit, Now, w)
           y == Owing(circuit, Now', w)
<1>7. a + b = Credit(store, w) + d /\ b \in Nat /\ d \in Nat /\ a \in Nat
  BY <1>1, <1>5, <1>6
<1>8. Credit(store, w) = x
  BY <1>3 DEF AllPaid
<1>9. x + d = y + b /\ x \in Nat /\ y \in Nat
  BY <1>1
<1> HIDE DEF a, b, d, x, y
<1>10. a = y
  BY <1>7, <1>8, <1>9
<1> QED BY <1>10 DEF a, y

(* A call keeps the counts exact: the caller's read of each argument is    *)
(* exchanged for the reads the child has of it.                            *)
LEMMA CallExact == ASSUME Structure, Structure', Exact, RunCall, Fits(circuit', Now') PROVE Exact'
<1>1. circuit' = circuit
  BY DEF RunCall
<1>2. Fits(circuit, Now')
  BY <1>1
<1>3. AllStacked(circuit, Now')
  BY <1>2, CallStacked
<1>4. ~panicked' => AllPaid(circuit, Now', store')
  <2> SUFFICES ASSUME ~panicked' PROVE AllPaid(circuit, Now', store')
    OBVIOUS
  <2> QED BY <1>2, CallPaid
<1> QED BY <1>1, <1>3, <1>4 DEF Exact

(* The configuration without the frame that returns.                       *)
Beneath == [frames |-> SubSeq(frames, 1, Len(frames) - 1), decoded |-> 0, inputs |-> {}]

(* s gives way to t: the top frame of s, finished, hands xs to the one     *)
(* under it; u is what is left of s without it.                            *)
HandsBack(crt, s, u, t, h, xs) ==
  /\ h \in Nat \ {0} /\ h \in 1 .. h /\ Len(t.frames) = h /\ Len(s.frames) = h + 1 /\ s.inputs = {}
  /\ Pushed(u, s, h)
  /\ \A k \in 1 .. h : Alike(crt, u, t, k) /\ t.frames[k].comp = s.frames[k].comp
  /\ \A k \in 1 .. h : k # h => t.frames[k] = s.frames[k]
  /\ t.frames[h].credits = s.frames[h].credits
  /\ t.frames[h].env = s.frames[h].env \o xs
  /\ xs \in Seq(Wire) /\ xs = Reals(s.frames[h + 1].env, crt[s.frames[h + 1].comp].outs)
  /\ Len(xs) = Len(crt[s.frames[h + 1].comp].outs)
  /\ Within(crt[s.frames[h + 1].comp].outs, Len(xs), Len(s.frames[h + 1].env))
  /\ s.frames[h + 1].pc > Len(crt[s.frames[h + 1].comp].body)

(* A return is such a step.                                                *)
LEMMA ReturnHands ==
  ASSUME Structure, Structure', RunReturn
  PROVE  /\ circuit \in Circuits /\ Now \in Config(circuit) /\ Now' \in Config(circuit)
         /\ Beneath \in Config(circuit)
         /\ HandsBack(circuit, Now, Beneath, Now', Len(frames) - 1, Returned)
<1> DEFINE n == Len(frames)
           h == n - 1
           s == Now
           t == Now'
           u == Beneath
           outs == circuit[Top.comp].outs
<1>1. /\ phase = "run" /\ Finished(Top)
      /\ n \in Nat /\ n > 1 /\ h \in 1 .. n /\ h \in Nat
      /\ Len(Returned) = Len(outs) /\ Returned \in Seq(Wire)
      /\ Within(outs, Len(outs), Len(Top.env))
      /\ Resumed.comp = Under.comp /\ Resumed.pc = Under.pc
      /\ Resumed.credits = Under.credits /\ Resumed.env = Under.env \o Returned
      /\ Len(frames') = h /\ frames'[h] = Resumed /\ \A k \in 1 .. n - 2 : frames'[k] = frames[k]
      /\ UNCHANGED <<circuit, input, phase, cursor, store, pool, output, panicked>>
  BY ReturnIs
<1>2. /\ circuit \in Circuits /\ s \in Config(circuit) /\ t \in Config(circuit)
      /\ s.frames = frames /\ t.frames = frames' /\ s.decoded = 0 /\ t.decoded = 0
      /\ s.inputs = {} /\ t.inputs = {}
  BY <1>1, RunNow
<1>3. Under = frames[h] /\ Top = frames[n] /\ Returned = Reals(Top.env, outs)
  BY DEF Under, Top, Returned
<1>4. /\ u \in Config(circuit) /\ u.decoded = 0 /\ u.inputs = {} /\ Len(u.frames) = h
      /\ \A k \in 1 .. h : u.frames[k] = frames[k]
  <2> DEFINE p == SubSeq(frames, 1, h)
             T == Frame(circuit)
  <2>1. frames \in Seq(T) /\ h \in Nat /\ h <= Len(frames)
    BY <1>1 DEF Structure, Types
  <2> HIDE DEF T, h
  <2>2. p \in Seq(T) /\ Len(p) = h /\ \A k \in 1 .. h : p[k] = frames[k]
    BY <2>1, PrefixIs
  <2>3. u = [frames |-> p, decoded |-> 0, inputs |-> {}]
    BY DEF Beneath, h
  <2> HIDE DEF p, u
  <2> QED BY <2>2, <2>3 DEF Config, T
<1>5. h \in Nat \ {0} /\ h \in 1 .. h /\ h + 1 = n
  BY <1>1
<1>6. Top.pc > Len(circuit[Top.comp].body)
  BY <1>1 DEF Finished, CompOf
<1>7. \A k \in 1 .. h : k # h => k \in 1 .. n - 2
  BY <1>1
<1> HIDE DEF n, s, t, u
<1>8. \A k \in 1 .. h : k # h => t.frames[k] = frames[k]
  BY <1>1, <1>2, <1>7 DEF n
<1>9. t.frames[h] = Resumed /\ Len(t.frames) = h
  BY <1>1, <1>2 DEF n
<1> HIDE DEF h
<1>10. \A k \in 1 .. h : t.frames[k].comp = frames[k].comp /\ t.frames[k].pc = frames[k].pc
  <2> SUFFICES ASSUME NEW k \in 1 .. h
               PROVE  t.frames[k].comp = frames[k].comp /\ t.frames[k].pc = frames[k].pc
    OBVIOUS
  <2>1. CASE k = h
    BY <1>1, <1>3, <1>9, <2>1
  <2>2. CASE k # h
    BY <1>8, <2>2
  <2> QED BY <2>1, <2>2
<1>11. \A k \in 1 .. h : Alike(circuit, u, t, k)
  <2>1. \A k \in 1 .. h : u.frames[k].comp = t.frames[k].comp /\ u.frames[k].pc = t.frames[k].pc
    BY <1>4, <1>10
  <2>2. \A k \in 1 .. h - 1 : Len(u.frames[k].env) = Len(t.frames[k].env)
    <3>1. \A k \in 1 .. h - 1 : k \in 1 .. h /\ k # h
      BY <1>5
    <3> QED BY <1>4, <1>8, <3>1
  <2>3. h <= Len(u.frames) /\ h <= Len(t.frames) /\ u.decoded = t.decoded /\ u.inputs = t.inputs
    BY <1>2, <1>4, <1>5, <1>9
  <2> QED BY <1>2, <1>4, <1>5, <2>1, <2>2, <2>3, AlikeBelow
<1>12. Pushed(u, s, h)
  <2>1. Len(s.frames) = h + 1
    BY <1>2, <1>5 DEF n
  <2> QED BY <1>2, <1>4, <1>5, <2>1 DEF Pushed
<1>13. s.frames[h + 1] = Top /\ s.frames[h] = Under /\ Len(s.frames) = h + 1
  BY <1>2, <1>3, <1>5 DEF n
<1>14. HandsBack(circuit, s, u, t, h, Returned)
  BY <1>1, <1>2, <1>3, <1>5, <1>6, <1>8, <1>9, <1>10, <1>11, <1>12, <1>13 DEF HandsBack
<1> QED BY <1>2, <1>4, <1>14 DEF n, h, s, t, u

(* What a returning frame still owed, through its outputs, is what the     *)
(* frame under it owes for their new names.                                *)
LEMMA HandedOwed ==
  ASSUME NEW crt \in Circuits, NEW s \in Config(crt), NEW u \in Config(crt), NEW t \in Config(crt),
         NEW h, NEW xs, HandsBack(crt, s, u, t, h, xs), NEW w \in Keys
  PROVE  Owing(crt, t, w) = Owing(crt, s, w)
<1> DEFINE f == s.frames[h + 1]
           c == crt[f.comp]
           outs == c.outs
           r == Len(xs)
           m == Len(f.env)
           b == Len(s.frames[h].env)
           e == [j \in Nat |-> Coming(crt, s, h, b + j + 1)]
           d == Names(crt, s, h + 1)
           x == Owing(crt, u, w)
           y == Weighed(xs, w, e)
<1>1. /\ h \in Nat \ {0} /\ h \in 1 .. h /\ Len(t.frames) = h /\ Len(s.frames) = h + 1 /\ s.inputs = {}
      /\ Pushed(u, s, h)
      /\ \A k \in 1 .. h : Alike(crt, u, t, k)
      /\ \A k \in 1 .. h : k # h => t.frames[k] = s.frames[k]
      /\ t.frames[h].env = s.frames[h].env \o xs
      /\ xs \in Seq(Wire) /\ xs = Reals(f.env, outs)
      /\ r = Len(outs) /\ Within(outs, r, m) /\ f.pc > Len(c.body)
  BY DEF HandsBack
<1>2. /\ h + 1 \in 1 .. Len(s.frames) /\ h \in 1 .. Len(s.frames)
  <2>1. h \in Nat \ {0} /\ Len(s.frames) = h + 1
    BY <1>1
  <2> QED BY ONLY <2>1
<1>3. /\ f.comp \in 1 .. Len(crt) /\ f.pc \in Nat /\ m \in Nat /\ DOMAIN f.env = 1 .. m
      /\ b \in Nat /\ s.frames[h].env \in Seq(Wire) /\ r \in Nat /\ DOMAIN xs = 1 .. r
  <2>1. f.comp \in 1 .. Len(crt) /\ f.pc \in Nat /\ m \in Nat /\ DOMAIN f.env = 1 .. m
    BY <1>2, ConfigIs
  <2>2. b \in Nat /\ s.frames[h] \in Frame(crt)
    BY <1>2, ConfigIs
  <2>3. s.frames[h].env \in Seq(Wire)
    BY <2>2, FrameIs
  <2>4. r \in Nat /\ DOMAIN xs = 1 .. r
    <3>1. xs \in Seq(Wire)
      BY <1>1
    <3> QED BY ONLY <3>1
  <2> QED BY <2>1, <2>2, <2>3, <2>4
<1>4. \A l \in Nat : Coming(crt, s, h + 1, l) = Reads(c.body, f.pc, l) + Weighed(outs, l, e)
                     /\ Weighed(outs, l, e) \in Nat
  BY ZenonT(60), <1>1, HandedBack
<1>5. \A l \in Nat : Reads(c.body, f.pc, l) = 0
  <2>1. f.comp \in 1 .. Len(crt) /\ f.pc \in Nat /\ f.pc > Len(crt[f.comp].body)
    BY <1>1, <1>3
  <2> HIDE DEF f
  <2>2. \A l \in Nat : Reads(crt[f.comp].body, f.pc, l) = 0
    BY <2>1, ReadsAre
  <2> QED BY <2>2
<1>6. \A j \in Nat : d[j] = Coming(crt, s, h + 1, j + 1)
  BY <1>2, ComingNat
<1>7. Len(u.frames) = h /\ \A k \in 1 .. h : u.frames[k] = s.frames[k]
  BY <1>1 DEF Pushed
<1>8. /\ Owing(crt, s, w) = x + Owed(crt, s, h + 1, w)
      /\ Alike(crt, u, s, h)
  <2>1. Pushed(u, s, h) /\ h \in 1 .. h
    BY <1>1
  <2>2. Owing(crt, s, w) = Owing(crt, u, w) + Owed(crt, s, h + 1, w)
    BY <2>1, FramePushed
  <2>3. \A k \in 1 .. h : Alike(crt, u, s, k)
    BY <2>1, FramePushed
  <2> QED BY <2>1, <2>2, <2>3
<1>9. Owed(crt, s, h + 1, w) = Weighed(f.env, w, d)
  BY DEF Owed
<1> HIDE DEF e, d, x, f, c, outs, r, m, b
<1>10. \A j \in 1 .. r : e[j] = Coming(crt, u, h, b + j + 1) /\ e[j] \in Nat
  <2> SUFFICES ASSUME NEW j \in 1 .. r PROVE e[j] = Coming(crt, u, h, b + j + 1) /\ e[j] \in Nat
    OBVIOUS
  <2> DEFINE l == b + j + 1
  <2>1. j \in Nat /\ l \in Nat
    BY <1>3
  <2>2. e[j] = Coming(crt, s, h, l)
    BY <2>1 DEF e
  <2> HIDE DEF l
  <2>3. Coming(crt, s, h, l) = Coming(crt, u, h, l) /\ Coming(crt, s, h, l) \in Nat
    BY <1>2, <1>8, <2>1, ComingNat DEF Alike
  <2> QED BY <2>2, <2>3 DEF l
<1>11. ComesTo(d, outs, e, m)
  <2> SUFFICES ASSUME NEW i \in 1 .. m PROVE d[i] = Weighed(outs, i + 1, e)
    BY DEF ComesTo
  <2> DEFINE l == i + 1
             v == Weighed(outs, l, e)
  <2>1. i \in Nat /\ l \in Nat
    BY <1>3
  <2>2. d[i] = Coming(crt, s, h + 1, l)
    BY <1>6, <2>1
  <2> HIDE DEF l
  <2>3. Coming(crt, s, h + 1, l) = 0 + v /\ v \in Nat
    BY <1>4, <1>5, <2>1
  <2> HIDE DEF v
  <2>4. Coming(crt, s, h + 1, l) = v
    BY <2>3
  <2> QED BY <2>2, <2>4 DEF l, v
<1>12. Weighed(f.env, w, d) = y
  <2>1. Counts(e, r)
    BY <1>10 DEF Counts
  <2>2. Weighed(f.env, w, d) = Weighed(Reals(f.env, outs), w, e)
    BY <1>1, <1>3, <1>11, <2>1, NamesWeigh
  <2> QED BY <1>1, <2>2
<1>13. Learnt(crt, u, t, h, xs, r, e)
  <2>1. u.frames[h].env = s.frames[h].env
    BY <1>1, <1>7
  <2> DEFINE a == s.frames[h].env
  <2>2. a \in Seq(Wire) /\ Len(a) = b /\ t.frames[h].env = a \o xs /\ Len(xs) = r
    BY <1>1, <1>3 DEF b, r
  <2> HIDE DEF a
  <2>3. /\ Len(a \o xs) = b + r
        /\ \A j \in 1 .. b : (a \o xs)[j] = a[j]
        /\ \A j \in 1 .. r : (a \o xs)[b + j] = xs[j]
    <3>1. /\ Len(a \o xs) = Len(a) + Len(xs)
          /\ \A j \in 1 .. Len(a) : (a \o xs)[j] = a[j]
          /\ \A j \in 1 .. Len(xs) : (a \o xs)[Len(a) + j] = xs[j]
      <4>1. a \in Seq(Wire) /\ xs \in Seq(Wire)
        BY <1>1, <2>2
      <4> QED BY ONLY <4>1, JoinIs
    <3> QED BY ONLY <2>2, <3>1
  <2>4. \A k \in 1 .. h : k # h => u.frames[k].env = t.frames[k].env
    BY <1>1, <1>7
  <2>5. /\ Len(u.frames[h].env) = b /\ Len(t.frames[h].env) = b + r
        /\ \A j \in 1 .. b : t.frames[h].env[j] = u.frames[h].env[j]
        /\ \A j \in 1 .. r : t.frames[h].env[b + j] = xs[j]
    BY <2>1, <2>2, <2>3 DEF a
  <2> QED BY <1>1, <1>3, <1>7, <1>10, <2>4, <2>5 DEF Learnt
<1>14. Owing(crt, t, w) = x + y
  BY <1>13, TopLearns DEF x
<1> QED BY <1>8, <1>9, <1>12, <1>14

(* The counters of the frames under it stay right.                         *)
LEMMA HandedStacked ==
  ASSUME NEW crt \in Circuits, NEW s \in Config(crt), NEW u \in Config(crt), NEW t \in Config(crt),
         NEW h, NEW xs, HandsBack(crt, s, u, t, h, xs), AllStacked(crt, s)
  PROVE  AllStacked(crt, t)
<1> DEFINE g == s.frames[h]
           o == Len(crt[s.frames[h + 1].comp].outs)
<1>1. /\ h \in Nat \ {0} /\ h \in 1 .. h /\ Len(t.frames) = h /\ Len(s.frames) = h + 1
      /\ Pushed(u, s, h)
      /\ \A k \in 1 .. h : Alike(crt, u, t, k) /\ t.frames[k].comp = s.frames[k].comp
      /\ \A k \in 1 .. h : k # h => t.frames[k] = s.frames[k]
      /\ t.frames[h].credits = g.credits /\ t.frames[h].env = g.env \o xs
      /\ xs \in Seq(Wire) /\ Len(xs) = o
  BY DEF HandsBack
<1>2. \A k \in 1 .. h : k \in 1 .. Len(s.frames) /\ k < Len(s.frames) /\ h < h + 1
  <2>1. h \in Nat \ {0} /\ Len(s.frames) = h + 1
    BY <1>1
  <2> QED BY ONLY <2>1
<1>3. \A k \in 1 .. h : Alike(crt, s, t, k)
  <2>1. \A k \in 1 .. h : Alike(crt, u, s, k)
    BY <1>1, FramePushed
  <2> QED BY <1>1, <2>1 DEF Alike
<1>4. ASSUME NEW k \in 1 .. h, k # h
      PROVE  Stacked(crt, t, k)
  <2>1. k < Len(t.frames) /\ k + 1 \in 1 .. h
    <3>1. h \in Nat /\ Len(t.frames) = h
      BY <1>1
    <3> QED BY ONLY <3>1, <1>4
  <2>2. t.frames[k] = s.frames[k] /\ t.frames[k + 1].comp = s.frames[k + 1].comp
    BY <1>1, <1>4, <2>1
  <2>3. k \in 1 .. Len(s.frames) /\ k < Len(s.frames)
    BY <1>2
  <2>4. Stacked(crt, s, k)
    BY <2>3 DEF AllStacked
  <2>5. Alike(crt, s, t, k)
    BY <1>3
  <2> QED BY ONLY <2>1, <2>2, <2>3, <2>4, <2>5, StackedUnder, crt \in Circuits, s \in Config(crt),
                  t \in Config(crt)
<1>5. Stacked(crt, t, h)
  <2> DEFINE b == BoundIn(crt, s.frames, h)
             q == Len(g.credits)
  <2>1. h \in 1 .. Len(s.frames)
    BY <1>1, <1>2
  <2>2. b \in Nat
    BY <2>1, BoundNat
  <2>3. g \in Frame(crt)
    BY <2>1, ConfigIs
  <2>4. q \in Nat /\ g.env \in Seq(Wire)
    BY <2>3, FrameIs
  <2>5. b = Len(g.env) + o
    BY <1>1, <1>2 DEF BoundIn
  <2>6. BoundIn(crt, t.frames, h) = b
    <3> DEFINE a == g.env
    <3>1. a \in Seq(Wire) /\ xs \in Seq(Wire) /\ Len(xs) = o
      BY <1>1, <2>4
    <3>2. t.frames[h].env = a \o xs
      BY <1>1
    <3>3. b = Len(a) + o
      BY <2>5
    <3> HIDE DEF a, o, b
    <3>4. Len(a \o xs) = Len(a) + Len(xs)
      BY ONLY <3>1, JoinIs
    <3>5. Len(t.frames[h].env) = b
      BY <3>1, <3>2, <3>3, <3>4
    <3>6. h \in Nat /\ Len(t.frames) = h /\ Len(t.frames[h].env) \in Nat
      BY <1>1, <2>2, <3>5
    <3>7. BoundIn(crt, t.frames, h) = Len(t.frames[h].env)
      BY ONLY <3>6, TopBound
    <3> QED BY <3>5, <3>7
  <2> HIDE DEF b, q, g, o
  <2>7. \A i \in 1 .. q : b + i + 1 \in Nat
    BY <2>2, <2>4
  <2>8. \A i \in 1 .. q : Coming(crt, s, h, b + i + 1) = Coming(crt, t, h, b + i + 1)
    <3>1. Alike(crt, s, t, h)
      BY <1>1, <1>3
    <3> QED BY <2>7, <3>1 DEF Alike
  <2>9. Stacked(crt, s, h)
    BY <2>1 DEF AllStacked
  <2>10. t.frames[h].credits = s.frames[h].credits
    BY <1>1 DEF g
  <2> QED BY <2>6, <2>8, <2>9, <2>10, StackedSame DEF b, q, g
<1> QED BY <1>1, <1>4, <1>5 DEF AllStacked

(* A return keeps the counts exact.                                        *)
LEMMA ReturnExact == ASSUME Structure, Structure', Exact, RunReturn PROVE Exact'
<1> DEFINE h == Len(frames) - 1
           s == Now
           t == Now'
           u == Beneath
           xs == Returned
<1>1. /\ circuit \in Circuits /\ s \in Config(circuit) /\ t \in Config(circuit)
      /\ u \in Config(circuit) /\ HandsBack(circuit, s, u, t, h, xs)
  BY ReturnHands
<1>2. ~panicked /\ circuit' = circuit /\ store' = store
  BY DEF RunReturn
<1>3. AllStacked(circuit, s) /\ AllPaid(circuit, s, store)
  BY <1>2 DEF Exact
<1> HIDE DEF h, s, t, u, xs
<1>4. AllStacked(circuit, t)
  BY <1>1, <1>3, HandedStacked
<1>5. \A w \in Keys : Owing(circuit, t, w) = Owing(circuit, s, w)
  BY <1>1, HandedOwed
<1>6. AllPaid(circuit, t, store')
  BY <1>2, <1>3, <1>5 DEF AllPaid
<1> QED BY <1>2, <1>4, <1>6 DEF Exact, t

(* A run starts with exact counts: nothing is allocated or owed.           *)
LEMMA ExactInit == ASSUME Init PROVE Exact
<1>1. Structure /\ store = EmptyStore /\ frames = <<>> /\ circuit \in Circuits
  BY StructureInit DEF Init
<1>2. Now \in Config(circuit) /\ Now.frames = frames
  BY <1>1, NowIs
<1>3. AllStacked(circuit, Now)
  BY <1>1, <1>2 DEF AllStacked
<1>4. ASSUME NEW w \in Keys
      PROVE  Credit(store, w) = Owing(circuit, Now, w)
  <2> DEFINE n == Len(Now.frames)
             o == Owes(circuit, Now, w)
  <2>1. n = 0 /\ n \in Nat
    BY <1>1, <1>2
  <2>2. o \in Nums(n)
    BY <1>1, <1>2, OwedNat
  <2>3. Owing(circuit, Now, w) = Total[o]
    BY DEF Owing
  <2> HIDE DEF n, o
  <2>4. Total[o] = 0
    BY <2>1, <2>2, TotalZero
  <2> QED BY <1>1, <2>3, <2>4, EmptyIs
<1> QED BY <1>3, <1>4 DEF Exact, AllPaid

(* A step that changes nothing keeps them exact.                           *)
LEMMA IdleExact == ASSUME Exact, UNCHANGED vars PROVE Exact'
<1>1. Decoded' = Decoded
  BY DEF vars, Decoded, Root
<1>2. \A p \in Nat : Uncollected(p)' <=> Uncollected(p)
  <2>1. NInputs' = NInputs
    BY DEF vars, NInputs, Root
  <2> QED BY <2>1 DEF vars, Uncollected
<1>3. Now' = Now
  BY <1>1, <1>2, NowSame DEF vars
<1> QED BY <1>3 DEF vars, Exact, AllPaid

(* The counts of a state fit.                                              *)
CountsHeld == Fits(circuit, Now)

(* Every step of the run keeps the counts exact, as long as they fit.      *)
LEMMA ExactStep == ASSUME Structure, Structure', Exact, CountsHeld', [Next]_vars PROVE Exact'
<1>1. Fits(circuit', Now')
  BY DEF CountsHeld
<1>2. CASE UNCHANGED vars
  BY <1>2, IdleExact
<1>3. CASE Next
  BY <1>1, <1>3, EnterExact, AllocateExact, EncodeExact, CollectExact, RunIssueExact, GateExact,
     CallExact, ReturnExact, FinishExact, DecodeExact DEF Next
<1> QED BY <1>2, <1>3

(* As long as no count of reads exceeds what `Credits` can hold, every     *)
(* slot has at every moment exactly the reads its wire still has to serve, *)
(* through gates, calls, the children they enter, outputs handed back,     *)
(* collected inputs and decoded outputs; so a wire is reclaimed by its     *)
(* last read and by no other. This holds of every circuit, of any depth of *)
(* nesting and any sharing of wires.                                       *)
THEOREM CreditsInvariant == Spec /\ []CountsFit => []CreditsExact
<1>1. Init => Exact
  BY ExactInit
<1>2. Structure /\ Structure' /\ Exact /\ CountsHeld' /\ [Next]_vars => Exact'
  BY ExactStep
<1>3. Structure /\ CountsFit => CountsHeld
  BY FitsIs DEF CountsHeld
<1>4. Structure /\ Exact => CreditsExact
  BY ExactIs
<1> QED BY <1>1, <1>2, <1>3, <1>4, StructureInvariant, PTL DEF Spec

(* A total is no less than any of its terms.                               *)
LEMMA TotalHas ==
  ASSUME NEW n \in Nat, NEW f \in Nums(n), NEW k \in 1 .. n
  PROVE  Total[f] \in Nat /\ f[k] \in Nat /\ f[k] <= Total[f]
<1>1. PICK r \in Nums(n) : r[k] = 0 /\ \A i \in 1 .. n : i # k => r[i] = f[i]
  BY WithoutOne
<1>2. Total[f] = f[k] + Total[r]
  BY <1>1, TotalSplit
<1>3. Total[f] \in Nat /\ Total[r] \in Nat
  BY <1>1, TotalNat
<1>4. f[k] \in Nat
  BY DEF Nums
<1> QED BY <1>2, <1>3, <1>4

(* So a wire at some place weighs at least what that place does.           *)
LEMMA WeighedHas ==
  ASSUME NEW n \in Nat, NEW s, DOMAIN s = 1 .. n, NEW d, Counts(d, n), NEW j \in 1 .. n
  PROVE  /\ Weighed(s, s[j], d) \in Nat /\ d[j] \in Nat /\ d[j] <= Weighed(s, s[j], d)
<1> DEFINE f == Weights(s, s[j], d)
<1>1. f \in Nums(n) /\ f[j] = d[j]
  BY WeightsAre
<1> HIDE DEF f
<1>2. Total[f] \in Nat /\ f[j] \in Nat /\ f[j] <= Total[f]
  BY <1>1, TotalHas
<1> QED BY <1>1, <1>2 DEF Weighed, f

(* A slot whose wire is still read has credits.                            *)
LEMMA LivePaid ==
  ASSUME NEW crt \in Circuits, NEW s \in Config(crt), NEW st, AllPaid(crt, s, st),
         NEW k, NEW j, Live(crt, s, k, j), WireAt(s, k, j) \in Keys
  PROVE  Credit(st, WireAt(s, k, j)) > 0
<1> DEFINE w == WireAt(s, k, j)
           env == s.frames[k].env
           n == Len(env)
           d == Names(crt, s, k)
<1>1. k \in 1 .. Len(s.frames) /\ j \in 1 .. n /\ Coming(crt, s, k, j + 1) # 0
  BY DEF Live, IsBound
<1>2. Len(s.frames) \in Nat /\ n \in Nat /\ DOMAIN env = 1 .. n
  BY <1>1, ConfigIs
<1>3. Counts(d, n)
  BY <1>1, <1>2, ComingNat
<1>4. d[j] = Coming(crt, s, k, j + 1)
  <2>1. j \in Nat
    BY <1>1, <1>2
  <2> QED BY <1>1, <2>1, ComingNat
<1>5. env[j] = w
  BY DEF WireAt
<1> HIDE DEF d, env, n, w
<1>6. Weighed(env, w, d) \in Nat /\ d[j] \in Nat /\ d[j] <= Weighed(env, w, d)
  <2>1. Weighed(env, env[j], d) \in Nat /\ d[j] \in Nat /\ d[j] <= Weighed(env, env[j], d)
    BY <1>1, <1>2, <1>3, WeighedHas
  <2> QED BY <1>5, <2>1
<1>7. Owes(crt, s, w) \in Nums(Len(s.frames)) /\ Owes(crt, s, w)[k] = Weighed(env, w, d)
  BY <1>1, OwedNat DEF Owed, env, d
<1>8. Owes(crt, s, w)[k] <= Owing(crt, s, w) /\ Owing(crt, s, w) \in Nat
  BY <1>1, <1>2, <1>7, TotalHas DEF Owing
<1>9. Credit(st, w) = Owing(crt, s, w)
  BY DEF AllPaid, w
<1>10. d[j] # 0
  BY <1>1, <1>4
<1> QED BY <1>6, <1>7, <1>8, <1>9, <1>10 DEF w

(* A name with a value that is still read can be read, and its wire has    *)
(* the value.                                                              *)
LEMMA NameReady ==
  ASSUME NEW crt \in Circuits, NEW s \in Config(crt), NEW st, AllPaid(crt, s, st),
         NEW own, NEW fed, NEW val, Good(crt, s, st, own, fed, val),
         NEW k \in 1 .. Len(s.frames), NEW l \in 0 .. Len(s.frames[k].env) + 1,
         l \notin Constants => l \in fed[k] /\ Coming(crt, s, k, l) # 0 /\ val[k][l - 1] \in BOOLEAN
  PROVE  /\ Ready(st, Real(s.frames[k].env, l))
         /\ Holds(st, Real(s.frames[k].env, l), ValIn(val[k], l))
<1> DEFINE w == Real(s.frames[k].env, l)
<1>1. CASE l \in Constants
  <2>1. w = l /\ ValIn(val[k], l) = (l = TRUE_WIRE)
    BY <1>1 DEF Real, ValIn
  <2> QED BY <1>1, <2>1 DEF Ready, Holds
<1>2. CASE l \notin Constants
  <2> DEFINE j == l - 1
  <2>1. Len(s.frames[k].env) \in Nat
    BY ConfigIs
  <2>2. j \in 1 .. Len(s.frames[k].env) /\ j + 1 = l
    BY <1>2, <2>1 DEF Constants, FALSE_WIRE, TRUE_WIRE
  <2>3. w = WireAt(s, k, j) /\ ValIn(val[k], l) = val[k][j]
    BY <1>2 DEF Real, ValIn, WireAt, FirstMock
  <2> HIDE DEF j, w
  <2>4. Live(crt, s, k, j)
    BY <1>2, <2>2 DEF Live, IsBound
  <2>5. Holds(st, w, val[k][j]) /\ w # UNREACHABLE
    BY <1>2, <2>2, <2>3, <2>4 DEF Good, Valued, Reachable
  <2>6. w \in Wire
    BY <2>2, <2>3, ConfigIs DEF WireAt
  <2>7. CASE w \in Constants
    BY <2>3, <2>5, <2>7 DEF Ready, w
  <2>8. CASE w \in Keys
    <3>1. Credit(st, w) > 0
      BY <2>3, <2>4, <2>8, LivePaid
    <3>2. w \notin Constants
      BY <2>8, KeysAre
    <3>3. Value(st, w) = val[k][j] /\ val[k][j] \in BOOLEAN
      BY <1>2, <2>5, <3>2 DEF Holds, j
    <3>4. NoData \notin BOOLEAN
      BY CircuitsAssumption, StorageAssumption
    <3> QED BY <2>3, <2>5, <2>8, <3>1, <3>3, <3>4 DEF Ready, w
  <2> QED BY <2>5, <2>6, <2>7, <2>8 DEF Wire
<1> QED BY <1>1, <1>2

(* So that is the value a gate sees.                                       *)
LEMMA HeldValue == ASSUME NEW w, NEW v, Holds(store, w, v) PROVE ValueOf(w) = v
BY KeysAre DEF Holds, ValueOf

(* Every closure is at one of its instructions or at its end; one with a   *)
(* frame above it is past the call it is in.                               *)
Lined(crt, fs) ==
  /\ \A k \in 1 .. Len(fs) : fs[k].pc \in 1 .. DoneAt(crt, fs[k].comp) + 1
  /\ \A k \in 1 .. Len(fs) : k < Len(fs) =>
       LET i == fs[k].pc - 1
       IN  /\ i \in 1 .. DoneAt(crt, fs[k].comp)
           /\ crt[fs[k].comp].body[i].op = "call"
           /\ crt[fs[k].comp].body[i].comp = fs[k + 1].comp

(* The values of the names of frame k, whose closure was called with in:   *)
(* what a direct run has after the same instructions.                      *)
ValuesIn(crt, fs, ins, k) == Goes(crt, fs[k].comp, ins[k])[fs[k].pc - 1]
Values(crt, fs, ins) == [k \in 1 .. Len(fs) |-> ValuesIn(crt, fs, ins, k)]

(* A closure is called with the values of the names its caller passes.     *)
Handed(crt, fs, ins) ==
  /\ \A k \in 1 .. Len(fs) : ins[k] \in Inputs(crt, fs[k].comp)
  /\ \A k \in 1 .. Len(fs) : k < Len(fs) =>
       ins[k + 1] = ValsIn(Goes(crt, fs[k].comp, ins[k])[fs[k].pc - 2],
                           crt[fs[k].comp].body[fs[k].pc - 1].args)

(* The names that are each closure's own.                                  *)
OwnNames(crt, fs) == [k \in 1 .. Len(fs) |-> Own(crt, fs[k].comp, fs[k].pc)]

(* The names with a value: inputs of the root in un have none yet.         *)
FedNames(crt, fs, un) ==
  [k \in 1 .. Len(fs) |-> {l \in Written(crt, fs[k].comp, fs[k].pc) : ~(k = 1 /\ l - 1 \in un)}]

(* The wires serve closures that were called with ins.                     *)
Serves(crt, s, st, un, ins) ==
  Good(crt, s, st, OwnNames(crt, s.frames), FedNames(crt, s.frames, un), Values(crt, s.frames, ins))

(* How many wires the frames have.                                         *)
LEMMA LensAre ==
  ASSUME NEW crt \in Circuits, NEW fs \in Seq(Frame(crt)), NEW u \in Nat,
         \A k \in 1 .. Len(fs) : FrameOk(crt, fs, u, k), Lined(crt, fs), NEW k \in 1 .. Len(fs)
  PROVE  LET c == fs[k].comp m == Len(fs[k].env)
         IN  /\ m \in Nat /\ BoundAt(crt, c, fs[k].pc) \in Nat /\ m <= BoundAt(crt, c, fs[k].pc)
             /\ k = Len(fs) => m + u = BoundAt(crt, c, fs[k].pc)
             /\ k < Len(fs) /\ u = 0 => m = BoundAt(crt, c, fs[k].pc - 1)
<1> DEFINE c == fs[k].comp
           m == Len(fs[k].env)
           pc == fs[k].pc
           body == crt[c].body
           N == CreatedBy(crt, body, 1)
           C == CreatedBy(crt, body, pc)
           b == BoundIn(crt, fs, k)
           z == BoundAt(crt, c, pc)
<1>1. Len(fs) \in Nat /\ fs[k] \in Frame(crt)
  BY FramesAre
<1>2. c \in 1 .. Len(crt) /\ m \in Nat /\ pc \in Nat
  BY <1>1, FrameIs
<1>3. crt[c].nin \in Nat /\ N \in Nat /\ C \in Nat
  BY <1>2, ComponentIs, CreatedAre
<1>4. b + u + C = crt[c].nin + N
  BY DEF FrameOk
<1>5. z = crt[c].nin + N - C
  <2>1. NewName(crt, c, pc) = 2 + crt[c].nin + N - C
    BY DEF NewName, FirstMock
  <2> HIDE DEF N, C
  <2> QED BY <1>3, <2>1 DEF BoundAt
<1> HIDE DEF N, C, z
<1>6. CASE k = Len(fs)
  <2>1. b = m
    BY <1>1, <1>6, TopBound
  <2>2. z = m + u
    <3> DEFINE nin == crt[c].nin
    <3>1. m \in Nat /\ nin \in Nat /\ N \in Nat /\ C \in Nat /\ u \in Nat
      BY <1>2, <1>3
    <3>2. b + u + C = nin + N /\ z = nin + N - C /\ b = m
      BY <1>4, <1>5, <2>1
    <3> HIDE DEF b, m, nin
    <3> QED BY ONLY <3>1, <3>2
  <2> QED BY <1>2, <1>6, <2>2 DEF z, m
<1>7. CASE k < Len(fs)
  <2> DEFINE o == Len(crt[fs[k + 1].comp].outs)
  <2>1. b = m + o
    BY <1>7 DEF BoundIn
  <2>2. o \in Nat
    <3>1. k + 1 \in 1 .. Len(fs)
      BY <1>1, <1>7
    <3>2. fs[k + 1].comp \in 1 .. Len(crt)
      BY <1>1, <3>1, FramesAre, FrameIs
    <3> QED BY <3>2, ComponentIs DEF NameSeq
  <2>3. z = m + o + u
    <3> DEFINE nin == crt[c].nin
    <3>1. m \in Nat /\ nin \in Nat /\ N \in Nat /\ C \in Nat /\ o \in Nat /\ u \in Nat
      BY <1>2, <1>3, <2>2
    <3>2. b + u + C = nin + N /\ z = nin + N - C /\ b = m + o
      BY <1>4, <1>5, <2>1
    <3> HIDE DEF b, m, o, nin
    <3> QED BY ONLY <3>1, <3>2
  <2>4. pc - 1 \in 1 .. DoneAt(crt, c) /\ body[pc - 1].op = "call" /\ body[pc - 1].comp = fs[k + 1].comp
    BY <1>7 DEF Lined
  <2>5. BoundAt(crt, c, pc - 1) \in Nat /\ z = BoundAt(crt, c, pc - 1) + o
    <3> DEFINE i == pc - 1
    <3>1. i \in 1 .. Len(body) /\ i + 1 = pc
      BY <1>2, <2>4 DEF DoneAt
    <3> HIDE DEF i
    <3>2. /\ BoundAt(crt, c, i + 1) = BoundAt(crt, c, i) + Created(crt, body[i])
      BY <1>2, <3>1, BoundIs
    <3>3. BoundAt(crt, c, i) \in Nat
      <4>1. i \in 1 .. Len(body) + 1
        <5>1. Len(body) \in Nat
          BY <1>2, ComponentIs
        <5> QED BY <3>1, <5>1
      <4> QED BY <1>2, <4>1, BoundIs
    <3>4. Created(crt, body[i]) = o
      BY <2>4 DEF Created, i
    <3> QED BY <3>1, <3>2, <3>3, <3>4 DEF z, i
  <2> HIDE DEF m, o
  <2>6. m <= z /\ z \in Nat
    BY <1>2, <2>2, <2>3
  <2>7. u = 0 => m = BoundAt(crt, c, pc - 1)
    BY <1>2, <2>2, <2>3, <2>5
  <2> QED BY <1>1, <1>2, <1>7, <2>6, <2>7 DEF m, z
<1> QED BY <1>1, <1>6, <1>7

(* Where a frame is in its closure.                                        *)
LEMMA LinedIs ==
  ASSUME NEW crt \in Circuits, NEW fs \in Seq(Frame(crt)), Lined(crt, fs), NEW k \in 1 .. Len(fs)
  PROVE  /\ fs[k].comp \in 1 .. Len(crt) /\ DoneAt(crt, fs[k].comp) \in Nat
         /\ fs[k].pc \in 1 .. DoneAt(crt, fs[k].comp) + 1
         /\ fs[k].pc \in 1 .. Len(crt[fs[k].comp].body) + 1
         /\ fs[k].pc - 1 \in 0 .. DoneAt(crt, fs[k].comp)
         /\ fs[k].pc - 1 + 1 = fs[k].pc
<1>1. fs[k].comp \in 1 .. Len(crt)
  BY FramesAre, FrameIs
<1>2. Len(crt[fs[k].comp].body) \in Nat
  BY <1>1, ComponentIs
<1>3. fs[k].pc \in 1 .. DoneAt(crt, fs[k].comp) + 1
  BY DEF Lined
<1> DEFINE pc == fs[k].pc
           z == DoneAt(crt, fs[k].comp)
<1>4. z \in Nat
  BY <1>2 DEF DoneAt
<1>5. pc \in 1 .. z + 1
  BY <1>3
<1>6. pc - 1 \in 0 .. z /\ pc - 1 + 1 = pc
  <2> HIDE DEF pc, z
  <2> QED BY <1>4, <1>5
<1>7. pc \in 1 .. Len(crt[fs[k].comp].body) + 1
  BY <1>5 DEF DoneAt
<1> QED BY <1>1, <1>4, <1>5, <1>6, <1>7

(* The values of a frame are booleans, one for every name it has bound or  *)
(* is about to bind.                                                       *)
LEMMA ValuesAre ==
  ASSUME NEW crt \in Circuits, NEW fs \in Seq(Frame(crt)), Lined(crt, fs),
         NEW ins, Handed(crt, fs, ins), NEW k \in 1 .. Len(fs)
  PROVE  /\ Values(crt, fs, ins)[k] = Goes(crt, fs[k].comp, ins[k])[fs[k].pc - 1]
         /\ ins[k] \in Inputs(crt, fs[k].comp)
         /\ Values(crt, fs, ins)[k] \in Bits(BoundAt(crt, fs[k].comp, fs[k].pc))
<1> DEFINE i == fs[k].pc - 1
           c == fs[k].comp
<1>1. c \in 1 .. Len(crt) /\ i \in 0 .. DoneAt(crt, c) /\ i + 1 = fs[k].pc
  BY LinedIs
<1>2. ins[k] \in Inputs(crt, c)
  BY DEF Handed
<1> HIDE DEF i, c
<1>3. Goes(crt, c, ins[k])[i] \in Bits(BoundAt(crt, c, i + 1))
  BY <1>1, <1>2, RunIs
<1>4. Values(crt, fs, ins)[k] = Goes(crt, c, ins[k])[i]
  BY DEF Values, ValuesIn, i, c
<1> QED BY <1>1, <1>2, <1>3, <1>4 DEF i, c

(* Only the lowest frame is of the root.                                   *)
LEMMA NotRoot ==
  ASSUME NEW crt \in Circuits, NEW fs \in Seq(Frame(crt)), Lined(crt, fs),
         NEW k \in 1 .. Len(fs), k # 1
  PROVE  fs[k].comp # Len(crt)
<1> DEFINE h == k - 1
           i == fs[h].pc - 1
           c == fs[h].comp
<1>1. Len(fs) \in Nat
  BY FramesAre
<1>2. h \in 1 .. Len(fs) /\ h < Len(fs) /\ h + 1 = k
  BY <1>1
<1>3. c \in 1 .. Len(crt)
  BY <1>2, LinedIs
<1>4. i \in 1 .. DoneAt(crt, c) /\ crt[c].body[i].op = "call" /\ crt[c].body[i].comp = fs[k].comp
  BY <1>2 DEF Lined
<1> HIDE DEF h, i, c
<1>5. i \in 1 .. Len(crt[c].body)
  BY <1>4 DEF DoneAt
<1>6. crt[c].body[i].comp \in 1 .. c - 1
  BY <1>3, <1>4, <1>5, MentionsBound
<1>7. fs[k].comp \in 1 .. c - 1
  BY <1>4, <1>6
<1>8. Len(crt) \in Nat
  BY ComponentIs
<1> QED BY <1>3, <1>7, <1>8

(* The top closure gets to another of its instructions.                    *)
LEMMA LinedMoves ==
  ASSUME NEW crt, NEW fs, NEW gs, NEW n \in Nat, Len(fs) = n, Len(gs) = n,
         \A k \in 1 .. n : k # n => gs[k] = fs[k],
         \A k \in 1 .. n : gs[k].comp = fs[k].comp,
         n # 0 => gs[n].pc \in 1 .. DoneAt(crt, gs[n].comp) + 1,
         Lined(crt, fs), NEW ins, Handed(crt, fs, ins)
  PROVE  Lined(crt, gs) /\ Handed(crt, gs, ins)
<1>1. \A k \in 1 .. n : k < n => gs[k] = fs[k] /\ gs[k + 1].comp = fs[k + 1].comp
  <2> SUFFICES ASSUME NEW k \in 1 .. n, k < n
               PROVE  gs[k] = fs[k] /\ gs[k + 1].comp = fs[k + 1].comp
    OBVIOUS
  <2>1. k # n /\ k + 1 \in 1 .. n
    OBVIOUS
  <2> QED BY <2>1
<1>2. Lined(crt, gs)
  <2>1. ASSUME NEW k \in 1 .. n PROVE gs[k].pc \in 1 .. DoneAt(crt, gs[k].comp) + 1
    <3>1. CASE k = n
      BY <3>1
    <3>2. CASE k # n
      <4>1. gs[k] = fs[k]
        BY <3>2
      <4> QED BY <4>1 DEF Lined
    <3> QED BY <3>1, <3>2
  <2>2. ASSUME NEW k \in 1 .. n, k < n
        PROVE  LET i == gs[k].pc - 1
               IN  /\ i \in 1 .. DoneAt(crt, gs[k].comp)
                   /\ crt[gs[k].comp].body[i].op = "call"
                   /\ crt[gs[k].comp].body[i].comp = gs[k + 1].comp
    <3>1. gs[k] = fs[k] /\ gs[k + 1].comp = fs[k + 1].comp
      BY <1>1, <2>2
    <3> QED BY <2>2, <3>1 DEF Lined
  <2> QED BY <2>1, <2>2 DEF Lined
<1>3. Handed(crt, gs, ins)
  <2>1. ASSUME NEW k \in 1 .. n PROVE ins[k] \in Inputs(crt, gs[k].comp)
    BY DEF Handed
  <2>2. ASSUME NEW k \in 1 .. n, k < n
        PROVE  ins[k + 1] = ValsIn(Goes(crt, gs[k].comp, ins[k])[gs[k].pc - 2],
                                   crt[gs[k].comp].body[gs[k].pc - 1].args)
    <3>1. gs[k] = fs[k]
      BY <1>1, <2>2
    <3> QED BY <2>2, <3>1 DEF Handed
  <2> QED BY <2>1, <2>2 DEF Handed
<1> QED BY <1>2, <1>3

(* Reads that are counted and find their wires fed succeed.                *)
LEMMA ReadsGo ==
  ASSUME store \in [Slots -> Entry], NEW n \in Nat, NEW ws, ws \in Seq(Wire), Len(ws) = n,
         \A p \in 1 .. n : Ready(store, ws[p]),
         \A w \in Keys : Occurrences(ws, w) <= Credit(store, w)
  PROVE  Perform[ReadsOf(ws)].ok /\ Kept(store, Perform[ReadsOf(ws)].store)
<1> DEFINE acc == ReadsOf(ws)
           zeros == [j \in Nat |-> 0]
<1>1. DOMAIN ws = 1 .. n /\ \A j \in 1 .. n : ws[j] \in Wire
  OBVIOUS
<1>2. acc = [j \in 1 .. n |-> <<ws[j], -1>>]
  BY <1>1 DEF ReadsOf
<1>3. acc \in Seq(Wire \X Int) /\ Len(acc) = n
  BY <1>1, <1>2
<1>4. \A j \in 1 .. n : acc[j][1] = ws[j] /\ acc[j][2] = -1
  BY <1>2
<1>5. \A j \in 1 .. n : AllOne[j] = 1 /\ zeros[j] = 0
  <2>1. \A j \in 1 .. n : j \in Nat
    OBVIOUS
  <2> QED BY <2>1 DEF AllOne
<1> HIDE DEF acc, zeros
<1>6. AccessesAre(acc, n, ws, AllOne, zeros)
  BY <1>1, <1>3, <1>4, <1>5 DEF AccessesAre, Uses, Gains
<1>7. GrantsFirst(acc, n, 0, ws, AllOne, zeros, ws)
  <2>1. 0 \in 0 .. n
    OBVIOUS
  <2>2. \A j \in 1 .. 0 : AllOne[j] = 0
    OBVIOUS
  <2>3. \A j \in 0 + 1 .. n : zeros[j] = 0
    BY <1>5
  <2> QED BY <1>1, <1>6, <2>1, <2>2, <2>3 DEF GrantsFirst
<1>8. \A w : Weighed(ws, w, zeros) = 0 /\ Occurrences(ws, w) = Weighed(ws, w, AllOne)
  <2>1. Counts(zeros, n)
    BY <1>5 DEF Counts
  <2> QED BY <1>1, <1>5, <2>1, WeighedNone, OccurrencesIs
<1>9. Covers(store, ws, AllOne, zeros)
  <2> SUFFICES ASSUME NEW w \in Keys
               PROVE  /\ Weighed(ws, w, AllOne) <= Credit(store, w) + Weighed(ws, w, zeros)
                      /\ Credit(store, w) + Weighed(ws, w, zeros) <= MaxCredits
    BY DEF Covers
  <2>1. Credit(store, w) \in 0 .. MaxCredits
    BY KeysAre, EntryIs DEF Credit
  <2>2. MaxCredits \in Nat
    BY StorageAssumption
  <2>3. Occurrences(ws, w) <= Credit(store, w)
    OBVIOUS
  <2>4. Weighed(ws, w, zeros) = 0 /\ Occurrences(ws, w) = Weighed(ws, w, AllOne)
    BY <1>8
  <2> QED BY <2>1, <2>2, <2>3, <2>4
<1>10. \A p \in DOMAIN ws : Ready(store, ws[p])
  BY <1>1
<1>11. Perform[acc].ok /\ Kept(store, Perform[acc].store)
  BY <1>7, <1>9, <1>10, PerformGoes
<1> QED BY <1>11 DEF acc

(* What is named once at least occurs.                                     *)
LEMMA OccursIn ==
  ASSUME NEW n \in Nat, NEW s, DOMAIN s = 1 .. n, NEW j \in 1 .. n
  PROVE  Occurrences(s, s[j]) \in Nat /\ Occurrences(s, s[j]) > 0
<1>1. Counts(AllOne, n) /\ AllOne[j] = 1
  BY OnesCount DEF AllOne
<1>2. AllOne[j] <= Weighed(s, s[j], AllOne)
  BY <1>1, WeighedHas
<1>3. Occurrences(s, s[j]) = Weighed(s, s[j], AllOne) /\ Occurrences(s, s[j]) \in Nat
  BY OccurrencesIs
<1> QED BY <1>1, <1>2, <1>3

(* Once the reads of ns are done, nothing is live that was not.            *)
LEMMA ReadOffFewer ==
  ASSUME NEW crt \in Circuits, NEW s \in Config(crt), NEW t \in Config(crt),
         NEW n, NEW ns, NEW r, ReadOff(crt, s, t, n, ns, r),
         NEW own, NEW fed, \A j \in 1 .. r : ns[j] \in Constants \/ ns[j] \in fed[n]
  PROVE  FewerReads(crt, s, t, own, fed)
<1>1. /\ n \in Nat \ {0} /\ Len(s.frames) = n /\ Len(t.frames) = n
      /\ \A k \in 1 .. n : k # n => t.frames[k] = s.frames[k] /\ Alike(crt, s, t, k)
      /\ t.frames[n].env = s.frames[n].env
      /\ r \in Nat /\ DOMAIN ns = 1 .. r
      /\ \A l \in Nat : Coming(crt, s, n, l) = Coming(crt, t, n, l) + Occurrences(ns, l)
  BY DEF ReadOff, Within
<1>2. \A k \in 1 .. n : t.frames[k].env = s.frames[k].env
  BY <1>1
<1>3. \A k, j : IsBound(t, k, j) => /\ IsBound(s, k, j) /\ WireAt(t, k, j) = WireAt(s, k, j)
                                    /\ k \in 1 .. n /\ j + 1 \in Nat /\ j \in Nat /\ j # 0
  <2> SUFFICES ASSUME NEW k, NEW j, IsBound(t, k, j)
               PROVE  /\ IsBound(s, k, j) /\ WireAt(t, k, j) = WireAt(s, k, j)
                      /\ k \in 1 .. n /\ j + 1 \in Nat /\ j \in Nat /\ j # 0
    OBVIOUS
  <2>1. k \in 1 .. n /\ j \in 1 .. Len(t.frames[k].env)
    BY <1>1 DEF IsBound
  <2>2. Len(t.frames[k].env) \in Nat
    BY <1>1, <2>1, ConfigIs
  <2>3. j \in Nat /\ j + 1 \in Nat /\ j # 0
    BY <2>1, <2>2
  <2> QED BY <1>1, <1>2, <2>1, <2>3 DEF IsBound, WireAt
<1>4. \A k \in 1 .. n : \A l \in Nat :
        /\ Coming(crt, t, k, l) # 0 => Coming(crt, s, k, l) # 0
        /\ Coming(crt, t, k, l) # Coming(crt, s, k, l) => k = n /\ Occurrences(ns, l) # 0
  <2> SUFFICES ASSUME NEW k \in 1 .. n, NEW l \in Nat
               PROVE  /\ Coming(crt, t, k, l) # 0 => Coming(crt, s, k, l) # 0
                      /\ Coming(crt, t, k, l) # Coming(crt, s, k, l) => k = n /\ Occurrences(ns, l) # 0
    OBVIOUS
  <2>1. CASE k # n
    BY <1>1, <2>1 DEF Alike
  <2>2. CASE k = n
    <3>1. Coming(crt, t, k, l) \in Nat /\ Occurrences(ns, l) \in Nat
      BY <1>1, ComingNat, OccurrencesIs
    <3>2. Coming(crt, s, k, l) = Coming(crt, t, k, l) + Occurrences(ns, l)
      BY <1>1, <2>2
    <3> QED BY <2>2, <3>1, <3>2
  <2> QED BY <2>1, <2>2
<1>5. \A l \in Nat : Occurrences(ns, l) # 0 => \E j \in 1 .. r : ns[j] = l
  BY <1>1, OccursNot
<1>6. \A k, j : IsBound(t, k, j) /\ j + 1 \notin fed[k] =>
        Coming(crt, t, k, j + 1) = Coming(crt, s, k, j + 1)
  <2> SUFFICES ASSUME NEW k, NEW j, IsBound(t, k, j), j + 1 \notin fed[k],
                      Coming(crt, t, k, j + 1) # Coming(crt, s, k, j + 1)
               PROVE  FALSE
    OBVIOUS
  <2>1. k = n /\ \E i \in 1 .. r : ns[i] = j + 1
    BY <1>3, <1>4, <1>5
  <2>2. j + 1 \in Constants
    BY <2>1
  <2>3. j \in Nat /\ j # 0
    BY <1>3
  <2> QED BY <2>2, <2>3 DEF Constants, FALSE_WIRE, TRUE_WIRE
<1>7. \A k, j : Live(crt, t, k, j) => Live(crt, s, k, j)
  BY <1>3, <1>4 DEF Live
<1> QED BY <1>3, <1>6, <1>7 DEF FewerReads

(* The wires still read keep their values when each is paid for.           *)
LEMMA PaidKeeps ==
  ASSUME NEW crt \in Circuits, NEW t \in Config(crt), NEW st, NEW st2, AllPaid(crt, t, st2),
         Kept(st, st2)
  PROVE  KeepsLive(crt, t, st, st2)
BY LivePaid DEF KeepsLive, Kept

(* The top frame has a wire for every name its closure has bound.          *)
LEMMA TopLen ==
  ASSUME Structure, phase # "metadata", Unallocated = 0
  PROVE  Len(Top.env) = BoundAt(circuit, Top.comp, Top.pc) /\ Len(Top.env) \in Nat
<1> DEFINE m == Len(Top.env)
           nin == circuit[Top.comp].nin
           N == CreatedBy(circuit, circuit[Top.comp].body, 1)
           C == CreatedBy(circuit, circuit[Top.comp].body, Top.pc)
<1>1. m \in Nat /\ nin \in Nat /\ N \in Nat /\ C \in Nat /\ m + 0 + C = nin + N
  BY TopIs
<1>2. NewName(circuit, Top.comp, Top.pc) = 2 + nin + N - C
  BY DEF NewName, FirstMock
<1> HIDE DEF m, nin, N, C
<1>3. m = 2 + nin + N - C - 2
  BY <1>1
<1> DEFINE y == 2 + nin + N - C
<1>4. m = y - 2
  BY <1>1, <1>3
<1>5. NewName(circuit, Top.comp, Top.pc) = y
  BY <1>2
<1> HIDE DEF y
<1> QED BY <1>1, <1>4, <1>5 DEF m, BoundAt

(* A name that is read after an instruction is live there.                 *)
LEMMA LaterLive ==
  ASSUME NEW crt \in Circuits, NEW t \in Config(crt), Lined(crt, t.frames), t.decoded = 0,
         NEW n, n = Len(t.frames), n # 0, NEW pc, t.frames[n].pc = pc + 1, NEW l \in Nat,
         ReadAfter(crt, t.frames[n].comp, pc, l)
  PROVE  Coming(crt, t, n, l) # 0
<1> DEFINE c == t.frames[n].comp
           body == crt[c].body
           outs == crt[c].outs
           x == Left(crt, t)[n][l]
<1>1. t.frames \in Seq(Frame(crt)) /\ n \in Nat /\ n \in 1 .. Len(t.frames) /\ c \in 1 .. Len(crt)
  <2>1. t.frames \in Seq(Frame(crt)) /\ Len(t.frames) \in Nat
    BY ConfigIs
  <2>2. n \in 1 .. Len(t.frames)
    BY <2>1
  <2> QED BY <2>1, <2>2, ConfigIs
<1>2. x \in Nat /\ (Reads(body, pc + 1, l) > 0 => x > 0)
  <2> DEFINE d == Shift(Left(crt, t)[n - 1], NextName(t.frames, n - 1))
  <2>1. /\ x = Reads(body, t.frames[n].pc, l) + Weighed(outs, l, d)
        /\ Reads(body, t.frames[n].pc, l) \in Nat /\ Weighed(outs, l, d) \in Nat
    BY <1>1, LeftIs
  <2> QED BY <2>1
<1>3. c = Len(crt) /\ l \in ToSet(outs) => x > 0
  <2> SUFFICES ASSUME c = Len(crt), l \in ToSet(outs) PROVE x > 0
    OBVIOUS
  <2>1. n = 1
    BY <1>1, NotRoot
  <2> DEFINE d == Shift(Later(0), FirstMock)
             r == Len(outs)
             g == t.frames[1]
  <2>2. RootHas(crt, t, g, 0)
    <3>1. Len(t.frames) = 1
      BY <2>1
    <3> QED BY <3>1, RootLeft
  <2>3. /\ Counts(d, r) /\ FromOn(d, r, 0 + 1)
        /\ x = Reads(body, g.pc, l) + Weighed(outs, l, d)
        /\ Reads(body, g.pc, l) \in Nat /\ Weighed(outs, l, d) \in Nat
    BY <2>1, <2>2 DEF RootHas
  <2>4. r \in Nat /\ DOMAIN outs = 1 .. r
    BY <1>1, ComponentIs DEF NameSeq
  <2>5. PICK j \in 1 .. r : outs[j] = l
    BY <2>4 DEF ToSet
  <2>6. d[j] = 1
    <3>1. j >= 0 + 1
      BY <2>4
    <3> HIDE DEF d, r
    <3> QED BY <2>3, <3>1 DEF FromOn
  <2>7. d[j] <= Weighed(outs, outs[j], d)
    BY <2>3, <2>4, WeighedHas
  <2>8. 1 <= Weighed(outs, l, d)
    BY <2>5, <2>6, <2>7
  <2> HIDE DEF d, x, outs, g
  <2> QED BY <2>3, <2>8
<1>4. x > 0
  BY <1>2, <1>3 DEF ReadAfter
<1> HIDE DEF x
<1> QED BY <1>2, <1>4 DEF Coming, x

(* What a Good state of the run says of the operands of the instruction    *)
(* the top closure is at: they can be read and have their values.          *)
OperandGood(ns, v, fed, j) ==
  LET l == ns[j] w == Real(Top.env, l)
  IN  /\ l \in 0 .. Len(Top.env) + 1 /\ l \in fed
      /\ Coming(circuit, Now, Len(frames), l) # 0
      /\ Ready(store, w) /\ Holds(store, w, ValIn(v, l)) /\ ValIn(v, l) \in BOOLEAN

(* So are all operands of the instruction.                                 *)
LEMMA OperandReady ==
  ASSUME Structure, Exact, NEW op, Running(op), NEW q, q = Pending(Top),
         NEW ins, Lined(circuit, frames), Handed(circuit, frames, ins),
         Serves(circuit, Now, store, {}, ins),
         NEW t, ReadOff(circuit, Now, t, Len(frames), Operands(q), Len(Operands(q))),
         t \in Config(circuit),
         NEW j \in 1 .. Len(Operands(q))
  PROVE  OperandGood(Operands(q), Values(circuit, frames, ins)[Len(frames)],
                     FedNames(circuit, frames, {})[Len(frames)], j)
<1> DEFINE n == Len(frames)
           ns == Operands(q)
           l == ns[j]
           own == OwnNames(circuit, frames)
           fed == FedNames(circuit, frames, {})
           val == Values(circuit, frames, ins)
           s == Now
           m == Len(Top.env)
           c == Top.comp
           pc == Top.pc
<1>1. /\ phase = "run" /\ ~panicked /\ Unallocated = 0 /\ pc \in 1 .. Len(circuit[c].body)
      /\ q = circuit[c].body[pc] /\ Within(ns, Len(ns), m) /\ Len(ns) \in Nat
  BY PendingIs
<1>2. /\ n \in Nat \ {0} /\ n \in 1 .. n /\ Top = frames[n] /\ c \in 1 .. Len(circuit) /\ m \in Nat
  BY <1>1, TopIs
<1>3. /\ circuit \in Circuits /\ s \in Config(circuit) /\ s.frames = frames
      /\ frames \in Seq(Frame(circuit)) /\ store \in [Slots -> Entry]
  BY NowIs DEF Structure, Types
<1>4. AllPaid(circuit, s, store)
  BY <1>1 DEF Exact
<1>5. Good(circuit, s, store, own, fed, val)
  BY <1>3 DEF Serves
<1>6. l \in 0 .. m + 1 /\ DOMAIN ns = 1 .. Len(ns)
  BY <1>1 DEF Within
<1>7. l \in Written(circuit, c, pc)
  BY <1>1, <1>2, <1>3, <1>6, DisciplineIs
<1>8. fed[n] = Written(circuit, c, pc)
  <2>1. \A x : ~(n = 1 /\ x - 1 \in {})
    OBVIOUS
  <2> QED BY <1>2, <2>1 DEF FedNames
<1>9. m = BoundAt(circuit, c, pc)
  BY <1>1, TopLen
<1>10. val[n] \in Bits(m)
  BY <1>2, <1>3, <1>9, ValuesAre
<1>11. Coming(circuit, s, n, l) # 0
  <2>1. l \in Nat
    BY <1>2, <1>6
  <2>2. Coming(circuit, s, n, l) = Coming(circuit, t, n, l) + Occurrences(ns, l)
    BY <2>1 DEF ReadOff
  <2>3. Occurrences(ns, l) \in Nat /\ Occurrences(ns, l) > 0
    BY <1>1, <1>6, OccursIn
  <2>4. Coming(circuit, t, n, l) \in Nat
    <3>1. Len(t.frames) = n
      BY DEF ReadOff
    <3> QED BY <1>2, <1>3, <2>1, <3>1, ComingNat
  <2> HIDE DEF l, ns, n, s
  <2> QED BY <2>2, <2>3, <2>4
<1> HIDE DEF n, ns, l, own, fed, val, s, m, c, pc
<1>12. ValIn(val[n], l) \in BOOLEAN /\ (l \notin Constants => val[n][l - 1] \in BOOLEAN)
  BY <1>2, <1>6, <1>10, ValInIs
<1>13. /\ Ready(store, Real(Top.env, l)) /\ Holds(store, Real(Top.env, l), ValIn(val[n], l))
  <2>1. s.frames[n] = Top /\ Len(s.frames) = n
    BY <1>2, <1>3 DEF n
  <2>2. l \in 0 .. Len(s.frames[n].env) + 1
    BY <1>6, <2>1 DEF m
  <2>3. l \notin Constants => l \in fed[n] /\ Coming(circuit, s, n, l) # 0 /\ val[n][l - 1] \in BOOLEAN
    BY <1>7, <1>8, <1>11, <1>12
  <2>4. n \in 1 .. Len(s.frames)
    BY <1>2, <2>1
  <2>5. Ready(store, Real(s.frames[n].env, l)) /\ Holds(store, Real(s.frames[n].env, l), ValIn(val[n], l))
    BY <1>3, <1>4, <1>5, <2>2, <2>3, <2>4, NameReady
  <2> QED BY <2>1, <2>5
<1> QED BY <1>6, <1>7, <1>8, <1>11, <1>12, <1>13 DEF OperandGood, n, ns, l, fed, val, s, m

(* What the closures on the stack were called with.                        *)
Called(fs, ins) == Lined(circuit, fs) /\ Handed(circuit, fs, ins)

(* The reads of a gate.                                                    *)
GateReads == LET q == Pending(Top) IN Perform[ReadsOf(<<Real(Top.env, q.a), Real(Top.env, q.b)>>)]

(* The reads of a gate succeed and see the values of its operands.         *)
LEMMA GateReadsGo ==
  ASSUME Structure, Structure', Exact, RunGate, NEW ins, Called(frames, ins),
         Serves(circuit, Now, store, {}, ins)
  PROVE  LET q == Pending(Top)
             own == OwnNames(circuit, frames)
             fed == FedNames(circuit, frames, {})
             val == Values(circuit, frames, ins)
             v == val[Len(frames)]
         IN  /\ GateReads \in Machine /\ GateReads.ok
             /\ AllPaid(circuit, Now', GateReads.store)
             /\ Good(circuit, Now', GateReads.store, own, fed, val)
             /\ ValueOf(Real(Top.env, q.a)) = ValIn(v, q.a) /\ ValIn(v, q.a) \in BOOLEAN
             /\ ValueOf(Real(Top.env, q.b)) = ValIn(v, q.b) /\ ValIn(v, q.b) \in BOOLEAN
<1> DEFINE q == Pending(Top)
           ns == Operands(q)
           n == Len(frames)
           own == OwnNames(circuit, frames)
           fed == FedNames(circuit, frames, {})
           val == Values(circuit, frames, ins)
           v == val[n]
           a == Real(Top.env, q.a)
           b == Real(Top.env, q.b)
           ws == <<a, b>>
           p == GateReads
           s == Now
           t == Now'
<1>1. Running("gate") /\ ~panicked
  BY DEF RunGate, Running
<1>2. q.op = "gate" /\ ns = <<q.a, q.b>> /\ DOMAIN ns = 1 .. Len(ns) /\ Len(ns) = 2
  BY <1>1 DEF Running, Operands
<1>3. /\ circuit \in Circuits /\ s \in Config(circuit) /\ t \in Config(circuit)
      /\ s.frames = frames /\ n \in Nat \ {0} /\ n \in 1 .. n /\ Top = frames[n]
      /\ ReadOff(circuit, s, t, n, ns, Len(ns))
  BY GateMoves
<1>4. store \in [Slots -> Entry] /\ AllPaid(circuit, s, store)
  BY <1>1 DEF Structure, Types, Exact
<1>5. \A j \in 1 .. 2 : OperandGood(ns, v, fed[n], j)
  <2> SUFFICES ASSUME NEW j \in 1 .. Len(ns) PROVE OperandGood(ns, v, fed[n], j)
    BY <1>2
  <2>1. Lined(circuit, frames) /\ Handed(circuit, frames, ins)
    BY DEF Called
  <2> QED BY <1>1, <1>3, <2>1, OperandReady
<1>6. ns[1] = q.a /\ ns[2] = q.b /\ 1 \in 1 .. 2 /\ 2 \in 1 .. 2
  BY <1>2
<1> HIDE DEF v, fed
<1>7. /\ q.a \in 0 .. Len(Top.env) + 1 /\ q.a \in fed[n] /\ Ready(store, a)
      /\ Holds(store, a, ValIn(v, q.a)) /\ ValIn(v, q.a) \in BOOLEAN
  BY <1>5, <1>6 DEF OperandGood
<1>8. /\ q.b \in 0 .. Len(Top.env) + 1 /\ q.b \in fed[n] /\ Ready(store, b)
      /\ Holds(store, b, ValIn(v, q.b)) /\ ValIn(v, q.b) \in BOOLEAN
  BY <1>5, <1>6 DEF OperandGood
<1>9. a \in Wire /\ b \in Wire
  <2>1. Top.env \in Seq(Wire)
    BY <1>1, TopIs DEF Running
  <2> QED BY <1>7, <1>8, <2>1, RealIs
<1>10. Reals(Top.env, ns) = ws
  BY <1>2 DEF Reals
<1>11. \A w \in Keys : Owing(circuit, s, w) = Owing(circuit, t, w) + Occurrences(ws, w)
                       /\ Occurrences(ws, w) \in Nat /\ Owing(circuit, t, w) \in Nat
  <2>1. s.frames[n] = Top
    BY <1>3
  <2> HIDE DEF ns, ws, s, t, n
  <2> QED BY <1>3, <1>10, <2>1, TopReads, OwedNat
<1>12. \A w \in Keys : Occurrences(ws, w) <= Credit(store, w)
  <2> SUFFICES ASSUME NEW w \in Keys PROVE Occurrences(ws, w) <= Credit(store, w)
    OBVIOUS
  <2>1. Credit(store, w) = Owing(circuit, s, w)
    BY <1>4 DEF AllPaid
  <2> HIDE DEF ws, s, t
  <2> QED BY <1>11, <2>1
<1>13. ws \in Seq(Wire) /\ Len(ws) = 2 /\ \A j \in 1 .. 2 : Ready(store, ws[j])
  <2>1. ws[1] = a /\ ws[2] = b
    OBVIOUS
  <2>2. ws \in Seq(Wire) /\ Len(ws) = 2
    BY <1>9
  <2>3. \A j \in 1 .. 2 : j = 1 \/ j = 2
    OBVIOUS
  <2> HIDE DEF a, b, ws
  <2> QED BY <1>7, <1>8, <2>1, <2>2, <2>3
<1>14. p = Perform[ReadsOf(ws)]
  BY DEF GateReads
<1> HIDE DEF ws, p, a, b
<1>15. p \in Machine /\ p.ok /\ Kept(store, p.store)
       /\ \A w \in Keys : Credit(p.store, w) + Occurrences(ws, w) = Credit(store, w)
  <2>1. p.ok /\ Kept(store, p.store)
    BY <1>4, <1>12, <1>13, <1>14, ReadsGo
  <2>2. p \in Machine /\ (p.ok => \A w \in Keys : Credit(p.store, w) + Occurrences(ws, w) = Credit(store, w))
    BY <1>4, <1>13, <1>14, ReadsPerform
  <2> QED BY <2>1, <2>2
<1> HIDE DEF s, t, own, val, ns, n
<1>16. AllPaid(circuit, t, p.store)
  <2> SUFFICES ASSUME NEW w \in Keys PROVE Credit(p.store, w) = Owing(circuit, t, w)
    BY DEF AllPaid
  <2>1. Credit(store, w) = Owing(circuit, s, w)
    BY <1>4 DEF AllPaid
  <2>2. Credit(p.store, w) \in Nat
    BY <1>15, MachineIs
  <2> QED BY <1>11, <1>15, <2>1, <2>2
<1>17. Good(circuit, t, p.store, own, fed, val)
  <2>1. \A j \in 1 .. Len(ns) : ns[j] \in Constants \/ ns[j] \in fed[n]
    BY <1>2, <1>5 DEF OperandGood
  <2>2. FewerReads(circuit, s, t, own, fed)
    BY <1>3, <2>1, ReadOffFewer
  <2>3. KeepsLive(circuit, t, store, p.store)
    BY <1>3, <1>15, <1>16, PaidKeeps
  <2>4. Good(circuit, s, store, own, fed, val)
    BY <1>3 DEF Serves, own, fed, val, s
  <2> QED BY <2>2, <2>3, <2>4, GoodFewer
<1>18. ValueOf(a) = ValIn(v, q.a) /\ ValueOf(b) = ValIn(v, q.b)
  BY <1>7, <1>8, HeldValue
<1> QED BY <1>7, <1>8, <1>15, <1>16, <1>17, <1>18 DEF p, a, b, v, n, own, fed, val, t

(* The top closure gets to its next instruction.                           *)
LEMMA MovedCalled ==
  ASSUME circuit \in Circuits, NEW t \in Config(circuit), Moved(circuit, Now, t, Len(frames)),
         Now.frames = frames, NEW ins, Called(frames, ins)
  PROVE  Called(t.frames, ins)
<1> DEFINE n == Len(frames)
           f == frames[n]
           g == t.frames[n]
           fs == t.frames
           z == Len(circuit[f.comp].body)
<1>1. /\ n \in Nat \ {0} /\ Len(fs) = n /\ \A k \in 1 .. n : k # n => fs[k] = frames[k]
      /\ g.comp = f.comp /\ g.pc = f.pc + 1 /\ f.pc \in 1 .. z
  BY DEF Moved
<1>2. \A k \in 1 .. n : fs[k].comp = frames[k].comp
  BY <1>1
<1>3. z \in Nat
  <2>1. n \in 1 .. Len(t.frames)
    BY <1>1
  <2>2. g.comp \in 1 .. Len(circuit)
    BY <2>1, ConfigIs
  <2> QED BY <1>1, <2>2, ComponentIs
<1>4. g.pc \in 1 .. DoneAt(circuit, g.comp) + 1
  <2>1. z = DoneAt(circuit, g.comp)
    BY <1>1 DEF DoneAt
  <2> DEFINE x == f.pc
  <2>2. x \in 1 .. z /\ g.pc = x + 1
    BY <1>1
  <2> HIDE DEF x, z, g
  <2> QED BY <1>3, <2>1, <2>2
<1>5. Lined(circuit, frames) /\ Handed(circuit, frames, ins)
  BY DEF Called
<1>6. n \in Nat /\ Len(frames) = n
  BY <1>1
<1> HIDE DEF n
<1>7. Lined(circuit, fs) /\ Handed(circuit, fs, ins)
  <2>1. n \in Nat /\ Len(frames) = n /\ Len(fs) = n
    BY <1>1, <1>6
  <2>2. \A k \in 1 .. n : k # n => fs[k] = frames[k]
    BY <1>1
  <2>3. n # 0 => fs[n].pc \in 1 .. DoneAt(circuit, fs[n].comp) + 1
    BY <1>4
  <2> HIDE DEF f, g, fs
  <2> QED BY ONLY <1>2, <1>5, <2>1, <2>2, <2>3, LinedMoves
<1> QED BY <1>7 DEF Called

(* A gate writes a wire of the closure's own: one that is still read, or   *)
(* one that was never made because nothing reads it.                       *)
LEMMA GateTarget ==
  ASSUME Structure, Structure', Exact, RunGate, NEW ins, Called(frames, ins),
         Serves(circuit, Now, store, {}, ins)
  PROVE  LET q == Pending(Top)
             n == Len(frames)
             i == q.c - 1
             w == Top.env[i]
         IN  /\ q.c \in Nat /\ i + 1 = q.c /\ i \in 1 .. Len(Top.env)
             /\ q.c \in OwnNames(circuit, frames)[n]
             /\ IsBound(Now', n, i) /\ WireAt(Now', n, i) = w /\ w = Real(Top.env, q.c)
             /\ w \in Wire /\ w \notin Constants
             /\ (Live(circuit, Now', n, i) /\ w \in Keys) \/ w = UNREACHABLE
<1> DEFINE q == Pending(Top)
           n == Len(frames)
           c == Top.comp
           pc == Top.pc
           i == q.c - 1
           w == Top.env[i]
           m == Len(Top.env)
           ns == Operands(q)
           own == OwnNames(circuit, frames)
           fed == FedNames(circuit, frames, {})
           val == Values(circuit, frames, ins)
           s == Now
           t == Now'
<1>1. Running("gate") /\ frames' = WithTop(Advance(Top)) /\ circuit' = circuit
  BY DEF RunGate
<1>2. /\ circuit \in Circuits /\ s \in Config(circuit) /\ t \in Config(circuit)
      /\ s.frames = frames /\ t.frames = frames' /\ n \in Nat \ {0} /\ n \in 1 .. n
      /\ Top = frames[n] /\ frames'[n] = Advance(Top)
      /\ ReadOff(circuit, s, t, n, ns, Len(ns))
  BY GateMoves
<1>3. /\ phase = "run" /\ Unallocated = 0 /\ pc \in 1 .. Len(circuit[c].body) /\ q = circuit[c].body[pc]
      /\ q.op = "gate"
  BY <1>1, PendingIs
<1>4. c \in 1 .. Len(circuit) /\ Top \in Frame(circuit) /\ Top.env \in Seq(Wire)
  BY <1>3, TopIs
<1>5. m = BoundAt(circuit, c, pc) /\ m \in Nat
  BY <1>3, TopLen
<1>6. q.c \in Own(circuit, c, pc) /\ (q.c \in Written(circuit, c, pc) => ReadAfter(circuit, c, pc, q.c))
  BY <1>2, <1>3, <1>4, DisciplineIs
<1>7. q.c \in 2 .. m + 1
  <2>1. pc \in 1 .. Len(circuit[c].body) + 1
    <3>1. Len(circuit[c].body) \in Nat
      BY <1>2, <1>4, ComponentIs
    <3> QED BY <1>3, <3>1
  <2>2. Own(circuit, c, pc) \subseteq 2 .. BoundAt(circuit, c, pc) + 1
    BY <1>2, <1>4, <2>1, NamesBound
  <2> QED BY <1>5, <1>6, <2>2
<1>8. q.c \in Nat /\ i + 1 = q.c /\ i \in 1 .. m
  <2> HIDE DEF q, m
  <2> QED BY <1>5, <1>7
<1>9. own[n] = Own(circuit, c, pc) /\ fed[n] = Written(circuit, c, pc)
  <2>1. \A x : ~(n = 1 /\ x - 1 \in {})
    OBVIOUS
  <2> QED BY <1>2, <2>1 DEF OwnNames, FedNames
<1>10. w = Real(Top.env, q.c) /\ w \in Wire
  <2>1. q.c \notin Constants /\ q.c - FirstMock + 1 = i
    BY <1>7, <1>5 DEF Constants, FALSE_WIRE, TRUE_WIRE, FirstMock
  <2>2. w \in Wire
    BY <1>4, <1>8, SeqIs
  <2> QED BY <2>1, <2>2 DEF Real
<1>11. Advance(Top).comp = c /\ Advance(Top).pc = pc + 1 /\ Advance(Top).env = Top.env
  BY <1>4, AdvanceIs
<1>12. IsBound(s, n, i) /\ WireAt(s, n, i) = w /\ IsBound(t, n, i) /\ WireAt(t, n, i) = w
  <2>1. Len(s.frames) = n /\ Len(t.frames) = n /\ s.frames[n].env = Top.env /\ t.frames[n].env = Top.env
    BY <1>2, <1>11 DEF ReadOff
  <2> HIDE DEF i, n
  <2> QED BY <1>2, <1>8, <2>1 DEF IsBound, WireAt
<1>13. Good(circuit, s, store, own, fed, val)
  BY <1>2 DEF Serves
<1>14. Called(frames', ins)
  <2>1. Moved(circuit, Now, Now', Len(frames))
    BY GateMoves
  <2>2. circuit \in Circuits /\ Now.frames = frames /\ Now'.frames = frames' /\ Now' \in Config(circuit)
    BY <1>2
  <2> QED BY <1>1, <2>1, <2>2, MovedCalled
<1>15. Mine(s, own) /\ Reachable(circuit, s) /\ Dropped(circuit, s, own, fed)
  BY <1>13 DEF Good
<1> HIDE DEF q, n, i, w, m, own, fed, val, s, t, ns
<1>16. w \notin Constants
  BY <1>6, <1>8, <1>9, <1>12, <1>15 DEF Mine
<1>17. ASSUME Coming(circuit, t, n, q.c) # 0 PROVE Live(circuit, t, n, i) /\ w \in Keys
  <2>1. Live(circuit, t, n, i)
    BY <1>8, <1>12, <1>17 DEF Live
  <2>2. Coming(circuit, s, n, q.c) # 0
    <3>1. Coming(circuit, s, n, q.c) = Coming(circuit, t, n, q.c) + Occurrences(ns, q.c)
      BY <1>2, <1>8 DEF ReadOff
    <3>2. Coming(circuit, t, n, q.c) \in Nat
      <4>1. n \in 1 .. Len(t.frames)
        BY <1>2 DEF ReadOff
      <4> QED BY <1>2, <1>8, <4>1, ComingNat
    <3>3. Occurrences(ns, q.c) \in Nat
      <4>1. DOMAIN ns = 1 .. Len(ns) /\ Len(ns) \in Nat
        BY <1>2 DEF ReadOff, Within
      <4> QED BY <4>1, OccurrencesIs
    <3> QED BY <1>17, <3>1, <3>2, <3>3
  <2>3. Live(circuit, s, n, i)
    BY <1>8, <1>12, <2>2 DEF Live
  <2>4. w # UNREACHABLE
    BY <1>12, <1>15, <2>3 DEF Reachable
  <2>5. w \in Keys
    BY <1>10, <1>16, <2>4 DEF Wire
  <2> QED BY <2>1, <2>5
<1>18. ASSUME Coming(circuit, t, n, q.c) = 0 PROVE w = UNREACHABLE
  <2>1. q.c \notin Written(circuit, c, pc)
    <3>1. ~ReadAfter(circuit, c, pc, q.c)
      <4> SUFFICES ASSUME ReadAfter(circuit, c, pc, q.c) PROVE FALSE
        OBVIOUS
      <4>1. t.decoded = 0
        BY <1>1, <1>3, NextNow DEF RunGate, Decoded, t
      <4>2. t.frames[n].comp = c /\ t.frames[n].pc = pc + 1 /\ n = Len(t.frames) /\ n # 0
        BY <1>2, <1>11 DEF ReadOff
      <4>3. Lined(circuit, t.frames)
        BY <1>2, <1>14 DEF Called
      <4>4. Coming(circuit, t, n, q.c) # 0
        <5>1. ReadAfter(circuit, t.frames[n].comp, pc, q.c)
          BY <4>2
        <5> QED BY <1>2, <1>8, <4>1, <4>2, <4>3, <5>1, LaterLive
      <4> QED BY <1>18, <4>4
    <3> QED BY <1>6, <3>1
  <2>2. Coming(circuit, s, n, q.c) = 0
    <3>1. FewerReads(circuit, s, t, own, fed)
      <4>1. \A j \in 1 .. Len(ns) : ns[j] \in Constants \/ ns[j] \in fed[n]
        <5>1. DOMAIN ns = 1 .. Len(ns)
          BY <1>2 DEF ReadOff, Within
        <5>2. \A j \in DOMAIN ns : ns[j] \in Written(circuit, c, pc)
          BY <1>2, <1>3, <1>4, DisciplineIs DEF q, ns
        <5> QED BY <1>9, <5>1, <5>2
      <4> QED BY <1>2, <4>1, ReadOffFewer
    <3>2. Coming(circuit, t, n, i + 1) = Coming(circuit, s, n, i + 1)
      BY <1>6, <1>8, <1>9, <1>12, <2>1, <3>1 DEF FewerReads
    <3> QED BY <1>8, <1>18, <3>2
  <2> QED BY <1>6, <1>8, <1>9, <1>12, <1>15, <2>1, <2>2 DEF Dropped
<1> QED BY <1>6, <1>8, <1>9, <1>10, <1>12, <1>16, <1>17, <1>18 DEF q, n, i, w, m, own, t

(* The views of a frame.                                                   *)
LEMMA OwnView ==
  ASSUME NEW crt, NEW fs, NEW k \in 1 .. Len(fs)
  PROVE  OwnNames(crt, fs)[k] = Own(crt, fs[k].comp, fs[k].pc)
BY DEF OwnNames

(* The names of a frame with a value.                                      *)
LEMMA FedView ==
  ASSUME NEW crt, NEW fs, NEW un, NEW k \in 1 .. Len(fs)
  PROVE  \A l : l \in FedNames(crt, fs, un)[k]
                 <=> l \in Written(crt, fs[k].comp, fs[k].pc) /\ ~(k = 1 /\ l - 1 \in un)
BY DEF FedNames

(* With all inputs encoded.                                                *)
LEMMA AllFedView ==
  ASSUME NEW crt, NEW fs, NEW k \in 1 .. Len(fs)
  PROVE  FedNames(crt, fs, {})[k] = Written(crt, fs[k].comp, fs[k].pc)
<1>1. \A l : ~(k = 1 /\ l - 1 \in {})
  OBVIOUS
<1> QED BY <1>1 DEF FedNames

(* Their values.                                                           *)
LEMMA ValueView ==
  ASSUME NEW crt, NEW fs, NEW ins, NEW k \in 1 .. Len(fs)
  PROVE  Values(crt, fs, ins)[k] = Goes(crt, fs[k].comp, ins[k])[fs[k].pc - 1]
BY DEF Values, ValuesIn

(* What the views of the top closure become after an instruction.          *)
Seen(crt, c, pc, q, v, u, j) ==
  /\ j + 1 \in Own(crt, c, pc + 1) => j + 1 \in Own(crt, c, pc)
  /\ q.op = "gate" =>
       /\ j + 1 \in Written(crt, c, pc + 1) <=> j + 1 \in Written(crt, c, pc) \/ j + 1 = q.c
       /\ u[j] = IF q.c = j + 1 THEN EvalGate(q.g, ValIn(v, q.a), ValIn(v, q.b)) ELSE v[j]
  /\ q.op # "gate" =>
       /\ j + 1 \in Written(crt, c, pc + 1) <=> j + 1 \in Written(crt, c, pc)
       /\ u[j] = v[j]

(* That is what every instruction does to them.                            *)
LEMMA TopViews ==
  ASSUME NEW crt \in Circuits, NEW c \in 1 .. Len(crt), NEW pc \in 1 .. Len(crt[c].body),
         NEW in \in Inputs(crt, c), NEW j \in 1 .. BoundAt(crt, c, pc)
  PROVE  Seen(crt, c, pc, crt[c].body[pc], Goes(crt, c, in)[pc - 1], Goes(crt, c, in)[pc], j)
<1> DEFINE q == crt[c].body[pc]
           v == Goes(crt, c, in)[pc - 1]
           n == BoundAt(crt, c, pc)
           u == Goes(crt, c, in)[pc]
           l == j + 1
<1>1. pc \in Nat \ {0} /\ Len(crt[c].body) \in Nat /\ n \in Nat
  <2>1. Len(crt[c].body) \in Nat
    BY ComponentIs
  <2>2. pc \in 1 .. Len(crt[c].body) + 1 /\ pc \in Nat \ {0}
    BY <2>1
  <2> QED BY <2>1, <2>2, BoundIs
<1>0. j \in 1 .. n /\ l \in Nat
  BY <1>1
<1>2. NewName(crt, c, pc) = n + 2
  <2>1. NewName(crt, c, pc) \in Int
    <3>1. pc \in 1 .. Len(crt[c].body) + 1
      BY <1>1
    <3> QED BY <3>1, NewNameIs
  <2> QED BY <2>1 DEF BoundAt
<1>3. q \in Instruction
  BY MentionsBound
<1>4. q.op \in {"issue", "gate", "call"}
  BY <1>3 DEF Instruction, Issue
<1>5. Executed(crt, Meaning(crt), q, v, n, u)
  <2>1. pc \in 1 .. DoneAt(crt, c)
    BY DEF DoneAt
  <2> QED BY <2>1, RunGoes
<1>6. u[j] = IF q.op = "gate" /\ q.c = l THEN EvalGate(q.g, ValIn(v, q.a), ValIn(v, q.b)) ELSE v[j]
  BY <1>5 DEF Executed
<1>7. l \in Own(crt, c, pc + 1) => l \in Own(crt, c, pc)
  <2>1. l # n + 2
    <3> HIDE DEF n
    <3> QED BY <1>0, <1>1
  <2> QED BY <1>1, <1>2, <2>1, OwnGrows
<1>8. q.op = "call" => (l \in Written(crt, c, pc + 1) <=> l \in Written(crt, c, pc))
  <2>1. l \notin NewName(crt, c, pc) .. NewName(crt, c, pc + 1) - 1
    <3> DEFINE y == NewName(crt, c, pc + 1) - 1
    <3>1. l \in Nat /\ l < n + 2
      <4> HIDE DEF n
      <4> QED BY <1>0, <1>1
    <3> HIDE DEF y, n, l
    <3>2. l \notin n + 2 .. y
      BY <1>1, <3>1
    <3> QED BY <1>2, <3>2 DEF y
  <2> HIDE DEF l
  <2> QED BY <1>1, <2>1, WrittenGrows
<1> HIDE DEF u, l, n, v, q
<1>9. q.op = "gate" => (l \in Written(crt, c, pc + 1) <=> l \in Written(crt, c, pc) \/ l = q.c)
  <2>0. q = crt[c].body[pc]
    BY DEF q
  <2>1. q.op = "gate" => Written(crt, c, pc + 1) = Written(crt, c, pc) \cup {q.c}
    BY <1>1, <2>0, WrittenGrows
  <2> QED BY <2>1
<1>10. q.op = "issue" => (l \in Written(crt, c, pc + 1) <=> l \in Written(crt, c, pc))
  <2>0. q = crt[c].body[pc]
    BY DEF q
  <2>1. q.op = "issue" => Written(crt, c, pc + 1) = Written(crt, c, pc)
    BY <1>1, <2>0, WrittenGrows
  <2> QED BY <2>1
<1>11. Seen(crt, c, pc, q, v, u, j)
  BY <1>4, <1>6, <1>7, <1>8, <1>9, <1>10 DEF Seen, l
<1> QED BY <1>11 DEF u, v, q

(* A gate goes through, and what it leaves is as a direct run has it.      *)
LEMMA GateServes ==
  ASSUME Structure, Structure', Exact, RunGate, NEW ins, Called(frames, ins),
         Serves(circuit, Now, store, {}, ins)
  PROVE  /\ ~panicked' /\ Called(frames', ins)
         /\ Serves(circuit, Now', store', {}, ins)
<1> DEFINE q == Pending(Top)
           n == Len(frames)
           c == Top.comp
           pc == Top.pc
           i == q.c - 1
           w == Top.env[i]
           own == OwnNames(circuit, frames)
           fed == FedNames(circuit, frames, {})
           val == Values(circuit, frames, ins)
           own2 == OwnNames(circuit, frames')
           fed2 == FedNames(circuit, frames', {})
           val2 == Values(circuit, frames', ins)
           v == val[n]
           p == GateReads
           t == Now'
           m == GateMachine
           x == EvalGate(q.g, ValIn(v, q.a), ValIn(v, q.b))
<1>1. Running("gate") /\ Settle(m) /\ circuit' = circuit
  BY DEF RunGate, GateMachine
<1>2. /\ circuit \in Circuits /\ t \in Config(circuit)
      /\ Now.frames = frames /\ t.frames = frames' /\ n \in Nat \ {0} /\ n \in 1 .. n
      /\ Top = frames[n] /\ frames'[n] = Advance(Top)
      /\ Moved(circuit, Now, t, n)
  BY GateMoves
<1>3. /\ pc \in 1 .. Len(circuit[c].body) /\ q = circuit[c].body[pc] /\ q.op = "gate" /\ q \in Instruction
      /\ phase = "run" /\ Unallocated = 0
  BY <1>1, PendingIs
<1>4. Top \in Frame(circuit) /\ c \in 1 .. Len(circuit)
  BY <1>3, TopIs
<1>5. Advance(Top).comp = c /\ Advance(Top).pc = pc + 1 /\ Advance(Top).env = Top.env
  BY <1>4, AdvanceIs
<1>6. /\ p \in Machine /\ p.ok /\ AllPaid(circuit, t, p.store) /\ Good(circuit, t, p.store, own, fed, val)
      /\ ValueOf(Real(Top.env, q.a)) = ValIn(v, q.a) /\ ValIn(v, q.a) \in BOOLEAN
      /\ ValueOf(Real(Top.env, q.b)) = ValIn(v, q.b) /\ ValIn(v, q.b) \in BOOLEAN
  BY GateReadsGo
<1>7. /\ q.c \in Nat /\ i + 1 = q.c /\ i \in 1 .. Len(Top.env)
      /\ q.c \in own[n] /\ IsBound(t, n, i) /\ WireAt(t, n, i) = w /\ w = Real(Top.env, q.c)
      /\ w \in Wire /\ w \notin Constants
      /\ (Live(circuit, t, n, i) /\ w \in Keys) \/ w = UNREACHABLE
  BY GateTarget
<1>8. Called(frames', ins)
  BY <1>2, MovedCalled
<1>9. m = IF w # UNREACHABLE THEN Feed(p, w, x) ELSE p
  BY <1>6, <1>7 DEF GateMachine, GateReads
<1>10. x \in Data
  <2>1. q.g \in {"And", "Nimp", "Or", "Xor", "Not"}
    BY <1>3 DEF Instruction, Issue
  <2> QED BY <2>1, EvalGateIs
<1>11. ins[n] \in Inputs(circuit, c) /\ v = Goes(circuit, c, ins[n])[pc - 1]
  <2>1. frames \in Seq(Frame(circuit)) /\ Lined(circuit, frames) /\ Handed(circuit, frames, ins)
    BY DEF Called, Structure, Types
  <2>2. /\ val[n] = Goes(circuit, frames[n].comp, ins[n])[frames[n].pc - 1]
        /\ ins[n] \in Inputs(circuit, frames[n].comp)
    BY <1>2, <2>1, ValuesAre
  <2> QED BY <1>2, <2>2
<1>12. Len(Top.env) = BoundAt(circuit, c, pc) /\ Len(Top.env) \in Nat
  BY <1>3, TopLen
<1> HIDE DEF m, x, p
<1>13. m.ok /\ \A h \in Keys : Value(m.store, h) = IF h = w THEN x ELSE Value(p.store, h)
  <2>1. CASE w = UNREACHABLE
    BY <1>6, <1>9, <2>1, KeysAre
  <2>2. CASE Live(circuit, t, n, i) /\ w \in Keys
    <3>1. Credit(p.store, w) > 0
      <4> HIDE DEF i, n, t, w
      <4> QED BY <1>2, <1>6, <1>7, <2>2, LivePaid
    <3>2. w # UNREACHABLE
      BY <2>2, KeysAre
    <3> QED BY <1>6, <1>9, <1>10, <2>2, <3>1, <3>2, FeedGoes
  <2> QED BY <1>7, <2>1, <2>2
<1>14. m \in Machine
  <2>1. CASE w = UNREACHABLE
    BY <1>6, <1>9, <2>1
  <2>2. CASE w # UNREACHABLE
    <3>1. Accessed(p, Feed(p, w, x), w, 0, 0)
      BY <1>6, <1>10, FeedIs
    <3> QED BY <1>9, <2>2, <3>1 DEF Accessed
  <2> QED BY <2>1, <2>2
<1>15. store' = m.store /\ ~panicked'
  BY <1>1, <1>13, <1>14, SettleIs
<1>16. WritesName(circuit, t, p.store, m.store, own, n, i, x)
  <2>1. \A h \in Keys : Value(m.store, h) = IF h = WireAt(t, n, i) THEN x ELSE Value(p.store, h)
    BY <1>7, <1>13
  <2>2. /\ IsBound(t, n, i) /\ i + 1 \in own[n] /\ WireAt(t, n, i) \in Wire
        /\ Live(circuit, t, n, i) \/ WireAt(t, n, i) = UNREACHABLE
    BY <1>7
  <2> HIDE DEF own, i, n, t
  <2> QED BY <2>1, <2>2 DEF WritesName
<1>17. \A k, j : IsBound(t, k, j) =>
         /\ k \in 1 .. n /\ j \in Nat
         /\ k = n => j \in 1 .. BoundAt(circuit, c, pc) /\ j + 1 \in Nat
  <2> SUFFICES ASSUME NEW k, NEW j, IsBound(t, k, j)
               PROVE  /\ k \in 1 .. n /\ j \in Nat
                      /\ k = n => j \in 1 .. BoundAt(circuit, c, pc) /\ j + 1 \in Nat
    OBVIOUS
  <2>1. Len(t.frames) = n /\ k \in 1 .. n /\ j \in 1 .. Len(t.frames[k].env)
    BY <1>2 DEF Moved, IsBound
  <2>2. Len(t.frames[k].env) \in Nat
    BY <1>2, <2>1, ConfigIs
  <2>3. k = n => t.frames[k].env = Top.env
    BY <1>2, <1>5
  <2>4. j \in Nat /\ j + 1 \in Nat
    BY <2>1, <2>2
  <2> QED BY <1>12, <2>1, <2>3, <2>4
<1>18. \A k \in 1 .. n : k # n => own2[k] = own[k] /\ fed2[k] = fed[k] /\ val2[k] = val[k]
  <2> SUFFICES ASSUME NEW k \in 1 .. n, k # n
               PROVE  own2[k] = own[k] /\ fed2[k] = fed[k] /\ val2[k] = val[k]
    OBVIOUS
  <2>1. frames'[k] = frames[k] /\ k \in 1 .. Len(frames') /\ k \in 1 .. Len(frames)
    BY <1>2 DEF Moved
  <2>2. own2[k] = own[k]
    BY <2>1, OwnView
  <2>3. fed2[k] = fed[k]
    BY <2>1, AllFedView
  <2>4. val2[k] = val[k]
    BY <2>1, ValueView
  <2> HIDE DEF own, own2, fed, fed2, val, val2
  <2> QED BY <2>2, <2>3, <2>4
<1>19. /\ own[n] = Own(circuit, c, pc) /\ fed[n] = Written(circuit, c, pc)
       /\ own2[n] = Own(circuit, c, pc + 1) /\ fed2[n] = Written(circuit, c, pc + 1)
       /\ val2[n] = Goes(circuit, c, ins[n])[pc]
  <2>1. n \in 1 .. Len(frames) /\ n \in 1 .. Len(frames')
    BY <1>2 DEF Moved
  <2>2. frames'[n].comp = c /\ frames'[n].pc = pc + 1 /\ pc + 1 - 1 = pc
    BY <1>2, <1>3, <1>5
  <2>3. frames[n].comp = c /\ frames[n].pc = pc
    BY <1>2
  <2>4. own[n] = Own(circuit, c, pc)
    BY <2>1, <2>3, OwnView
  <2>5. own2[n] = Own(circuit, c, pc + 1)
    BY <2>1, <2>2, OwnView
  <2>6. fed[n] = Written(circuit, c, pc)
    BY <2>1, <2>3, AllFedView
  <2>7. fed2[n] = Written(circuit, c, pc + 1)
    BY <2>1, <2>2, AllFedView
  <2>80. val2[n] = Goes(circuit, frames'[n].comp, ins[n])[frames'[n].pc - 1]
    BY <2>1, ValueView
  <2>8. val2[n] = Goes(circuit, c, ins[n])[pc]
    <3>0. pc \in Nat
      <4>1. Len(circuit[c].body) \in Nat
        BY <1>2, <1>4, ComponentIs
      <4> QED BY <1>3, <4>1
    <3> HIDE DEF val2, n, c, pc
    <3>1. frames'[n].pc - 1 = pc
      BY <2>2, <3>0
    <3> QED BY <2>2, <2>80, <3>1
  <2> HIDE DEF own, own2, fed, fed2, val, val2, n, c
  <2> QED BY <2>2, <2>4, <2>5, <2>6, <2>7, <2>8
<1>20. \A j : IsBound(t, n, j) =>
         /\ j + 1 \in own2[n] => j + 1 \in own[n]
         /\ j + 1 \in fed2[n] <=> j + 1 \in fed[n] \/ j = i
         /\ val2[n][j] = IF j = i THEN x ELSE v[j]
  <2> SUFFICES ASSUME NEW j, IsBound(t, n, j)
               PROVE  /\ j + 1 \in own2[n] => j + 1 \in own[n]
                      /\ j + 1 \in fed2[n] <=> j + 1 \in fed[n] \/ j = i
                      /\ val2[n][j] = IF j = i THEN x ELSE v[j]
    OBVIOUS
  <2>1. j + 1 \in Nat /\ j \in 1 .. BoundAt(circuit, c, pc) /\ j \in Nat
    BY <1>17
  <2>2. j = i <=> j + 1 = q.c
    BY <1>7, <2>1
  <2> DEFINE g == q
             in == ins[n]
  <2>3. g = circuit[c].body[pc] /\ in \in Inputs(circuit, c) /\ v = Goes(circuit, c, in)[pc - 1] /\ g.op = "gate"
    BY <1>3, <1>11
  <2>30. circuit \in Circuits /\ c \in 1 .. Len(circuit) /\ pc \in 1 .. Len(circuit[c].body)
    BY <1>2, <1>3, <1>4
  <2>31. in \in Inputs(circuit, c) /\ j \in 1 .. BoundAt(circuit, c, pc)
    BY <2>1, <2>3
  <2> HIDE DEF g, in, v, c, pc
  <2>32. Seen(circuit, c, pc, g, v, Goes(circuit, c, in)[pc], j)
    <3>1. Seen(circuit, c, pc, circuit[c].body[pc], Goes(circuit, c, in)[pc - 1], Goes(circuit, c, in)[pc], j)
      BY <2>30, <2>31, TopViews
    <3> QED BY <2>3, <3>1
  <2>4. /\ j + 1 \in Own(circuit, c, pc + 1) => j + 1 \in Own(circuit, c, pc)
        /\ j + 1 \in Written(circuit, c, pc + 1) <=> j + 1 \in Written(circuit, c, pc) \/ j + 1 = g.c
        /\ Goes(circuit, c, in)[pc][j] = IF g.c = j + 1
                                           THEN EvalGate(g.g, ValIn(v, g.a), ValIn(v, g.b)) ELSE v[j]
    BY <2>3, <2>32 DEF Seen
  <2>5. x = EvalGate(g.g, ValIn(v, g.a), ValIn(v, g.b)) /\ g.c = q.c
    BY DEF x, g
  <2> HIDE DEF i, q, own, own2, fed, fed2, val2
  <2> QED BY <1>19, <2>2, <2>4, <2>5 DEF in
<1> HIDE DEF own, own2, fed, fed2, val, val2, t, i, n, c, pc
<1>21. NowFed(t, fed, val, n, i, x, fed2, val2)
  <2> SUFFICES ASSUME NEW k, NEW j, IsBound(t, k, j)
               PROVE  /\ j + 1 \in fed2[k] <=> j + 1 \in fed[k] \/ (k = n /\ j = i)
                      /\ j + 1 \in fed2[k] => val2[k][j] = IF k = n /\ j = i THEN x ELSE val[k][j]
    BY DEF NowFed
  <2>1. CASE k = n
    BY <1>20, <2>1
  <2>2. CASE k # n
    BY <1>17, <1>18, <2>2
  <2> QED BY <2>1, <2>2
<1>22. Good(circuit, t, m.store, own, fed2, val2)
  BY <1>6, <1>16, <1>21, GoodWrite
<1>23. Agree(t, own, fed2, val2, own2, fed2, val2)
  <2> SUFFICES ASSUME NEW k, NEW j, IsBound(t, k, j) PROVE j + 1 \in own2[k] => j + 1 \in own[k]
    BY DEF Agree
  <2>1. CASE k = n
    BY <1>20, <2>1
  <2>2. CASE k # n
    BY <1>17, <1>18, <2>2
  <2> QED BY <2>1, <2>2
<1>24. Good(circuit, t, m.store, own2, fed2, val2)
  BY <1>22, <1>23, GoodAgree
<1>25. Serves(circuit, t, store', {}, ins)
  BY <1>2, <1>15, <1>24 DEF Serves, own2, fed2, val2
<1> QED BY <1>8, <1>15, <1>25 DEF t

(* The credits of no wire overflow when the call grants the child's reads. *)
RoomToCall ==
  \A w \in Keys : Owing(circuit, Now', w) + Occurrences(Args, w) <= MaxCredits

(* The arguments of a call can be read and have their values.              *)
LEMMA ArgsReady ==
  ASSUME Structure, Structure', RunCall, Exact, NEW ins, Called(frames, ins),
         Serves(circuit, Now, store, {}, ins)
  PROVE  LET v == Values(circuit, frames, ins)[Len(frames)]
             fed == FedNames(circuit, frames, {})[Len(frames)]
         IN  /\ Len(Names0) \in Nat /\ DOMAIN Names0 = 1 .. Len(Names0) /\ Len(Args) = Len(Names0)
             /\ Names0 = Pending(Top).args
             /\ \A j \in 1 .. Len(Names0) : OperandGood(Names0, v, fed, j)
             /\ DOMAIN Args = 1 .. Len(Names0)
             /\ \A j \in 1 .. Len(Names0) : Args[j] = Real(Top.env, Names0[j])
<1> DEFINE n == Len(frames)
<1>1. /\ circuit \in Circuits /\ Mid \in Config(circuit)
      /\ ReadOff(circuit, Now, Mid, n, Names0, Len(Names0))
  BY MidIs
<1>2. Running("call") /\ Args \in Seq(Wire)
  BY CallIs
<1>3. Names0 = Pending(Top).args
  BY <1>2 DEF Names0, Operands, Running
<1>4. Len(Names0) \in Nat /\ DOMAIN Names0 = 1 .. Len(Names0)
  BY <1>1 DEF ReadOff, Within
<1>5. DOMAIN Args = 1 .. Len(Names0) /\ \A j \in 1 .. Len(Names0) : Args[j] = Real(Top.env, Names0[j])
  BY <1>3, <1>4 DEF Args, Reals
<1>6. Len(Args) = Len(Names0)
  <2>1. DOMAIN Args = 1 .. Len(Args) /\ Len(Args) \in Nat
    BY <1>2
  <2> QED BY <1>4, <1>5, <2>1
<1>7. Lined(circuit, frames) /\ Handed(circuit, frames, ins)
  BY DEF Called
<1>8. ASSUME NEW j \in 1 .. Len(Names0)
      PROVE  OperandGood(Names0, Values(circuit, frames, ins)[n], FedNames(circuit, frames, {})[n], j)
  <2>1. Names0 = Operands(Pending(Top))
    BY DEF Names0
  <2> QED BY <1>1, <1>2, <1>7, <1>8, <2>1, OperandReady
<1> QED BY <1>3, <1>4, <1>5, <1>6, <1>8

(* The accesses of a call succeed, and keep every value still needed.      *)
LEMMA CallGoes ==
  ASSUME Structure, Structure', RunCall, Exact, NEW ins, Called(frames, ins),
         Serves(circuit, Now, store, {}, ins), Fits(circuit, Now'), RoomToCall
  PROVE  ~panicked' /\ Kept(store, store')
<1> DEFINE tt == Names(circuit, Now', Len(frames) + 1)
           acc == GrantThenUnpin(Args, InputGrants(Template(circuit, Callee), Promised))
           m == CallMachine
<1>1. /\ PromisedReads(circuit, Callee, Promised, tt)
      /\ \A w \in Keys :
           /\ Owing(circuit, Now, w) + Weighed(Args, w, tt)
                = Owing(circuit, Now', w) + Occurrences(Args, w)
           /\ Owing(circuit, Now, w) \in Nat /\ Owing(circuit, Now', w) \in Nat
           /\ Occurrences(Args, w) \in Nat
  BY CallOwes
<1>2. /\ Running("call") /\ Callee \in 1 .. Len(circuit) /\ circuit \in Circuits /\ Settle(m)
      /\ Args \in Seq(Wire) /\ Len(Args) = circuit[Callee].nin /\ Counts(Promised, Outs)
  BY CallIs
<1>3. AllPaid(circuit, Now, store) /\ store \in [Slots -> Entry]
  BY <1>2 DEF Running, Exact, Structure, Types
<1>4. Counts(Promised, Len(circuit[Callee].outs))
  BY <1>2 DEF Outs
<1>5. m = Perform[acc]
  BY DEF CallMachine
<1>6. m \in Machine
  BY <1>2, <1>3, <1>4, CallAccesses DEF CallMachine
<1> HIDE DEF m, tt
<1>7. PICK k, i, xs, uses, gains :
        /\ GrantsFirst(acc, k, i, xs, uses, gains, Args)
        /\ \A w \in Keys :
             /\ Weighed(xs, w, uses) = Occurrences(Args, w) /\ Occurrences(Args, w) \in Nat
             /\ \A t : PromisedReads(circuit, Callee, Promised, t) =>
                  Weighed(xs, w, gains) = Weighed(Args, w, t) /\ Weighed(Args, w, t) \in Nat
  BY <1>2, <1>4, CallCourse
<1> HIDE DEF acc
<1>8. Covers(store, xs, uses, gains)
  <2> SUFFICES ASSUME NEW w \in Keys
               PROVE  /\ Weighed(xs, w, uses) <= Credit(store, w) + Weighed(xs, w, gains)
                      /\ Credit(store, w) + Weighed(xs, w, gains) <= MaxCredits
    BY DEF Covers
  <2> DEFINE b == Occurrences(Args, w)
             d == Weighed(Args, w, tt)
             x == Owing(circuit, Now, w)
             y == Owing(circuit, Now', w)
  <2>1. Weighed(xs, w, uses) = b /\ Weighed(xs, w, gains) = d /\ b \in Nat /\ d \in Nat
    BY <1>1, <1>7
  <2>2. Credit(store, w) = x
    BY <1>3 DEF AllPaid
  <2>3. x + d = y + b /\ x \in Nat /\ y \in Nat
    BY <1>1
  <2>4. y + b <= MaxCredits
    BY DEF RoomToCall
  <2> HIDE DEF b, d, x, y
  <2> QED BY <2>1, <2>2, <2>3, <2>4, StorageAssumption
<1>9. \A p \in DOMAIN Args : Ready(store, Args[p])
  <2> DEFINE v == Values(circuit, frames, ins)[Len(frames)]
             fed == FedNames(circuit, frames, {})[Len(frames)]
  <2>1. /\ \A j \in 1 .. Len(Names0) : OperandGood(Names0, v, fed, j)
        /\ DOMAIN Args = 1 .. Len(Names0)
        /\ \A j \in 1 .. Len(Names0) : Args[j] = Real(Top.env, Names0[j])
    BY ArgsReady
  <2> HIDE DEF v, fed
  <2> QED BY <2>1 DEF OperandGood
<1>10. m.ok /\ Kept(store, m.store)
  <2>1. Perform[acc].ok /\ Kept(store, Perform[acc].store)
    BY <1>3, <1>7, <1>8, <1>9, PerformGoes
  <2> QED BY <1>5, <2>1
<1>11. store' = m.store /\ ~panicked'
  BY <1>2, <1>6, <1>10, SettleIs
<1> QED BY <1>10, <1>11

(* A call under way adds the child to the stack of calls.                  *)
Pushes(crt, fs, gs, n, ins, i, in, jns) ==
  /\ n \in Nat \ {0} /\ Len(fs) = n /\ Len(gs) = n + 1
  /\ \A k \in 1 .. n : gs[k] = fs[k]
  /\ Lined(crt, fs) /\ Handed(crt, fs, ins)
  /\ i = fs[n].pc - 1 /\ i \in 1 .. DoneAt(crt, fs[n].comp)
  /\ crt[fs[n].comp].body[i].op = "call" /\ crt[fs[n].comp].body[i].comp = gs[n + 1].comp
  /\ gs[n + 1].pc = 1 /\ DoneAt(crt, gs[n + 1].comp) \in Nat
  /\ in \in Inputs(crt, gs[n + 1].comp)
  /\ in = ValsIn(Goes(crt, fs[n].comp, ins[n])[fs[n].pc - 2], crt[fs[n].comp].body[i].args)
  /\ jns[n + 1] = in /\ \A k \in 1 .. n : jns[k] = ins[k]

(* A push lines the child up below its caller.                             *)
LEMMA PushCalled ==
  ASSUME NEW crt, NEW fs, NEW gs, NEW n, NEW ins, NEW i, NEW in, NEW jns,
         Pushes(crt, fs, gs, n, ins, i, in, jns)
  PROVE  Lined(crt, gs) /\ Handed(crt, gs, jns)
<1>0. /\ n \in Nat \ {0} /\ Len(fs) = n /\ Len(gs) = n + 1
      /\ \A k \in 1 .. n : gs[k] = fs[k]
      /\ Lined(crt, fs) /\ Handed(crt, fs, ins)
      /\ i = fs[n].pc - 1 /\ i \in 1 .. DoneAt(crt, fs[n].comp)
      /\ crt[fs[n].comp].body[i].op = "call" /\ crt[fs[n].comp].body[i].comp = gs[n + 1].comp
      /\ gs[n + 1].pc = 1 /\ DoneAt(crt, gs[n + 1].comp) \in Nat
      /\ in \in Inputs(crt, gs[n + 1].comp)
      /\ in = ValsIn(Goes(crt, fs[n].comp, ins[n])[fs[n].pc - 2], crt[fs[n].comp].body[i].args)
      /\ jns[n + 1] = in /\ \A k \in 1 .. n : jns[k] = ins[k]
  BY DEF Pushes
<1>9. n \in Nat \ {0}
  BY DEF Pushes
<1>10. \A k \in 1 .. n : gs[k] = fs[k]
  BY DEF Pushes
<1>11. \A k \in 1 .. n : jns[k] = ins[k]
  BY DEF Pushes
<1>12. DoneAt(crt, gs[n + 1].comp) \in Nat
  BY DEF Pushes
<1>1. \A k \in 1 .. n + 1 : k = n + 1 \/ k \in 1 .. n
  BY ONLY <1>9
<1>2. \A k \in 1 .. n : k < n + 1 /\ k # n + 1 /\ (k = n \/ (k < n /\ k + 1 \in 1 .. n))
  BY ONLY <1>9
<1>3. 1 \in 1 .. DoneAt(crt, gs[n + 1].comp) + 1
  <2> DEFINE z == DoneAt(crt, gs[n + 1].comp)
  <2>1. z \in Nat
    BY <1>12
  <2> HIDE DEF z
  <2>2. 1 \in 1 .. z + 1
    BY <2>1
  <2> QED BY <2>2 DEF z
<1>4. ASSUME NEW k \in 1 .. n + 1 PROVE gs[k].pc \in 1 .. DoneAt(crt, gs[k].comp) + 1
  <2>1. CASE k = n + 1
    BY <1>0, <1>3, <2>1
  <2>2. CASE k \in 1 .. n
    <3>1. gs[k] = fs[k]
      BY <1>0, <2>2
    <3> QED BY <1>0, <2>2, <3>1 DEF Lined
  <2> QED BY <1>1, <2>1, <2>2
<1>5. ASSUME NEW k \in 1 .. n + 1, k < n + 1
      PROVE  LET e == gs[k].pc - 1
             IN  /\ e \in 1 .. DoneAt(crt, gs[k].comp)
                 /\ crt[gs[k].comp].body[e].op = "call"
                 /\ crt[gs[k].comp].body[e].comp = gs[k + 1].comp
  <2>1. k \in 1 .. n /\ gs[k] = fs[k]
    <3>1. k \in 1 .. n
      BY ONLY <1>1, <1>5, <1>9
    <3> QED BY ONLY <1>10, <3>1
  <2>2. CASE k = n
    BY <1>0, <2>1, <2>2
  <2>3. CASE k < n
    <3>1. gs[k + 1] = fs[k + 1]
      <4>1. k + 1 \in 1 .. n
        BY ONLY <1>2, <1>9, <2>1, <2>3
      <4> QED BY ONLY <1>10, <4>1
    <3> QED BY <1>0, <2>1, <2>3, <3>1 DEF Lined
  <2> QED BY <1>2, <2>1, <2>2, <2>3
<1>6. ASSUME NEW k \in 1 .. n + 1 PROVE jns[k] \in Inputs(crt, gs[k].comp)
  <2>1. CASE k = n + 1
    BY <1>0, <2>1
  <2>2. CASE k \in 1 .. n
    <3>1. gs[k] = fs[k] /\ jns[k] = ins[k]
      BY <1>0, <2>2
    <3> QED BY <1>0, <2>2, <3>1 DEF Handed
  <2> QED BY <1>1, <2>1, <2>2
<1>7. ASSUME NEW k \in 1 .. n + 1, k < n + 1
      PROVE  jns[k + 1] = ValsIn(Goes(crt, gs[k].comp, jns[k])[gs[k].pc - 2],
                                 crt[gs[k].comp].body[gs[k].pc - 1].args)
  <2>1. k \in 1 .. n /\ gs[k] = fs[k] /\ jns[k] = ins[k]
    <3>1. k \in 1 .. n
      BY ONLY <1>1, <1>7, <1>9
    <3> QED BY ONLY <1>10, <1>11, <3>1
  <2>2. CASE k = n
    BY <1>0, <2>1, <2>2
  <2>3. CASE k < n
    <3>1. jns[k + 1] = ins[k + 1]
      <4>1. k + 1 \in 1 .. n
        BY ONLY <1>2, <1>9, <2>1, <2>3
      <4> QED BY ONLY <1>11, <4>1
    <3> QED BY <1>0, <2>1, <2>3, <3>1 DEF Handed
  <2> QED BY <1>2, <2>1, <2>2, <2>3
<1> QED BY <1>0, <1>4, <1>5, <1>6, <1>7 DEF Lined, Handed

(* The child is called with the values of the arguments.                   *)
CallIns(ins) ==
  [k \in 1 .. Len(frames) + 1 |->
     IF k = Len(frames) + 1 THEN ValsIn(Values(circuit, frames, ins)[Len(frames)], Names0) ELSE ins[k]]

(* So every closure is called with the values its caller passes.           *)
LEMMA CallCalls ==
  ASSUME Structure, Structure', RunCall, NEW ins, Called(frames, ins)
  PROVE  /\ Called(frames', CallIns(ins))
         /\ CallIns(ins)[Len(frames) + 1] = ValsIn(Values(circuit, frames, ins)[Len(frames)], Names0)
         /\ \A k \in 1 .. Len(frames) : CallIns(ins)[k] = ins[k]
         /\ Values(circuit, frames, ins)[Len(frames)] \in Bits(Len(Top.env))
<1> DEFINE n == Len(frames)
           c == Top.comp
           pc == Top.pc
           v == Values(circuit, frames, ins)[n]
           in == ValsIn(v, Names0)
           jns == CallIns(ins)
           fs == Mid.frames
           q == Pending(Top)
<1>1. /\ circuit \in Circuits /\ Mid \in Config(circuit) /\ Now' \in Config(circuit)
      /\ n \in Nat \ {0} /\ n \in 1 .. n /\ Now.frames[n] = Top
      /\ Moved(circuit, Now, Mid, n) /\ fs[n] = Caller
      /\ Pushed(Mid, Now', n) /\ Now'.frames[n + 1] = Child
  BY MidIs
<1>2. Running("call") /\ Callee \in 1 .. Len(circuit) /\ Child.comp = Callee /\ Child.pc = 1 /\ circuit' = circuit
  BY CallIs
<1>3. Now.frames = frames /\ Now'.frames = frames'
  BY <1>2, NowIs, NextNow
<1>4. /\ pc \in 1 .. Len(circuit[c].body) /\ q = circuit[c].body[pc] /\ q.op = "call"
      /\ phase = "run" /\ Unallocated = 0 /\ pc \in Nat
  <2>1. /\ pc \in 1 .. Len(circuit[c].body) /\ q = circuit[c].body[pc] /\ q.op = "call"
        /\ phase = "run" /\ Unallocated = 0
    BY <1>2, PendingIs
  <2> QED BY <2>1, TopIs
<1>5. c \in 1 .. Len(circuit) /\ Top = frames[n]
  BY <1>4, TopIs
<1>6. Caller.comp = c /\ Caller.pc = pc + 1 /\ pc + 1 - 1 = pc /\ pc + 1 - 2 = pc - 1
  <2>1. Caller.comp = c /\ Caller.pc = pc + 1
    BY CallerIs
  <2> QED BY <1>4, <2>1
<1>7. Called(fs, ins)
  BY <1>1, <1>3, MovedCalled
<1>8. jns[n + 1] = in /\ \A k \in 1 .. n : jns[k] = ins[k]
  <2>1. n + 1 \in 1 .. n + 1 /\ \A k \in 1 .. n : k \in 1 .. n + 1 /\ k # n + 1
    BY <1>1
  <2> QED BY <2>1 DEF CallIns
<1>9. v = Goes(circuit, c, ins[n])[pc - 1] /\ v \in Bits(Len(Top.env))
  <2>1. frames \in Seq(Frame(circuit)) /\ Lined(circuit, frames) /\ Handed(circuit, frames, ins)
    BY DEF Structure, Types, Called
  <2>2. /\ v = Goes(circuit, frames[n].comp, ins[n])[frames[n].pc - 1]
        /\ v \in Bits(BoundAt(circuit, frames[n].comp, frames[n].pc))
    BY <1>1, <2>1, ValuesAre
  <2>3. Len(Top.env) = BoundAt(circuit, c, pc)
    BY <1>4, TopLen
  <2> QED BY <1>5, <2>2, <2>3
<1>10. Names0 = q.args
  BY <1>4 DEF Names0, Operands
<1>11. in \in Inputs(circuit, Callee)
  <2>1. /\ Within(q.args, circuit[q.comp].nin, BoundAt(circuit, c, pc)) /\ circuit[q.comp].nin \in Nat
    <3> HIDE DEF q, c, pc
    <3> QED BY <1>1, <1>4, <1>5, MentionsBound
  <2>2. Len(Top.env) = BoundAt(circuit, c, pc) /\ Len(Top.env) \in Nat
    BY <1>4, TopLen
  <2> HIDE DEF v
  <2>3. in \in Bits(circuit[q.comp].nin)
    BY <1>9, <1>10, <2>1, <2>2, ValsInIs
  <2> QED BY <2>3 DEF Inputs, Bits, Callee
<1>12. /\ Len(fs) = n /\ Len(frames') = n + 1 /\ \A k \in 1 .. n : frames'[k] = fs[k]
       /\ frames'[n + 1] = Child
  BY <1>1, <1>3 DEF Pushed
<1>13. pc \in 1 .. DoneAt(circuit, c) /\ DoneAt(circuit, Callee) \in Nat
  <2>1. Len(circuit[Callee].body) \in Nat
    BY <1>1, <1>2, ComponentIs
  <2> QED BY <1>4, <2>1 DEF DoneAt
<1>14. q.comp = Callee
  BY DEF Callee
<1> HIDE DEF n, c, pc, v, in, jns, fs, q
<1>15. Lined(circuit, frames') /\ Handed(circuit, frames', jns)
  <2>1. Lined(circuit, fs) /\ Handed(circuit, fs, ins)
    BY <1>7 DEF Called
  <2>2. /\ fs[n].comp = c /\ fs[n].pc = pc + 1 /\ pc = fs[n].pc - 1 /\ fs[n].pc - 2 = pc - 1
    <3>1. fs[n].comp = c /\ fs[n].pc = pc + 1
      BY <1>1, <1>6
    <3> QED BY <1>4, <3>1
  <2>3. frames'[n + 1].comp = Callee /\ frames'[n + 1].pc = 1
    BY <1>2, <1>12
  <2>4. in = ValsIn(Goes(circuit, fs[n].comp, ins[n])[fs[n].pc - 2], circuit[fs[n].comp].body[pc].args)
    BY <1>4, <1>9, <1>10, <2>2 DEF in
  <2>5. pc \in 1 .. DoneAt(circuit, fs[n].comp) /\ circuit[fs[n].comp].body[pc].op = "call"
        /\ circuit[fs[n].comp].body[pc].comp = frames'[n + 1].comp
    BY <1>4, <1>13, <1>14, <2>2, <2>3
  <2>6. in \in Inputs(circuit, frames'[n + 1].comp) /\ DoneAt(circuit, frames'[n + 1].comp) \in Nat
    BY <1>11, <1>13, <2>3
  <2>7. Pushes(circuit, fs, frames', n, ins, pc, in, jns)
    BY <1>1, <1>8, <1>12, <2>1, <2>2, <2>3, <2>4, <2>5, <2>6 DEF Pushes
  <2> QED BY <2>7, PushCalled
<1> QED BY <1>8, <1>9, <1>15 DEF Called, in, v, n, jns

(* What the caller's closure knows of its wires as it enters the call.     *)
LEMMA CallerViews ==
  ASSUME Structure, Structure', RunCall, NEW ins, Called(frames, ins)
  PROVE  LET n == Len(frames)
             own == OwnNames(circuit, frames)
             own2 == OwnNames(circuit, frames')
             fed == FedNames(circuit, frames, {})
             fed2 == FedNames(circuit, frames', {})
             val == Values(circuit, frames, ins)
             val2 == Values(circuit, frames', CallIns(ins))
         IN  /\ \A k \in 1 .. n : k # n => own2[k] = own[k] /\ fed2[k] = fed[k] /\ val2[k] = val[k]
             /\ \A j \in 1 .. Len(Top.env) :
                  /\ j + 1 \in own2[n] => j + 1 \in own[n]
                  /\ j + 1 \in fed2[n] <=> j + 1 \in fed[n]
                  /\ val2[n][j] = val[n][j]
             /\ \A j \in DOMAIN Names0 : Names0[j] \notin own2[n]
             /\ own2[n + 1] = {} /\ val2[n + 1] = ValsIn(val[n], Names0)
<1> DEFINE n == Len(frames)
           c == Top.comp
           pc == Top.pc
           own == OwnNames(circuit, frames)
           own2 == OwnNames(circuit, frames')
           fed == FedNames(circuit, frames, {})
           fed2 == FedNames(circuit, frames', {})
           val == Values(circuit, frames, ins)
           jns == CallIns(ins)
           val2 == Values(circuit, frames', jns)
           q == Pending(Top)
<1>1. /\ circuit \in Circuits /\ n \in Nat \ {0} /\ n \in 1 .. n
      /\ Moved(circuit, Now, Mid, n) /\ Mid.frames[n] = Caller
      /\ Pushed(Mid, Now', n) /\ Now'.frames[n + 1] = Child
  BY MidIs
<1>2. /\ Running("call") /\ Callee \in 1 .. Len(circuit) /\ Child.comp = Callee /\ Child.pc = 1
      /\ circuit' = circuit
  BY CallIs
<1>3. Now.frames = frames /\ Now'.frames = frames'
  BY <1>2, NowIs, NextNow
<1>4. /\ pc \in 1 .. Len(circuit[c].body) /\ q = circuit[c].body[pc] /\ q.op = "call"
      /\ phase = "run" /\ Unallocated = 0
  BY <1>2, PendingIs
<1>5. c \in 1 .. Len(circuit) /\ Top = frames[n] /\ pc \in Nat /\ pc # 0 /\ frames[n].comp = c /\ frames[n].pc = pc
  BY <1>4, TopIs
<1>6. Len(frames') = n + 1 /\ frames'[n] = Caller /\ frames'[n + 1] = Child
      /\ \A k \in 1 .. n : k # n => frames'[k] = frames[k]
  BY <1>1, <1>3 DEF Pushed, Moved
<1>7. frames'[n].comp = c /\ frames'[n].pc = pc + 1 /\ frames'[n + 1].comp = Callee /\ frames'[n + 1].pc = 1
  BY <1>2, <1>6, CallerIs
<1>8. /\ Called(frames', jns) /\ jns[n + 1] = ValsIn(val[n], Names0)
      /\ \A k \in 1 .. n : jns[k] = ins[k]
  BY CallCalls
<1>9. n + 1 \in 1 .. Len(frames') /\ n \in 1 .. Len(frames') /\ n \in 1 .. Len(frames)
  BY <1>1, <1>6
<1>10. ASSUME NEW k \in 1 .. n, k # n
       PROVE  own2[k] = own[k] /\ fed2[k] = fed[k] /\ val2[k] = val[k]
  <2>1. frames'[k] = frames[k] /\ k \in 1 .. Len(frames') /\ k \in 1 .. Len(frames) /\ jns[k] = ins[k]
    BY <1>1, <1>6, <1>8, <1>10
  <2>2. own2[k] = own[k]
    BY <2>1, OwnView
  <2>3. fed2[k] = fed[k]
    BY <2>1, AllFedView
  <2>4. val2[k] = Goes(circuit, frames'[k].comp, jns[k])[frames'[k].pc - 1]
    BY <2>1, ValueView
  <2>5. val[k] = Goes(circuit, frames[k].comp, ins[k])[frames[k].pc - 1]
    BY <2>1, ValueView
  <2> HIDE DEF own, own2, fed, fed2, val, val2, jns
  <2> QED BY <2>1, <2>2, <2>3, <2>4, <2>5
<1>11. own[n] = Own(circuit, c, pc) /\ own2[n] = Own(circuit, c, pc + 1) /\ own2[n + 1] = Own(circuit, Callee, 1)
  <2>1. own[n] = Own(circuit, c, pc)
    BY <1>5, <1>9, OwnView
  <2>2. own2[n] = Own(circuit, c, pc + 1)
    BY <1>7, <1>9, OwnView
  <2>3. own2[n + 1] = Own(circuit, Callee, 1)
    BY <1>7, <1>9, OwnView
  <2> QED BY <2>1, <2>2, <2>3
<1>12. fed[n] = Written(circuit, c, pc) /\ fed2[n] = Written(circuit, c, pc + 1)
  <2>1. fed[n] = Written(circuit, c, pc)
    BY <1>5, <1>9, AllFedView
  <2>2. fed2[n] = Written(circuit, c, pc + 1)
    BY <1>7, <1>9, AllFedView
  <2> QED BY <2>1, <2>2
<1> DEFINE in == ins[n]
<1>13. val[n] = Goes(circuit, c, in)[pc - 1] /\ val2[n] = Goes(circuit, c, in)[pc]
  <2>1. val[n] = Goes(circuit, frames[n].comp, ins[n])[frames[n].pc - 1]
    BY <1>9, ValueView
  <2>2. val2[n] = Goes(circuit, frames'[n].comp, jns[n])[frames'[n].pc - 1]
    BY <1>9, ValueView
  <2>3. jns[n] = in
    BY <1>1, <1>8
  <2>4. pc + 1 - 1 = pc
    BY <1>5
  <2> HIDE DEF val, val2, jns, c, pc, n
  <2>5. frames'[n].pc - 1 = pc
    BY <1>5, <1>7
  <2> QED BY <1>5, <1>7, <2>1, <2>2, <2>3, <2>5 DEF in
<1>14. in \in Inputs(circuit, c) /\ Lined(circuit, frames') /\ frames' \in Seq(Frame(circuit))
  <2>1. in \in Inputs(circuit, frames[n].comp)
    BY <1>9 DEF Called, Handed
  <2>2. frames' \in Seq(Frame(circuit))
    BY <1>2 DEF Structure, Types
  <2> QED BY <1>5, <1>8, <2>1, <2>2 DEF Called
<1>15. val2[n + 1] = ValsIn(val[n], Names0)
  <2>1. val2[n + 1] = Goes(circuit, frames'[n + 1].comp, jns[n + 1])[frames'[n + 1].pc - 1]
    BY <1>9, ValueView
  <2>2. jns[n + 1] \in Inputs(circuit, frames'[n + 1].comp)
    BY <1>8, <1>9 DEF Called, Handed
  <2> HIDE DEF val, val2, jns, n
  <2>3. val2[n + 1] = Goes(circuit, Callee, jns[n + 1])[0] /\ jns[n + 1] \in Inputs(circuit, Callee)
    BY <1>7, <2>1, <2>2
  <2>4. Goes(circuit, Callee, jns[n + 1])[0] = jns[n + 1]
    BY <1>1, <1>2, <2>3, RunIs
  <2> QED BY <1>8, <2>3, <2>4
<1>16. own2[n + 1] = {}
  <2>1. n + 1 # 1 /\ n + 1 \in 1 .. Len(frames')
    BY <1>1, <1>9
  <2>2. Callee # Len(circuit)
    BY <1>1, <1>7, <1>14, <2>1, NotRoot
  <2>3. Own(circuit, Callee, 1) = {}
    BY <1>1, <1>2, <2>2, NamesStart
  <2> QED BY <1>11, <2>3
<1>17. ASSUME NEW j \in DOMAIN Names0 PROVE Names0[j] \notin own2[n]
  <2>1. Names0 = q.args
    BY <1>4 DEF Names0, Operands
  <2>2. Names0[j] \in ToSet(q.args)
    BY <2>1 DEF ToSet
  <2>3. pc \in Nat \ {0}
    BY <1>5
  <2> HIDE DEF own2, q, c, pc
  <2>4. \A l \in Own(circuit, c, pc + 1) : l \notin ToSet(q.args)
    BY <1>1, <1>4, <1>5, <2>3, OwnGrows
  <2> QED BY <1>11, <2>2, <2>4
<1>18. ASSUME NEW j \in 1 .. Len(Top.env)
       PROVE  /\ j + 1 \in own2[n] => j + 1 \in own[n]
              /\ j + 1 \in fed2[n] <=> j + 1 \in fed[n]
              /\ val2[n][j] = val[n][j]
  <2>1. Len(Top.env) = BoundAt(circuit, c, pc)
    BY <1>4, TopLen
  <2> DEFINE v == Goes(circuit, c, in)[pc - 1]
             u == Goes(circuit, c, in)[pc]
  <2>2. Seen(circuit, c, pc, circuit[c].body[pc], v, u, j)
    BY <1>1, <1>4, <1>5, <1>14, <2>1, TopViews
  <2>3. Seen(circuit, c, pc, q, v, u, j) /\ q.op # "gate"
    BY <1>4, <2>2
  <2> HIDE DEF c, pc, q, v, u, own, own2, fed, fed2, val, val2, in
  <2>4. /\ j + 1 \in Own(circuit, c, pc + 1) => j + 1 \in Own(circuit, c, pc)
        /\ j + 1 \in Written(circuit, c, pc + 1) <=> j + 1 \in Written(circuit, c, pc)
        /\ u[j] = v[j]
    BY <2>3 DEF Seen
  <2> QED BY <1>11, <1>12, <1>13, <2>4 DEF u, v
<1> QED BY <1>10, <1>15, <1>16, <1>17, <1>18

(* A call goes through, and the child starts with the values of its        *)
(* arguments.                                                              *)
LEMMA CallServes ==
  ASSUME Structure, Structure', RunCall, Exact, NEW ins, Called(frames, ins),
         Serves(circuit, Now, store, {}, ins), Fits(circuit, Now'), RoomToCall
  PROVE  ~panicked' /\ Serves(circuit, Now', store', {}, CallIns(ins))
<1> DEFINE n == Len(frames)
           own == OwnNames(circuit, frames)
           own2 == OwnNames(circuit, frames')
           fed == FedNames(circuit, frames, {})
           fed2 == FedNames(circuit, frames', {})
           val == Values(circuit, frames, ins)
           val2 == Values(circuit, frames', CallIns(ins))
           s == Now
           t == Now'
           ns == Names0
           m == Len(Top.env)
<1>1. /\ circuit \in Circuits /\ s \in Config(circuit) /\ Mid \in Config(circuit) /\ t \in Config(circuit)
      /\ n \in Nat \ {0} /\ n \in 1 .. n /\ Len(s.frames) = n /\ s.frames[n] = Top
      /\ Moved(circuit, s, Mid, n) /\ Mid.frames[n] = Caller
      /\ Pushed(Mid, t, n) /\ t.frames[n + 1] = Child /\ t.frames[n] = Caller
      /\ ReadOff(circuit, s, Mid, n, ns, Len(ns))
  BY MidIs
<1>2. Running("call") /\ Child.env = Args /\ circuit' = circuit
  BY CallIs
<1>3. s.frames = frames /\ t.frames = frames'
  BY <1>2, NowIs, NextNow
<1>4. /\ \A k \in 1 .. n : k # n => own2[k] = own[k] /\ fed2[k] = fed[k] /\ val2[k] = val[k]
      /\ \A j \in 1 .. m :
           /\ j + 1 \in own2[n] => j + 1 \in own[n]
           /\ j + 1 \in fed2[n] <=> j + 1 \in fed[n]
           /\ val2[n][j] = val[n][j]
      /\ \A j \in DOMAIN ns : ns[j] \notin own2[n]
      /\ own2[n + 1] = {} /\ val2[n + 1] = ValsIn(val[n], ns)
  BY CallerViews
<1>5. /\ DOMAIN ns = 1 .. Len(ns) /\ DOMAIN Args = 1 .. Len(ns) /\ Len(Args) = Len(ns)
      /\ \A j \in 1 .. Len(ns) : OperandGood(ns, val[n], fed[n], j)
      /\ \A j \in 1 .. Len(ns) : Args[j] = Real(Top.env, ns[j])
  BY ArgsReady
<1>6. ~panicked' /\ Kept(store, store')
  BY CallGoes
<1>7. AllPaid(circuit, t, store')
  BY <1>6, CallPaid
<1>8. KeepsLive(circuit, t, store, store')
  BY <1>1, <1>6, <1>7, PaidKeeps
<1>9. Good(circuit, s, store, own, fed, val)
  BY <1>3 DEF Serves
<1>10. Caller.env = Top.env /\ m \in Nat
  BY CallerIs
<1>11. Len(t.frames) = n + 1 /\ \A k \in 1 .. n : t.frames[k].env = s.frames[k].env
  <2>1. Len(t.frames) = n + 1 /\ \A k \in 1 .. n : k # n => t.frames[k] = s.frames[k]
    BY <1>1 DEF Pushed, Moved
  <2> QED BY <1>1, <1>10, <2>1
<1>12. \A k \in 1 .. n : Alike(circuit, Mid, t, k)
  BY <1>1, FramePushed
<1>13. \A k \in 1 .. n : k # n => Alike(circuit, s, Mid, k)
  BY <1>1 DEF ReadOff
<1>14. \A l \in Nat : Coming(circuit, s, n, l) = Coming(circuit, t, n, l) + Occurrences(ns, l)
                      /\ Coming(circuit, t, n, l) \in Nat /\ Occurrences(ns, l) \in Nat
  <2> SUFFICES ASSUME NEW l \in Nat
               PROVE  Coming(circuit, s, n, l) = Coming(circuit, t, n, l) + Occurrences(ns, l)
                      /\ Coming(circuit, t, n, l) \in Nat /\ Occurrences(ns, l) \in Nat
    OBVIOUS
  <2>1. Coming(circuit, s, n, l) = Coming(circuit, Mid, n, l) + Occurrences(ns, l)
    BY <1>1 DEF ReadOff
  <2>2. Coming(circuit, Mid, n, l) = Coming(circuit, t, n, l)
    BY <1>1, <1>12 DEF Alike
  <2>3. Coming(circuit, t, n, l) \in Nat
    <3>1. n \in 1 .. Len(t.frames)
      BY <1>1, <1>11
    <3> QED BY <1>1, <3>1, ComingNat
  <2>4. Occurrences(ns, l) \in Nat
    <3>1. DOMAIN ns = 1 .. Len(ns) /\ Len(ns) \in Nat
      BY <1>1 DEF ReadOff, Within
    <3> QED BY <3>1, OccurrencesIs
  <2> QED BY <2>1, <2>2, <2>3, <2>4
<1> HIDE DEF n, own, own2, fed, fed2, val, val2, s, t, ns, m
<1>15. ASSUME NEW k \in 1 .. n, NEW j, IsBound(t, k, j)
       PROVE  OldName(circuit, s, t, own, fed, val, own2, fed2, val2, k, j)
  <2>1. IsBound(s, k, j) /\ WireAt(t, k, j) = WireAt(s, k, j)
    BY <1>1, <1>11, <1>15 DEF IsBound, WireAt
  <2>2. j + 1 \in Nat /\ (k = n => j \in 1 .. m)
    <3>1. j \in 1 .. Len(s.frames[k].env) /\ k \in 1 .. Len(s.frames)
      BY <2>1 DEF IsBound
    <3>2. Len(s.frames[k].env) \in Nat
      BY <1>1, <3>1, ConfigIs
    <3>3. k = n => s.frames[k].env = Top.env
      BY <1>1
    <3> QED BY <3>1, <3>2, <3>3 DEF m
  <2>3. CASE k # n
    <3>1. Coming(circuit, s, k, j + 1) = Coming(circuit, t, k, j + 1)
      <4>1. Coming(circuit, s, k, j + 1) = Coming(circuit, Mid, k, j + 1)
        BY <1>13, <2>2, <2>3 DEF Alike
      <4>2. Coming(circuit, Mid, k, j + 1) = Coming(circuit, t, k, j + 1)
        BY <1>12, <2>2, <2>3 DEF Alike
      <4> QED BY <4>1, <4>2
    <3>2. Live(circuit, t, k, j) => Live(circuit, s, k, j)
      BY <2>1, <3>1 DEF Live
    <3>3. own2[k] = own[k] /\ fed2[k] = fed[k] /\ val2[k] = val[k]
      BY <1>4, <2>3
    <3> QED BY <2>1, <3>1, <3>2, <3>3 DEF OldName
  <2>4. CASE k = n
    <3> DEFINE l == j + 1
    <3>1. Coming(circuit, s, n, l) = Coming(circuit, t, n, l) + Occurrences(ns, l)
          /\ Coming(circuit, t, n, l) \in Nat /\ Occurrences(ns, l) \in Nat
      BY <1>14, <2>2
    <3>2. Coming(circuit, t, n, l) # 0 => Coming(circuit, s, n, l) # 0
      BY <3>1
    <3>3. Live(circuit, t, k, j) => Live(circuit, s, k, j)
      BY <2>1, <2>4, <3>2 DEF Live
    <3>4. /\ l \in own2[n] => l \in own[n]
          /\ l \in fed2[n] <=> l \in fed[n]
          /\ val2[n][j] = val[n][j]
      BY <1>4, <2>2, <2>4
    <3>5. l \in own2[n] => Coming(circuit, t, n, l) = Coming(circuit, s, n, l)
      <4> SUFFICES ASSUME l \in own2[n] PROVE Coming(circuit, t, n, l) = Coming(circuit, s, n, l)
        OBVIOUS
      <4>1. \A i \in DOMAIN ns : ns[i] # l
        BY <1>4
      <4>2. Occurrences(ns, l) = 0
        <5>1. DOMAIN ns = 1 .. Len(ns) /\ Len(ns) \in Nat
          BY <1>1 DEF ReadOff, Within
        <5> HIDE DEF l
        <5> QED BY <4>1, <5>1, OccursNot
      <4> HIDE DEF l
      <4> QED BY <3>1, <4>2
    <3> HIDE DEF l
    <3>6. /\ l \in own2[k] => l \in own[k] /\ Coming(circuit, t, k, l) = Coming(circuit, s, k, l)
          /\ l \in fed2[k] <=> l \in fed[k]
          /\ l \in fed2[k] => val2[k][j] = val[k][j]
      BY <2>4, <3>4, <3>5
    <3> QED BY <2>1, <3>3, <3>6 DEF OldName, l
  <2> QED BY <2>3, <2>4
<1>16. ASSUME NEW j, IsBound(t, n + 1, j)
       PROVE  NewAlias(circuit, s, t, fed, val, own2, val2, n + 1, j)
  <2> DEFINE l == ns[j]
             i == l - 1
             v == val[n]
  <2>1. j \in 1 .. Len(ns) /\ WireAt(t, n + 1, j) = Args[j]
    <3>1. j \in 1 .. Len(t.frames[n + 1].env)
      BY <1>16 DEF IsBound
    <3>2. t.frames[n + 1].env = Args
      BY <1>1, <1>2
    <3> QED BY <1>5, <3>1, <3>2 DEF WireAt
  <2>2. Args[j] = Real(Top.env, l) /\ OperandGood(ns, v, fed[n], j)
    BY <1>5, <2>1
  <2>3. val2[n + 1][j] = ValIn(v, l)
    <3>1. ValsIn(v, ns)[j] = ValIn(v, l)
      BY <1>5, <2>1 DEF ValsIn
    <3> QED BY <1>4, <3>1
  <2>4. l \in 0 .. m + 1 /\ l \in fed[n] /\ Coming(circuit, s, n, l) # 0
    BY <2>2 DEF OperandGood, m, n, s
  <2> HIDE DEF v
  <2>5. CASE l \in Constants
    <3>1. Real(Top.env, l) = l /\ ValIn(v, l) = (l = TRUE_WIRE)
      BY <2>5 DEF Real, ValIn
    <3>2. WireAt(t, n + 1, j) \in Constants /\ val2[n + 1][j] = (WireAt(t, n + 1, j) = TRUE_WIRE)
      BY <2>1, <2>2, <2>3, <2>5, <3>1
    <3> QED BY <1>4, <3>2 DEF NewAlias
  <2>6. CASE l \notin Constants
    <3>1. i \in 1 .. m /\ i + 1 = l
      <4> HIDE DEF l
      <4> QED BY <1>10, <2>4, <2>6 DEF Constants, FALSE_WIRE, TRUE_WIRE
    <3>2. Real(Top.env, l) = Top.env[i] /\ ValIn(v, l) = v[i]
      <4>1. l - FirstMock + 1 = i
        <5>1. l \in Nat
          BY <1>10, <2>4
        <5> HIDE DEF l
        <5> QED BY <5>1 DEF FirstMock
      <4> HIDE DEF l, i
      <4> QED BY <2>6, <4>1 DEF Real, ValIn
    <3> HIDE DEF i, l
    <3>3. IsBound(s, n, i) /\ WireAt(s, n, i) = Top.env[i]
      BY <1>1, <3>1 DEF IsBound, WireAt, m
    <3>4. Live(circuit, s, n, i)
      BY <2>4, <3>1, <3>3 DEF Live
    <3>5. l \notin own2[n]
      BY <1>4, <1>5, <2>1 DEF l
    <3>6. Alias(circuit, s, t, fed, val, own2, val2, n + 1, j, n, i)
      BY <2>1, <2>2, <2>3, <2>4, <3>1, <3>2, <3>3, <3>4, <3>5 DEF Alias, v
    <3> QED BY <1>4, <3>6 DEF NewAlias
  <2> QED BY <2>5, <2>6
<1>17. Passes(circuit, s, t, own, fed, val, own2, fed2, val2)
  <2> SUFFICES ASSUME NEW k, NEW j, IsBound(t, k, j)
               PROVE  \/ OldName(circuit, s, t, own, fed, val, own2, fed2, val2, k, j)
                      \/ NewAlias(circuit, s, t, fed, val, own2, val2, k, j)
    BY DEF Passes
  <2>1. k = n + 1 \/ k \in 1 .. n
    BY <1>1, <1>11 DEF IsBound
  <2> QED BY <1>15, <1>16, <2>1
<1>18. Good(circuit, t, store', own2, fed2, val2)
  BY <1>8, <1>9, <1>17, GoodPass
<1> QED BY <1>3, <1>6, <1>18 DEF Serves, own2, fed2, val2, t

(* The child's outputs have the values the caller's direct run gets from   *)
(* the call.                                                               *)
LEMMA ReturnedValue ==
  ASSUME NEW crt \in Circuits, NEW fs, fs \in Seq(Frame(crt)), NEW ins, Lined(crt, fs), Handed(crt, fs, ins),
         NEW h \in Nat \ {0}, Len(fs) = h + 1, fs[h + 1].pc > DoneAt(crt, fs[h + 1].comp),
         NEW i \in 1 .. Len(crt[fs[h + 1].comp].outs)
  PROVE  LET d == fs[h + 1].comp
             m == BoundAt(crt, fs[h].comp, fs[h].pc - 1)
         IN  /\ Values(crt, fs, ins)[h][m + i] = ValIn(Values(crt, fs, ins)[h + 1], crt[d].outs[i])
             /\ fs[h + 1].pc = DoneAt(crt, d) + 1
             /\ m \in Nat
             /\ \A l \in Own(crt, fs[h].comp, fs[h].pc) : l \in 2 .. m + 1
<1> DEFINE c == fs[h].comp
           d == fs[h + 1].comp
           p == fs[h].pc - 1
           m == BoundAt(crt, c, p)
           val == Values(crt, fs, ins)
           q == crt[c].body[p]
           z == DoneAt(crt, d)
           in == ins[h + 1]
           a == ins[h]
<1>1. h \in 1 .. Len(fs) /\ h + 1 \in 1 .. Len(fs) /\ h < Len(fs)
  OBVIOUS
<1>2. c \in 1 .. Len(crt) /\ fs[h].pc - 1 + 1 = fs[h].pc
  BY <1>1, LinedIs
<1>3. d \in 1 .. Len(crt) /\ z \in Nat /\ fs[h + 1].pc \in 1 .. z + 1
  BY <1>1, LinedIs
<1>4. fs[h + 1].pc = z + 1 /\ fs[h + 1].pc - 1 = z
  <2> DEFINE x == fs[h + 1].pc
  <2>1. x > z /\ z \in Nat /\ x \in 1 .. z + 1
    BY <1>3
  <2> HIDE DEF x, z
  <2>2. x = z + 1 /\ x - 1 = z
    BY <2>1
  <2> QED BY <2>2 DEF x
<1>5. p \in 1 .. DoneAt(crt, c) /\ q.op = "call" /\ q.comp = d
  BY <1>1 DEF Lined
<1>6. a \in Inputs(crt, c) /\ in \in Inputs(crt, d)
      /\ in = ValsIn(Goes(crt, c, a)[fs[h].pc - 2], q.args)
  BY <1>1 DEF Handed
<1>7. val[h] = Goes(crt, c, a)[p]
  BY <1>1, ValueView
<1>8. val[h + 1] = Goes(crt, d, in)[z]
  <2>1. val[h + 1] = Goes(crt, fs[h + 1].comp, ins[h + 1])[fs[h + 1].pc - 1]
    BY <1>1, ValueView
  <2> HIDE DEF val
  <2> QED BY <1>4, <2>1
<1>9. p \in Nat \ {0} /\ fs[h].pc = p + 1 /\ fs[h].pc - 2 = p - 1
  <2>1. DoneAt(crt, c) \in Nat
    BY <1>1, LinedIs
  <2>2. p \in Nat \ {0}
    <3> HIDE DEF p
    <3> QED BY <1>5, <2>1
  <2>3. fs[h].pc = p + 1
    BY <1>2
  <2>4. fs[h].pc - 2 = p - 1
    <3> HIDE DEF p
    <3> QED BY <2>2, <2>3
  <2> QED BY <2>2, <2>3, <2>4
<1> DEFINE v == Goes(crt, c, a)[p - 1]
           u == Goes(crt, c, a)[p]
<1>10. Executed(crt, Meaning(crt), q, v, m, u)
  <2> HIDE DEF c, a, p
  <2> QED BY <1>2, <1>5, <1>6, RunGoes
<1>11. in = ValsIn(v, q.args)
  <2> HIDE DEF in, p
  <2> QED BY <1>6, <1>9
<1>12. u[m + i] = Meaning(crt)[d][in][i]
  <2>1. \A j \in 1 .. Len(crt[q.comp].outs) : u[m + j] = Meaning(crt)[q.comp][ValsIn(v, q.args)][j]
    BY <1>5, <1>10 DEF Executed
  <2> HIDE DEF u, m, in, v, q, d
  <2>2. i \in 1 .. Len(crt[d].outs)
    BY DEF d
  <2> QED BY <1>5, <1>11, <2>1, <2>2
<1>13. Meaning(crt)[d][in] = ValsIn(Goes(crt, d, in)[z], crt[d].outs)
  <2> HIDE DEF d, in
  <2> QED BY <1>3, <1>6, RunIs
<1>14. ValsIn(Goes(crt, d, in)[z], crt[d].outs)[i] = ValIn(Goes(crt, d, in)[z], crt[d].outs[i])
  <2>1. DOMAIN crt[d].outs = 1 .. Len(crt[d].outs)
    <3> HIDE DEF d
    <3> QED BY <1>3, ComponentIs DEF NameSeq
  <2> QED BY <2>1 DEF ValsIn
<1>15. val[h][m + i] = ValIn(val[h + 1], crt[d].outs[i])
  <2> HIDE DEF val, m, d, in, z
  <2> QED BY <1>7, <1>8, <1>12, <1>13, <1>14
<1>16. p \in 1 .. Len(crt[c].body) + 1 /\ m \in Nat
  <2>1. Len(crt[c].body) \in Nat
    BY <1>2, ComponentIs
  <2>2. p \in 1 .. Len(crt[c].body)
    BY <1>5 DEF DoneAt
  <2> HIDE DEF p, c
  <2>3. p \in 1 .. Len(crt[c].body) + 1
    BY <2>1, <2>2
  <2> QED BY <1>2, <2>3, BoundIs DEF m
<1>17. \A l \in Own(crt, c, p + 1) : l \in 2 .. m + 1
  <2>1. \A l \in Own(crt, c, p + 1) : l \in Own(crt, c, p)
    <3> HIDE DEF c, p
    <3> QED BY <1>2, <1>5, <1>9, OwnGrows DEF q
  <2>2. Own(crt, c, p) \subseteq 2 .. m + 1
    <3> HIDE DEF c, p
    <3> QED BY <1>2, <1>16, NamesBound DEF m
  <2> HIDE DEF m
  <2> QED BY <2>1, <2>2
<1>18. \A l \in Own(crt, c, fs[h].pc) : l \in 2 .. m + 1
  <2> HIDE DEF p, m, c
  <2> QED BY <1>9, <1>17
<1> QED BY <1>4, <1>15, <1>16, <1>18

(* A closure that is about to return to the one under it, frame h.         *)
Returns(crt, fs, ins, h) ==
  /\ fs \in Seq(Frame(crt)) /\ Lined(crt, fs) /\ Handed(crt, fs, ins)
  /\ h \in Nat \ {0} /\ Len(fs) = h + 1 /\ fs[h + 1].pc > DoneAt(crt, fs[h + 1].comp)

(* Its output i, and the names the other has bound at its call.            *)
Answers(crt, fs, ins, h, i) ==
  LET m == BoundAt(crt, fs[h].comp, fs[h].pc - 1)
  IN  /\ Values(crt, fs, ins)[h][m + i]
           = ValIn(Values(crt, fs, ins)[h + 1], crt[fs[h + 1].comp].outs[i])
      /\ m \in Nat
      /\ \A l \in Own(crt, fs[h].comp, fs[h].pc) : l \in 2 .. m + 1

(* The same in these terms.                                                *)
LEMMA AnswerIs ==
  ASSUME NEW crt \in Circuits, NEW fs, NEW ins, NEW h, Returns(crt, fs, ins, h),
         NEW i \in 1 .. Len(crt[fs[h + 1].comp].outs)
  PROVE  Answers(crt, fs, ins, h, i)
<1>1. /\ fs \in Seq(Frame(crt)) /\ Lined(crt, fs) /\ Handed(crt, fs, ins)
      /\ h \in Nat \ {0} /\ Len(fs) = h + 1 /\ fs[h + 1].pc > DoneAt(crt, fs[h + 1].comp)
  BY DEF Returns
<1> QED BY <1>1, ReturnedValue DEF Answers

(* A return leaves the calls under it.                                     *)
LEMMA PopCalled ==
  ASSUME NEW crt, NEW fs, NEW gs, NEW h \in Nat \ {0}, Len(fs) = h + 1, Len(gs) = h,
         \A k \in 1 .. h : gs[k].comp = fs[k].comp /\ gs[k].pc = fs[k].pc,
         Lined(crt, fs), NEW ins, Handed(crt, fs, ins)
  PROVE  Lined(crt, gs) /\ Handed(crt, gs, ins)
<1>1. \A k \in 1 .. h : k \in 1 .. h + 1 /\ k < h + 1 /\ (k < h => k + 1 \in 1 .. h)
  OBVIOUS
<1>2. ASSUME NEW k \in 1 .. h PROVE gs[k].pc \in 1 .. DoneAt(crt, gs[k].comp) + 1
  <2>1. fs[k].pc \in 1 .. DoneAt(crt, fs[k].comp) + 1
    BY <1>1 DEF Lined
  <2> QED BY <2>1
<1>3. ASSUME NEW k \in 1 .. h, k < h
      PROVE  LET e == gs[k].pc - 1
             IN  /\ e \in 1 .. DoneAt(crt, gs[k].comp)
                 /\ crt[gs[k].comp].body[e].op = "call"
                 /\ crt[gs[k].comp].body[e].comp = gs[k + 1].comp
  <2>1. /\ fs[k].pc - 1 \in 1 .. DoneAt(crt, fs[k].comp)
        /\ crt[fs[k].comp].body[fs[k].pc - 1].op = "call"
        /\ crt[fs[k].comp].body[fs[k].pc - 1].comp = fs[k + 1].comp
    BY <1>1 DEF Lined
  <2>2. gs[k + 1].comp = fs[k + 1].comp
    BY <1>1, <1>3
  <2> QED BY <2>1, <2>2
<1>4. ASSUME NEW k \in 1 .. h PROVE ins[k] \in Inputs(crt, gs[k].comp)
  <2>1. ins[k] \in Inputs(crt, fs[k].comp)
    BY <1>1 DEF Handed
  <2> QED BY <2>1
<1>5. ASSUME NEW k \in 1 .. h, k < h
      PROVE  ins[k + 1] = ValsIn(Goes(crt, gs[k].comp, ins[k])[gs[k].pc - 2],
                                 crt[gs[k].comp].body[gs[k].pc - 1].args)
  <2>1. ins[k + 1] = ValsIn(Goes(crt, fs[k].comp, ins[k])[fs[k].pc - 2],
                            crt[fs[k].comp].body[fs[k].pc - 1].args)
    BY <1>1 DEF Handed
  <2> QED BY <2>1
<1> QED BY <1>2, <1>3, <1>4, <1>5 DEF Lined, Handed

(* A return goes through, and the caller knows the outputs by their values.*)
LEMMA ReturnServes ==
  ASSUME Structure, Structure', RunReturn, NEW ins, Called(frames, ins),
         Serves(circuit, Now, store, {}, ins)
  PROVE  /\ ~panicked' /\ Called(frames', ins)
         /\ Serves(circuit, Now', store', {}, ins)
<1> DEFINE n == Len(frames)
           h == n - 1
           u == Beneath
           s == Now
           t == Now'
           own == OwnNames(circuit, frames)
           own2 == OwnNames(circuit, frames')
           fed == FedNames(circuit, frames, {})
           fed2 == FedNames(circuit, frames', {})
           val == Values(circuit, frames, ins)
           val2 == Values(circuit, frames', ins)
           d == Top.comp
           outs == circuit[d].outs
           m == Len(Under.env)
           o == Len(outs)
           z == DoneAt(circuit, d)
<1>1. /\ phase = "run" /\ ~panicked /\ Unallocated = 0 /\ Finished(Top)
      /\ n \in Nat /\ n > 1 /\ o \in Nat /\ Len(Returned) = o /\ Returned \in Seq(Wire)
      /\ Within(outs, o, Len(Top.env))
      /\ Resumed.comp = Under.comp /\ Resumed.pc = Under.pc /\ Resumed.env = Under.env \o Returned
      /\ m \in Nat /\ Len(frames') = h
      /\ frames'[h] = Resumed /\ \A k \in 1 .. n - 2 : frames'[k] = frames[k]
      /\ UNCHANGED <<circuit, input, phase, cursor, store, pool, output, panicked>>
  BY ReturnIs
<1>2. h \in Nat \ {0} /\ n = h + 1 /\ h \in 1 .. h /\ n \in 1 .. n /\ h \in 1 .. n
      /\ \A k \in 1 .. h : k = h \/ k \in 1 .. n - 2
  <2> HIDE DEF n
  <2> QED BY <1>1
<1>3. /\ circuit \in Circuits /\ s \in Config(circuit) /\ t \in Config(circuit) /\ u \in Config(circuit)
      /\ HandsBack(circuit, s, u, t, h, Returned)
  BY ReturnHands
<1>4. s.frames = frames /\ t.frames = frames'
  BY <1>1, NowIs, NextNow
<1>5. /\ Pushed(u, s, h) /\ s.inputs = {} /\ \A k \in 1 .. h : Alike(circuit, u, t, k)
  BY <1>3 DEF HandsBack
<1>6. Under = frames[h] /\ Top = frames[n] /\ Len(frames) = n
  BY DEF Under, Top
<1>7. \A k \in 1 .. h : frames'[k].comp = frames[k].comp /\ frames'[k].pc = frames[k].pc
  BY <1>1, <1>2, <1>6
<1>8. frames \in Seq(Frame(circuit)) /\ Lined(circuit, frames) /\ Handed(circuit, frames, ins)
  BY DEF Structure, Types, Called
<1>9. Called(frames', ins)
  <2>1. Len(frames) = h + 1 /\ Len(frames') = h
    BY <1>1, <1>2, <1>6
  <2> HIDE DEF n, h
  <2>2. Lined(circuit, frames') /\ Handed(circuit, frames', ins)
    BY <1>2, <1>7, <1>8, <2>1, PopCalled
  <2> QED BY <2>2 DEF Called
<1>10. ASSUME NEW k \in 1 .. h
       PROVE  own2[k] = own[k] /\ fed2[k] = fed[k] /\ val2[k] = val[k]
  <2>1. k \in 1 .. Len(frames') /\ k \in 1 .. Len(frames)
    BY <1>1, <1>2, <1>6
  <2>2. own2[k] = own[k]
    BY <1>7, <2>1, OwnView
  <2>3. fed2[k] = fed[k]
    BY <1>7, <2>1, AllFedView
  <2>4. val2[k] = Goes(circuit, frames'[k].comp, ins[k])[frames'[k].pc - 1]
    BY <2>1, ValueView
  <2>5. val[k] = Goes(circuit, frames[k].comp, ins[k])[frames[k].pc - 1]
    BY <2>1, ValueView
  <2>6. frames'[k].comp = frames[k].comp /\ frames'[k].pc = frames[k].pc
    BY <1>7
  <2> HIDE DEF own, own2, fed, fed2, val, val2
  <2> QED BY <2>2, <2>3, <2>4, <2>5, <2>6
<1>11. \A k \in 1 .. h : \A l \in Nat : Coming(circuit, s, k, l) = Coming(circuit, t, k, l)
  <2>1. \A k \in 1 .. h : Alike(circuit, u, s, k)
    BY <1>3, <1>5, FramePushed
  <2> QED BY <1>5, <2>1 DEF Alike
<1>12. t.frames[h].env = Under.env \o Returned /\ Len(t.frames) = h /\ Len(s.frames) = h + 1
       /\ s.frames[h] = Under /\ s.frames[n] = Top
       /\ \A k \in 1 .. h : k # h => t.frames[k] = s.frames[k]
  BY <1>1, <1>2, <1>4, <1>6
<1>13. /\ Len(Under.env \o Returned) = m + o
       /\ \A j \in 1 .. m : (Under.env \o Returned)[j] = Under.env[j]
       /\ \A j \in 1 .. o : (Under.env \o Returned)[m + j] = Returned[j]
  <2>1. Under.env \in Seq(Wire)
    <3>1. Under \in Frame(circuit)
      BY ReturnIs
    <3> QED BY <3>1 DEF Frame
  <2>2. /\ Len(Under.env \o Returned) = Len(Under.env) + Len(Returned)
        /\ \A j \in 1 .. Len(Under.env) : (Under.env \o Returned)[j] = Under.env[j]
        /\ \A j \in 1 .. Len(Returned) : (Under.env \o Returned)[Len(Under.env) + j] = Returned[j]
    <3>1. Returned \in Seq(Wire)
      BY <1>1
    <3> QED BY <2>1, <3>1, JoinIs
  <2> HIDE DEF o
  <2> QED BY <1>1, <2>2
<1>14. d \in 1 .. Len(circuit) /\ Len(Top.env) \in Nat
  BY <1>1, TopIs
<1>15. frames[n].pc > z
  BY <1>1, <1>6 DEF Finished, CompOf, DoneAt
<1>16. ASSUME NEW i \in 1 .. o
       PROVE  /\ val[h][m + i] = ValIn(val[n], outs[i])
              /\ m + i + 1 \notin own2[h]
  <2> DEFINE b == BoundAt(circuit, frames[h].comp, frames[h].pc - 1)
  <2>0. \A x \in Nat \ {0} : x = h => x + 1 = n
    BY <1>2
  <2>1. /\ val[h][b + i] = ValIn(val[h + 1], circuit[frames[h + 1].comp].outs[i])
        /\ b \in Nat
        /\ \A l \in Own(circuit, frames[h].comp, frames[h].pc) : l \in 2 .. b + 1
    <3>1. frames[h + 1] = Top
      <4> HIDE DEF n, h
      <4>1. h + 1 = n
        BY <1>2
      <4> QED BY <1>6, <4>1
    <3>2. Len(frames) = h + 1 /\ h \in Nat \ {0} /\ frames[h + 1].pc > DoneAt(circuit, frames[h + 1].comp)
          /\ i \in 1 .. Len(circuit[frames[h + 1].comp].outs)
      BY <1>2, <1>6, <1>15, <3>1
    <3> HIDE DEF n, h, val
    <3>3. Returns(circuit, frames, ins, h)
      BY <1>3, <1>8, <3>2 DEF Returns
    <3>4. Answers(circuit, frames, ins, h, i)
      BY <1>3, <3>2, <3>3, AnswerIs
    <3> QED BY <3>4 DEF Answers, val
  <2>2. m = b
    <3>1. /\ \A k \in 1 .. Len(frames) : FrameOk(circuit, frames, 0, k)
      BY <1>1 DEF Structure, Shape
    <3>2. h \in 1 .. Len(frames) /\ h < Len(frames)
      <4>1. Len(frames) = h + 1
        BY <1>2
      <4> HIDE DEF h, n
      <4> QED BY <1>2, <4>1
    <3>3. Len(frames[h].env) = b
      <4> HIDE DEF h
      <4> QED BY <1>3, <1>8, <3>1, <3>2, LensAre
    <3> QED BY <1>6, <3>3
  <2>3. own2[h] = Own(circuit, frames[h].comp, frames[h].pc)
    <3>1. own2[h] = own[h]
      BY <1>2, <1>10
    <3>2. own[h] = Own(circuit, frames[h].comp, frames[h].pc)
      BY <1>2, <1>6, OwnView
    <3> QED BY <3>1, <3>2
  <2>4. \A l \in own2[h] : l \in 2 .. m + 1
    BY <2>1, <2>2, <2>3
  <2>5. m + i + 1 \notin 2 .. m + 1
    <3> HIDE DEF m, o
    <3> QED BY <1>1
  <2>6. val[h][m + i] = ValIn(val[n], outs[i])
    <3>1. frames[h + 1] = Top /\ h + 1 = n
      BY <1>2, <1>6
    <3> HIDE DEF val, b, m, h, n
    <3> QED BY <2>1, <2>2, <3>1
  <2> QED BY <2>4, <2>5, <2>6
<1>17. DOMAIN outs = 1 .. o
  BY <1>1 DEF Within
<1>18. \A i \in 1 .. o : Returned[i] = Real(Top.env, outs[i]) /\ outs[i] \in 0 .. Len(Top.env) + 1
  BY <1>1, <1>17 DEF Returned, Reals, Within
<1>19. fed[n] = Written(circuit, d, z + 1)
  <2>1. frames[n].pc = z + 1
    <3>1. frames[n].pc \in 1 .. DoneAt(circuit, frames[n].comp) + 1 /\ DoneAt(circuit, frames[n].comp) \in Nat
      BY <1>2, <1>3, <1>6, <1>8, LinedIs
    <3> DEFINE x == frames[n].pc
    <3>2. x \in 1 .. z + 1 /\ z \in Nat /\ x > z
      BY <1>6, <1>15, <3>1
    <3> HIDE DEF x, z
    <3>3. x = z + 1
      BY <3>2
    <3> QED BY <3>3 DEF x
  <2>2. fed[n] = Written(circuit, frames[n].comp, frames[n].pc)
    BY <1>2, <1>6, AllFedView
  <2> QED BY <1>6, <2>1, <2>2
<1>20. \A i \in 1 .. o : outs[i] \in fed[n]
  <2>1. \A j \in DOMAIN outs : outs[j] \in Written(circuit, d, Len(circuit[d].body) + 1)
    BY <1>3, <1>14, DisciplineIs
  <2> HIDE DEF fed
  <2> QED BY <1>17, <1>19, <2>1 DEF DoneAt
<1> DEFINE e == [j \in Nat |-> Coming(circuit, s, h, m + j + 1)]
<1>21. \A i \in 1 .. o : Coming(circuit, s, h, m + i + 1) # 0 => Coming(circuit, s, n, outs[i]) # 0
  <2> SUFFICES ASSUME NEW i \in 1 .. o, Coming(circuit, s, h, m + i + 1) # 0
               PROVE  Coming(circuit, s, n, outs[i]) # 0
    OBVIOUS
  <2> DEFINE l == outs[i]
             body == circuit[d].body
             pc == Top.pc
  <2>1. l \in Nat
    BY <1>14, <1>18
  <2>2. /\ Coming(circuit, s, n, l) = Reads(body, pc, l) + Weighed(outs, l, e)
        /\ Reads(body, pc, l) \in Nat /\ Weighed(outs, l, e) \in Nat
    <3>1. LET f == s.frames[h + 1]
              c == circuit[f.comp]
              e2 == [j \in Nat |-> Coming(circuit, s, h, Len(s.frames[h].env) + j + 1)]
          IN  \A l2 \in Nat :
                /\ Coming(circuit, s, h + 1, l2) = Reads(c.body, f.pc, l2) + Weighed(c.outs, l2, e2)
                /\ Reads(c.body, f.pc, l2) \in Nat /\ Weighed(c.outs, l2, e2) \in Nat
      <4> HIDE DEF s, h
      <4> QED BY <1>2, <1>3, <1>5, <1>12, HandedBack
    <3>2. s.frames[h + 1] = Top /\ Len(s.frames[h].env) = m /\ h + 1 = n
      BY <1>2, <1>12
    <3> HIDE DEF s, h, n, l
    <3> QED BY <2>1, <3>1, <3>2
  <2>3. Counts(e, o)
    <3>1. \A j \in Nat : Coming(circuit, s, h, m + j + 1) \in Nat
      <4>1. h \in 1 .. Len(s.frames)
        BY <1>2, <1>12
      <4>2. \A l2 \in Nat : Coming(circuit, s, h, l2) \in Nat
        BY <1>3, <4>1, ComingNat
      <4> HIDE DEF m
      <4>3. \A j \in Nat : m + j + 1 \in Nat
        BY <1>1
      <4> QED BY <4>2, <4>3
    <3> HIDE DEF s, h, m
    <3>2. \A j \in 1 .. o : e[j] \in Nat
      <4>1. \A j \in 1 .. o : j \in Nat
        BY <1>1
      <4> QED BY <3>1, <4>1
    <3>3. 1 .. o \subseteq DOMAIN e
      BY <1>1
    <3> QED BY <3>2, <3>3 DEF Counts
  <2>4. e[i] # 0
    <3>1. i \in Nat
      BY <1>1
    <3> QED BY <3>1
  <2> HIDE DEF e
  <2>5. Weighed(outs, outs[i], e) \in Nat /\ e[i] \in Nat /\ e[i] <= Weighed(outs, outs[i], e)
    BY <1>1, <1>17, <2>3, WeighedHas
  <2> DEFINE x == Weighed(outs, l, e)
             y == Reads(body, pc, l)
             r == Coming(circuit, s, n, l)
  <2>6. r = y + x /\ y \in Nat /\ x \in Nat /\ e[i] \in Nat /\ e[i] <= x
    BY <2>2, <2>5
  <2> HIDE DEF x, y, r
  <2>7. r # 0
    BY <2>4, <2>6
  <2> QED BY <2>7 DEF r
<1> HIDE DEF n, h, u, s, t, own, own2, fed, fed2, val, val2, d, outs, m, o, z, e
<1>22. ASSUME NEW k \in 1 .. h, NEW j, IsBound(s, k, j), IsBound(t, k, j), WireAt(t, k, j) = WireAt(s, k, j)
       PROVE  OldName(circuit, s, t, own, fed, val, own2, fed2, val2, k, j)
  <2>1. j + 1 \in Nat
    <3>1. j \in 1 .. Len(s.frames[k].env) /\ k \in 1 .. Len(s.frames)
      BY <1>22 DEF IsBound
    <3>2. Len(s.frames[k].env) \in Nat
      BY <1>3, <3>1, ConfigIs
    <3> QED BY <3>1, <3>2
  <2>2. Coming(circuit, s, k, j + 1) = Coming(circuit, t, k, j + 1)
    BY <1>11, <2>1
  <2>3. Live(circuit, t, k, j) => Live(circuit, s, k, j)
    BY <1>22, <2>2 DEF Live
  <2>4. own2[k] = own[k] /\ fed2[k] = fed[k] /\ val2[k] = val[k]
    BY <1>10
  <2> QED BY <1>22, <2>2, <2>3, <2>4 DEF OldName
<1>23. ASSUME NEW i \in 1 .. o, IsBound(t, h, m + i), WireAt(t, h, m + i) = Returned[i]
       PROVE  NewAlias(circuit, s, t, fed, val, own2, val2, h, m + i)
  <2> DEFINE j == m + i
             l == outs[i]
             v == val[n]
             w == Returned[i]
  <2>1. j + 1 \notin own2[h] /\ val2[h][j] = ValIn(v, l)
    BY <1>2, <1>10, <1>16
  <2>2. w = Real(Top.env, l) /\ l \in 0 .. Len(Top.env) + 1 /\ l \in fed[n]
    BY <1>18, <1>20
  <2>3. Live(circuit, t, h, j) => Coming(circuit, s, n, l) # 0
    <3> SUFFICES ASSUME Live(circuit, t, h, j) PROVE Coming(circuit, s, n, l) # 0
      OBVIOUS
    <3>1. Coming(circuit, t, h, j + 1) # 0
      BY DEF Live
    <3>2. j + 1 \in Nat
      BY <1>1
    <3>3. Coming(circuit, s, h, m + i + 1) # 0
      BY <1>2, <1>11, <3>1, <3>2
    <3> QED BY <1>21, <3>3
  <2> HIDE DEF v, j
  <2>4. CASE l \in Constants
    <3>1. Real(Top.env, l) = l /\ ValIn(v, l) = (l = TRUE_WIRE)
      BY <2>4 DEF Real, ValIn
    <3>2. WireAt(t, h, j) \in Constants /\ val2[h][j] = (WireAt(t, h, j) = TRUE_WIRE)
      BY <1>23, <2>1, <2>2, <2>4, <3>1 DEF j
    <3>3. NewAlias(circuit, s, t, fed, val, own2, val2, h, j)
      BY <2>1, <3>2 DEF NewAlias
    <3> QED BY <3>3 DEF j
  <2>5. CASE l \notin Constants
    <3> DEFINE g == l - 1
    <3>1. g \in 1 .. Len(Top.env) /\ g + 1 = l /\ l - FirstMock + 1 = g
      <4> HIDE DEF l
      <4> QED BY <1>14, <2>2, <2>5 DEF Constants, FALSE_WIRE, TRUE_WIRE, FirstMock
    <3> HIDE DEF g, l
    <3>2. Real(Top.env, l) = Top.env[g] /\ ValIn(v, l) = v[g]
      BY <2>5, <3>1 DEF Real, ValIn
    <3>3. IsBound(s, n, g) /\ WireAt(s, n, g) = Top.env[g]
      BY <1>2, <1>12, <3>1 DEF IsBound, WireAt
    <3>4. ~IsBound(t, n, g)
      BY <1>2, <1>12 DEF IsBound
    <3>5. Live(circuit, t, h, j) => Live(circuit, s, n, g)
      BY <2>3, <3>1, <3>3 DEF Live
    <3>6. Live(circuit, t, h, j) => Alias(circuit, s, t, fed, val, own2, val2, h, j, n, g)
      BY <1>23, <2>1, <2>2, <3>1, <3>2, <3>3, <3>4, <3>5 DEF Alias, v, j
    <3>7. NewAlias(circuit, s, t, fed, val, own2, val2, h, j)
      BY <2>1, <3>6 DEF NewAlias
    <3> QED BY <3>7 DEF j
  <2> QED BY <2>4, <2>5
<1>24. Passes(circuit, s, t, own, fed, val, own2, fed2, val2)
  <2> SUFFICES ASSUME NEW k, NEW j, IsBound(t, k, j)
               PROVE  \/ OldName(circuit, s, t, own, fed, val, own2, fed2, val2, k, j)
                      \/ NewAlias(circuit, s, t, fed, val, own2, val2, k, j)
    BY DEF Passes
  <2>1. k \in 1 .. h /\ j \in 1 .. Len(t.frames[k].env)
    BY <1>12 DEF IsBound
  <2>2. CASE k # h
    <3>0. t.frames[k] = s.frames[k] /\ k \in 1 .. Len(s.frames)
      BY <1>2, <1>12, <2>1, <2>2
    <3>1. IsBound(s, k, j) /\ WireAt(t, k, j) = WireAt(s, k, j)
      <4>1. j \in 1 .. Len(s.frames[k].env)
        BY <2>1, <3>0
      <4> QED BY <3>0, <4>1 DEF IsBound, WireAt
    <3> QED BY <1>22, <2>1, <3>1
  <2>3. CASE k = h
    <3>1. j \in 1 .. m + o
      BY <1>12, <1>13, <2>1, <2>3
    <3>2. CASE j \in 1 .. m
      <4>1. IsBound(s, k, j) /\ WireAt(t, k, j) = WireAt(s, k, j)
        BY <1>2, <1>12, <1>13, <2>3, <3>2 DEF IsBound, WireAt, m
      <4> QED BY <1>22, <2>1, <4>1
    <3>3. CASE j \notin 1 .. m
      <4> DEFINE i == j - m
      <4>1. i \in 1 .. o /\ m + i = j
        BY <1>1, <3>1, <3>3
      <4> HIDE DEF i
      <4>2. WireAt(t, h, m + i) = Returned[i]
        BY <1>12, <1>13, <4>1 DEF WireAt
      <4>3. IsBound(t, h, m + i)
        BY <2>3, <4>1
      <4>4. NewAlias(circuit, s, t, fed, val, own2, val2, h, m + i)
        BY <1>23, <4>1, <4>2, <4>3
      <4> QED BY <2>3, <4>1, <4>4
    <3> QED BY <3>2, <3>3
  <2> QED BY <2>2, <2>3
<1>25. KeepsLive(circuit, t, store, store)
  BY DEF KeepsLive
<1>26. Good(circuit, s, store, own, fed, val)
  BY <1>4 DEF Serves, own, fed, val, s
<1>27. Good(circuit, t, store, own2, fed2, val2)
  BY <1>24, <1>25, <1>26, GoodPass
<1>28. Serves(circuit, t, store', {}, ins)
  <2>1. store' = store
    BY <1>1
  <2> QED BY <1>4, <1>27, <2>1 DEF Serves, own2, fed2, val2
<1> QED BY <1>1, <1>9, <1>28 DEF t

(* The top frame gets a wire for its next name.                            *)
Issues(pc) ==
  /\ ~panicked /\ circuit' = circuit /\ phase # "metadata"
  /\ Len(Top.credits) > 0 /\ pc \in Nat \ {0} /\ IssueWire(Top, pc)
  /\ \A w \in Wire : frames' = WithTop(Issued(Top, pc, w)) =>
       IssuedTo(circuit, Now, Now', Len(frames), Top, pc, w)

(* A wire that is issued is one no live name has, and it has no value yet. *)
LEMMA IssueServes ==
  ASSUME Structure, Structure', Exact, NEW pc, Issues(pc),
         NEW own, NEW fed, NEW val, Good(circuit, Now, store, own, fed, val),
         NEW own2, NEW fed2, NEW val2, Agree(Now, own, fed, val, own2, fed2, val2),
         Len(Top.env) + 2 \notin fed2[Len(frames)]
  PROVE  Good(circuit, Now', store', own2, fed2, val2)
<1> DEFINE c == Last(Top.credits)
           s == Now
           t == Now'
           n == Len(frames)
           m == Len(Top.env)
<1>0. PICK w \in Wire : WireIssued(pc, w)
  BY IssueIs DEF Issues
<1>1. /\ frames' = WithTop(Issued(Top, pc, w))
      /\ c \in 0 .. MaxCredits
      /\ \/ c = 0 /\ w = UNREACHABLE /\ store' = store
         \/ /\ c > 0 /\ w \in Keys /\ Credit(store, w) = 0
            /\ \A k \in Keys : k # w => Value(store', k) = Value(store, k)
  BY <1>0 DEF WireIssued, Value
<1>2. /\ circuit \in Circuits /\ s \in Config(circuit) /\ t \in Config(circuit)
      /\ AllStacked(circuit, s) /\ AllPaid(circuit, s, store)
      /\ IssuedTo(circuit, s, t, n, Top, pc, w)
  BY <1>1, NowIs, NextNow DEF Exact, Structure, Types, Issues
<1> HIDE DEF s, t, n
<1>3. /\ n \in Nat \ {0} /\ n \in 1 .. n /\ Len(s.frames) = n /\ Len(t.frames) = n
      /\ \A k \in 1 .. n : Alike(circuit, s, t, k)
      /\ \A k \in 1 .. n : k # n => t.frames[k] = s.frames[k]
      /\ s.frames[n] = Top /\ m \in Nat
      /\ Len(t.frames[n].env) = m + 1 /\ t.frames[n].env[m + 1] = w
      /\ \A j \in 1 .. m : t.frames[n].env[j] = Top.env[j]
  BY <1>2, IssuedParts
<1>4. c = Coming(circuit, s, n, m + 2)
  BY <1>2, IssuedStacked
<1> HIDE DEF c, m
<1>5. UNREACHABLE \notin Keys /\ UNREACHABLE \notin Constants /\ \A k \in Keys : k \notin Constants
  <2>1. UNREACHABLE \notin Constants
    BY StorageAssumption DEF Constants, FALSE_WIRE, TRUE_WIRE
  <2> QED BY <2>1, KeysAre
<1>6. \A k, j : IsBound(s, k, j) => j + 1 \in Nat
  <2> SUFFICES ASSUME NEW k, NEW j, IsBound(s, k, j) PROVE j + 1 \in Nat
    OBVIOUS
  <2>1. k \in 1 .. Len(s.frames) /\ j \in 1 .. Len(s.frames[k].env)
    BY DEF IsBound
  <2>2. Len(s.frames[k].env) \in Nat
    BY <1>2, <2>1, ConfigIs
  <2> QED BY <2>1, <2>2
<1>7. \A k, j : IsBound(t, k, j) <=> IsBound(s, k, j) \/ (k = n /\ j = m + 1)
  <2> SUFFICES ASSUME NEW k, NEW j
               PROVE  IsBound(t, k, j) <=> IsBound(s, k, j) \/ (k = n /\ j = m + 1)
    OBVIOUS
  <2>1. CASE k = n
    <3>1. j \in 1 .. m + 1 <=> j \in 1 .. m \/ j = m + 1
      BY <1>3
    <3>2. IsBound(t, k, j) <=> j \in 1 .. m + 1
      BY <1>3, <2>1 DEF IsBound
    <3>3. IsBound(s, k, j) <=> j \in 1 .. m
      BY <1>3, <2>1 DEF IsBound, m
    <3> QED BY <2>1, <3>1, <3>2, <3>3
  <2>2. CASE k # n
    BY <1>3, <2>2 DEF IsBound
  <2> QED BY <2>1, <2>2
<1>8. ~IsBound(s, n, m + 1)
  <2>1. m + 1 \notin 1 .. m
    BY <1>3
  <2> QED BY <1>3, <2>1 DEF IsBound, m
<1>9. \A k, j : IsBound(s, k, j) => WireAt(t, k, j) = WireAt(s, k, j)
  <2> SUFFICES ASSUME NEW k, NEW j, IsBound(s, k, j) PROVE WireAt(t, k, j) = WireAt(s, k, j)
    OBVIOUS
  <2>1. CASE k = n
    <3>1. j \in 1 .. m
      BY <1>3, <2>1 DEF IsBound, m
    <3> QED BY <1>3, <2>1, <3>1 DEF WireAt
  <2>2. CASE k # n
    BY <1>3, <2>2 DEF IsBound, WireAt
  <2> QED BY <2>1, <2>2
<1>10. \A k \in 1 .. n : \A l \in Nat : Coming(circuit, t, k, l) = Coming(circuit, s, k, l)
  BY <1>3 DEF Alike
<1>11. \A k, j : IsBound(t, k, j) => Coming(circuit, t, k, j + 1) = Coming(circuit, s, k, j + 1)
  <2> SUFFICES ASSUME NEW k, NEW j, IsBound(t, k, j)
               PROVE  Coming(circuit, t, k, j + 1) = Coming(circuit, s, k, j + 1)
    OBVIOUS
  <2>1. k \in 1 .. n
    BY <1>3 DEF IsBound
  <2>2. j + 1 \in Nat
    <3>1. m + 1 + 1 \in Nat
      BY <1>3
    <3> QED BY <1>6, <1>7, <3>1
  <2> QED BY <1>10, <2>1, <2>2
<1>12. Coming(circuit, t, n, m + 1 + 1) = c
  <2>1. m + 1 + 1 = m + 2 /\ m + 2 \in Nat
    BY <1>3
  <2> QED BY <1>3, <1>4, <1>10, <2>1
<1>13. Coming(circuit, t, n, m + 1 + 1) # 0 <=> w # UNREACHABLE
  BY <1>1, <1>5, <1>12
<1>14. \A k, j : Live(circuit, s, k, j) => WireAt(s, k, j) # w \/ w = UNREACHABLE
  <2> SUFFICES ASSUME NEW k, NEW j, Live(circuit, s, k, j), WireAt(s, k, j) = w, w # UNREACHABLE
               PROVE  FALSE
    OBVIOUS
  <2>1. w \in Keys /\ Credit(store, w) = 0
    BY <1>1
  <2>2. Credit(store, w) > 0
    BY <1>2, <2>1, LivePaid
  <2> QED BY <2>1, <2>2
<1>15. WireAt(t, n, m + 1) = w /\ w \notin Constants
  BY <1>1, <1>3, <1>5 DEF WireAt
<1>16. IssuesName(circuit, s, t, n, m + 1, w)
  BY <1>7, <1>8, <1>9, <1>11, <1>13, <1>14, <1>15 DEF IssuesName
<1>17. \A h \in Keys : h # w => Value(store', h) = Value(store, h)
  BY <1>1
<1>18. m + 1 + 1 \notin fed2[n]
  <2>1. m + 1 + 1 = m + 2
    BY <1>3
  <2> QED BY <2>1 DEF m, n
<1>19. Good(circuit, s, store, own, fed, val) /\ Agree(s, own, fed, val, own2, fed2, val2)
  BY DEF s
<1>20. Good(circuit, t, store', own2, fed2, val2)
  BY <1>16, <1>17, <1>18, <1>19, GoodIssue
<1> QED BY <1>20 DEF t

(* The views of frames with the same components and positions.             *)
SamePlaces(fs, gs) ==
  /\ Len(gs) = Len(fs)
  /\ \A k \in 1 .. Len(fs) : gs[k].comp = fs[k].comp /\ gs[k].pc = fs[k].pc

(* They are the same.                                                      *)
LEMMA SameViews ==
  ASSUME NEW crt, NEW fs, NEW gs, SamePlaces(fs, gs), NEW un, NEW ins
  PROVE  /\ OwnNames(crt, gs) = OwnNames(crt, fs)
         /\ FedNames(crt, gs, un) = FedNames(crt, fs, un)
         /\ Values(crt, gs, ins) = Values(crt, fs, ins)
<1>1. OwnNames(crt, gs) = OwnNames(crt, fs)
  BY DEF SamePlaces, OwnNames
<1>2. FedNames(crt, gs, un) = FedNames(crt, fs, un)
  BY DEF SamePlaces, FedNames
<1>3. Values(crt, gs, ins) = Values(crt, fs, ins)
  <2>1. \A k \in 1 .. Len(fs) : ValuesIn(crt, gs, ins, k) = ValuesIn(crt, fs, ins, k)
    BY DEF SamePlaces, ValuesIn
  <2> QED BY <2>1 DEF SamePlaces, Values
<1> QED BY <1>1, <1>2, <1>3

(* A view agrees with itself.                                              *)
LEMMA AgreeSame ==
  ASSUME NEW s, NEW own, NEW fed, NEW val
  PROVE  Agree(s, own, fed, val, own, fed, val)
BY DEF Agree

(* The encoding phases: the inputs of the root that have no value yet.     *)
Unencoded ==
  CASE phase \in {"metadata", "allocate"} -> 1 .. NInputs
    [] phase = "encode" -> cursor .. NInputs
    [] OTHER -> {}

(* The wire allocated for an input has no value yet.                       *)
LEMMA AllocateServes ==
  ASSUME Structure, Structure', Exact, AllocateInput, NEW ins, Called(frames, ins),
         Serves(circuit, Now, store, Unencoded, ins)
  PROVE  ~panicked' /\ Called(frames', ins) /\ Serves(circuit, Now', store', Unencoded', ins)
<1> DEFINE N == NInputs
           m == Len(Top.env)
           un == Unencoded
<1>1. Issues(1)
  <2>1. 1 \in Nat \ {0}
    OBVIOUS
  <2> QED BY <2>1, AllocateIssues DEF Issues
<1>2. /\ Turn("allocate", "encode", NInputs) /\ UNCHANGED <<circuit, input, pool, output, panicked>>
  BY DEF AllocateInput
<1>3. N \in Nat
  BY RootIs DEF Structure
<1>4. /\ cursor \in 1 .. N /\ phase = "allocate" /\ ~panicked
      /\ \/ cursor' = 1 /\ phase' = "encode"
         \/ phase' = "allocate"
  BY <1>2, <1>3, TurnIs DEF Turn
<1>5. N' = N
  BY <1>2 DEF NInputs, Root
<1>6. un = 1 .. N /\ Unencoded' = un
  BY <1>4, <1>5 DEF Unencoded
<1>7. /\ Len(frames) = 1 /\ Top = frames[1] /\ Top \in Frame(circuit) /\ Now.frames = frames /\ Top.pc = 1
      /\ Top.comp = Root
  BY <1>4, RootAlone DEF Structure, Control
<1>8. PICK w \in Wire : frames' = WithTop(Issued(Top, 1, w))
  BY <1>1, IssueIs DEF Issues, WireIssued
<1>9. IssuedTo(circuit, Now, Now', 1, Top, 1, w)
  BY <1>1, <1>7, <1>8 DEF Issues
<1>10. SamePlaces(frames, frames') /\ Now'.frames = frames' /\ circuit \in Circuits
  <2>1. Issued(Top, 1, w).comp = Top.comp /\ Issued(Top, 1, w).pc = 1 /\ Issued(Top, 1, w) \in Frame(circuit)
    <3>1. 1 \in Nat \ {0} /\ Len(Top.credits) > 0
      BY <1>1 DEF Issues
    <3>2. Top \in Frame(circuit) /\ w \in Wire
      BY <1>7, <1>8
    <3>3. \A f \in Frame(circuit), p \in Nat \ {0}, x \in Wire : Len(f.credits) > 0 =>
            Issued(f, p, x) \in Frame(circuit) /\ Issued(f, p, x).comp = f.comp /\ Issued(f, p, x).pc = p
      BY ONLY IssuedIs
    <3>4. Issued(Top, 1, w) \in Frame(circuit)
      BY <3>1, <3>2, <3>3
    <3>5. Issued(Top, 1, w).comp = Top.comp /\ Issued(Top, 1, w).pc = 1
      BY <3>1, <3>2, <3>3
    <3> QED BY <3>4, <3>5
  <2>2. Len(WithTop(Issued(Top, 1, w))) = 1 /\ WithTop(Issued(Top, 1, w))[1] = Issued(Top, 1, w)
    BY <1>4, <1>7, <2>1, WithTopIs
  <2>3. \A k \in 1 .. 1 : k = 1
    OBVIOUS
  <2>4. SamePlaces(frames, frames')
    BY <1>7, <1>8, <2>1, <2>2, <2>3 DEF SamePlaces
  <2> QED BY <1>2, <2>4, NextNow DEF Structure, Types
<1>11. Called(frames', ins)
  <2>1. Lined(circuit, frames') /\ Handed(circuit, frames', ins)
    <3>1. Len(frames) = 1 /\ Len(frames') = 1 /\ 1 \in Nat
          /\ \A k \in 1 .. 1 : k # 1 => frames'[k] = frames[k]
      BY <1>7, <1>10 DEF SamePlaces
    <3>2. \A k \in 1 .. 1 : frames'[k].comp = frames[k].comp /\ frames'[k].pc = frames[k].pc
      BY <1>7, <1>10 DEF SamePlaces
    <3>3. frames'[1].pc \in 1 .. DoneAt(circuit, frames'[1].comp) + 1
      <4>1. frames[1].pc \in 1 .. DoneAt(circuit, frames[1].comp) + 1
        BY <1>7 DEF Called, Lined
      <4> QED BY <3>2, <4>1
    <3>4. Lined(circuit, frames) /\ Handed(circuit, frames, ins)
      BY DEF Called
    <3> QED BY <3>1, <3>2, <3>3, <3>4, LinedMoves
  <2> QED BY <1>2, <2>1 DEF Called
<1> DEFINE own == OwnNames(circuit, frames)
           fed == FedNames(circuit, frames, un)
           val == Values(circuit, frames, ins)
<1>12. m + 2 \notin fed[1]
  <2>1. fed[1] = {l \in Written(circuit, Root, 1) : ~(1 = 1 /\ l - 1 \in un)}
    BY <1>7 DEF FedNames
  <2>2. Written(circuit, Root, 1) = 0 .. N + 1
    BY <1>10, RootIs, NamesStart DEF Structure, NInputs
  <2>3. m \in Nat
    BY <1>4, TopIs
  <2> HIDE DEF fed, m, un, N
  <2>4. \A l \in Nat : l \in fed[1] => l \in 0 .. N + 1 /\ l - 1 \notin un
    BY <2>1, <2>2
  <2>5. un = 1 .. N
    BY <1>6
  <2>6. \A l \in Nat : l \in 0 .. N + 1 /\ l - 1 \notin 1 .. N => l < 2
    BY <1>3
  <2>7. \A l \in Nat : l \in fed[1] => l < 2
    BY <2>4, <2>5, <2>6
  <2>8. m + 2 \in Nat /\ ~(m + 2 < 2)
    BY <2>3
  <2> QED BY <2>7, <2>8
<1>13. Good(circuit, Now, store, own, fed, val)
  BY <1>7 DEF Serves
<1>14. Good(circuit, Now', store', own, fed, val)
  <2>1. Agree(Now, own, fed, val, own, fed, val)
    BY AgreeSame
  <2>2. m + 2 \notin fed[Len(frames)]
    BY <1>7, <1>12
  <2> HIDE DEF own, fed, val
  <2> QED BY <1>1, <1>13, <2>1, <2>2, IssueServes DEF m
<1>15. /\ OwnNames(circuit, frames') = own /\ FedNames(circuit, frames', un) = fed
       /\ Values(circuit, frames', ins) = val
  BY <1>10, SameViews
<1>16. Serves(circuit, Now', store', un, ins)
  <2> HIDE DEF un, own, fed, val
  <2> QED BY <1>10, <1>14, <1>15 DEF Serves
<1>17. Serves(circuit', Now', store', Unencoded', ins)
  <2>1. circuit' = circuit
    BY <1>2
  <2> HIDE DEF un
  <2> QED BY <1>6, <1>16, <2>1
<1> QED BY <1>2, <1>4, <1>11, <1>16, <1>6

(* So is a wire the top closure issues.                                    *)
LEMMA RunIssueServes ==
  ASSUME Structure, Structure', Exact, RunIssue, NEW ins, Called(frames, ins),
         Serves(circuit, Now, store, {}, ins)
  PROVE  ~panicked' /\ Called(frames', ins) /\ Serves(circuit, Now', store', {}, ins)
<1> DEFINE n == Len(frames)
           m == Len(Top.env)
           c == Top.comp
           pc == Top.pc
           q == circuit[c].body[pc]
           own == OwnNames(circuit, frames)
           fed == FedNames(circuit, frames, {})
           val == Values(circuit, frames, ins)
           own2 == OwnNames(circuit, frames')
           fed2 == FedNames(circuit, frames', {})
           val2 == Values(circuit, frames', ins)
<1>1. Issues(pc + 1) /\ ~panicked'
  BY RunIssues DEF Issues
<1>2. /\ phase = "run" /\ Unallocated = 0 /\ pc \in 1 .. Len(circuit[c].body)
      /\ q.op = "issue" /\ pc + 1 \in Nat \ {0} /\ phase # "metadata" /\ pc \in Nat
  <2>1. Running("issue")
    BY DEF RunIssue
  <2>2. /\ phase = "run" /\ Unallocated = 0 /\ pc \in 1 .. Len(circuit[c].body)
        /\ q.op = "issue" /\ pc + 1 \in Nat \ {0}
    BY <2>1, PendingIs
  <2>3. pc \in Nat
    BY <2>2, TopIs
  <2> QED BY <2>2, <2>3
<1>3. /\ n \in Nat \ {0} /\ n \in 1 .. n /\ Top = frames[n] /\ Top \in Frame(circuit) /\ c \in 1 .. Len(circuit)
      /\ m \in Nat /\ Len(frames) = n
  BY <1>2, TopIs
<1>4. PICK w \in Wire : frames' = WithTop(Issued(Top, pc + 1, w))
  <2>1. Len(Top.credits) > 0 /\ IssueWire(Top, pc + 1)
    BY <1>1 DEF Issues
  <2>2. \E w \in Wire : WireIssued(pc + 1, w)
    BY <1>2, <2>1, IssueIs
  <2> QED BY <2>2 DEF WireIssued
<1> DEFINE f == Issued(Top, pc + 1, w)
<1>5. f \in Frame(circuit) /\ f.comp = c /\ f.pc = pc + 1
  <2>1. Len(Top.credits) > 0
    BY <1>1 DEF Issues
  <2>2. pc + 1 \in Nat \ {0} /\ w \in Wire /\ Top \in Frame(circuit)
    BY <1>2, <1>3, <1>4
  <2> QED BY <2>1, <2>2, IssuedIs
<1>6. /\ Len(frames') = n /\ frames'[n] = f
      /\ \A k \in 1 .. n : k # n => frames'[k] = frames[k]
  <2> HIDE DEF f
  <2>1. Len(frames) = n
    BY <1>3
  <2>2. frames' = WithTop(f)
    BY <1>4 DEF f
  <2> HIDE DEF n
  <2> QED BY <1>2, <1>5, <2>1, <2>2, WithTopIs
<1>7. circuit \in Circuits /\ Now \in Config(circuit) /\ Now.frames = frames /\ Now'.frames = frames'
      /\ Lined(circuit, frames) /\ Handed(circuit, frames, ins)
      /\ frames \in Seq(Frame(circuit)) /\ frames' \in Seq(Frame(circuit))
  <2>1. circuit' = circuit
    BY <1>1 DEF Issues
  <2>2. frames' \in Seq(Frame(circuit))
    BY <2>1 DEF Structure, Types
  <2> QED BY <2>1, <2>2, NowIs, NextNow DEF Called, Structure, Types
<1> HIDE DEF f, n, m
<1>8. \A k \in 1 .. n : frames'[k].comp = frames[k].comp
  BY <1>3, <1>5, <1>6
<1>9. Called(frames', ins)
  <2>1. frames'[n].pc \in 1 .. DoneAt(circuit, frames'[n].comp) + 1
    <3>1. DoneAt(circuit, c) \in Nat
      BY <1>3, <1>7, ComponentIs DEF DoneAt
    <3>2. pc \in 1 .. DoneAt(circuit, c)
      BY <1>2 DEF DoneAt
    <3> HIDE DEF pc, c
    <3>3. pc + 1 \in 1 .. DoneAt(circuit, c) + 1
      BY <3>1, <3>2
    <3> QED BY <1>5, <1>6, <3>3
  <2>2. Lined(circuit, frames') /\ Handed(circuit, frames', ins)
    <3>1. n \in Nat /\ Len(frames) = n /\ Len(frames') = n
      BY <1>3, <1>6
    <3>2. \A k \in 1 .. n : k # n => frames'[k] = frames[k]
      BY <1>6
    <3>3. Lined(circuit, frames) /\ Handed(circuit, frames, ins)
      BY <1>7
    <3> QED BY <1>8, <2>1, <3>1, <3>2, <3>3, LinedMoves
  <2> QED BY <2>2 DEF Called
<1>10. \A k \in 1 .. n : k # n => own2[k] = own[k] /\ fed2[k] = fed[k] /\ val2[k] = val[k]
  <2> SUFFICES ASSUME NEW k \in 1 .. n, k # n
               PROVE  own2[k] = own[k] /\ fed2[k] = fed[k] /\ val2[k] = val[k]
    OBVIOUS
  <2>1. k \in 1 .. Len(frames) /\ k \in 1 .. Len(frames') /\ frames'[k] = frames[k]
    BY <1>3, <1>6
  <2>2. own2[k] = own[k]
    BY <2>1, OwnView
  <2>3. fed2[k] = fed[k]
    BY <2>1, AllFedView
  <2>4. val2[k] = val[k]
    BY <2>1, ValueView
  <2> QED BY <2>2, <2>3, <2>4
<1> DEFINE in == ins[n]
           v == Goes(circuit, c, in)[pc - 1]
           u == Goes(circuit, c, in)[pc]
<1>11. in \in Inputs(circuit, c)
  <2>1. ins[n] \in Inputs(circuit, frames[n].comp)
    BY <1>3, <1>7 DEF Handed
  <2> QED BY <1>3, <2>1
<1>12. /\ own[n] = Own(circuit, c, pc) /\ own2[n] = Own(circuit, c, pc + 1)
       /\ fed[n] = Written(circuit, c, pc) /\ fed2[n] = Written(circuit, c, pc + 1)
       /\ val[n] = v
  <2>1. n \in 1 .. Len(frames) /\ n \in 1 .. Len(frames') /\ frames'[n].comp = c /\ frames'[n].pc = pc + 1
        /\ frames[n].comp = c /\ frames[n].pc = pc
    BY <1>3, <1>5, <1>6
  <2> HIDE DEF c, pc
  <2>2. own[n] = Own(circuit, c, pc) /\ own2[n] = Own(circuit, c, pc + 1)
    BY <2>1, OwnView
  <2>3. fed[n] = Written(circuit, c, pc) /\ fed2[n] = Written(circuit, c, pc + 1)
    BY <2>1, AllFedView
  <2>4. val[n] = v
    BY <2>1, ValueView
  <2> QED BY <2>2, <2>3, <2>4
<1>13. val2[n] = u
  <2>1. n \in 1 .. Len(frames') /\ frames'[n].comp = c /\ frames'[n].pc = pc + 1
    BY <1>3, <1>5, <1>6
  <2> DEFINE p == frames'[n].pc - 1
  <2>2. val2[n] = Goes(circuit, frames'[n].comp, in)[p]
    BY <2>1, ValueView
  <2>3. p = pc
    <3>1. pc \in Nat /\ frames'[n].pc = pc + 1
      BY <1>2, <2>1
    <3> HIDE DEF pc
    <3> QED BY <3>1
  <2> HIDE DEF p, pc, c, val2
  <2> QED BY <2>1, <2>2, <2>3
<1>14. m = BoundAt(circuit, c, pc)
  BY <1>2, TopLen DEF m
<1> HIDE DEF own, fed, val, own2, fed2, val2, v, u, in, q
<1>15. ASSUME NEW j \in 1 .. m
       PROVE  /\ j + 1 \in own2[n] => j + 1 \in own[n]
              /\ j + 1 \in fed2[n] <=> j + 1 \in fed[n]
              /\ val2[n][j] = val[n][j]
  <2>1. Seen(circuit, c, pc, circuit[c].body[pc], Goes(circuit, c, in)[pc - 1], Goes(circuit, c, in)[pc], j)
    BY SMTT(30), <1>2, <1>3, <1>7, <1>11, <1>14, TopViews
  <2>2. Seen(circuit, c, pc, q, v, u, j)
    BY <2>1 DEF q, v, u
  <2>3. q.op # "gate"
    BY <1>2
  <2> HIDE DEF c, pc
  <2> QED BY <1>12, <1>13, <2>2, <2>3 DEF Seen
<1>16. Agree(Now, own, fed, val, own2, fed2, val2)
  <2> SUFFICES ASSUME NEW k, NEW j, IsBound(Now, k, j)
               PROVE  /\ j + 1 \in own2[k] => j + 1 \in own[k]
                      /\ j + 1 \in fed2[k] <=> j + 1 \in fed[k]
                      /\ j + 1 \in fed2[k] => val2[k][j] = val[k][j]
    BY DEF Agree
  <2>1. k \in 1 .. n
    BY <1>3, <1>7 DEF IsBound
  <2>2. CASE k = n
    <3>1. j \in 1 .. m
      BY <1>3, <1>7, <2>2 DEF IsBound, m
    <3> QED BY <1>15, <2>2, <3>1
  <2>3. CASE k # n
    BY <1>10, <2>1, <2>3
  <2> QED BY <2>2, <2>3
<1>17. m + 2 \notin fed2[n]
  <2>1. Written(circuit, c, pc + 1) = Written(circuit, c, pc)
    <3>1. pc \in Nat \ {0}
      BY <1>2, TopIs
    <3>2. q.op = "issue"
      BY <1>2
    <3> HIDE DEF c, pc
    <3> QED BY <1>3, <1>7, <3>1, <3>2, WrittenGrows DEF q
  <2>2. pc \in 1 .. Len(circuit[c].body) + 1
    <3>1. Len(circuit[c].body) \in Nat
      BY <1>3, <1>7, ComponentIs
    <3> HIDE DEF pc, c
    <3> QED BY <1>2, <3>1
  <2>3. Written(circuit, c, pc) \subseteq 0 .. m + 1
    BY <1>3, <1>7, <1>14, <2>2, NamesBound
  <2>4. m + 2 \notin 0 .. m + 1
    BY <1>3
  <2> HIDE DEF c, pc
  <2> QED BY <1>12, <2>1, <2>3, <2>4
<1>18. Good(circuit, Now, store, own, fed, val)
  BY <1>7 DEF Serves, own, fed, val
<1>19. Good(circuit, Now', store', own2, fed2, val2)
  <2>1. Len(Top.env) + 2 \notin fed2[Len(frames)]
    BY <1>17 DEF m, n
  <2> QED BY <1>1, <1>16, <1>18, <2>1, IssueServes
<1>20. Serves(circuit, Now', store', {}, ins)
  BY <1>7, <1>19 DEF Serves, own2, fed2, val2
<1> QED BY <1>1, <1>9, <1>20

(* The name of an input of the root, while it has been read by no one.     *)
LEMMA InputName ==
  ASSUME Structure, NEW i \in 1 .. NInputs, phase \in {"encode", "collect"}
  PROVE  /\ Len(frames) = 1 /\ Top = frames[1] /\ Top.comp = Root /\ Top.pc = 1 /\ Len(Top.env) = NInputs
         /\ Now \in Config(circuit) /\ Now.frames = frames /\ circuit \in Circuits
         /\ IsBound(Now, 1, i) /\ WireAt(Now, 1, i) = Top.env[i] /\ Top.env[i] \in Wire
         /\ i + 1 \notin Constants /\ Real(Top.env, i + 1) = Top.env[i] /\ i + 1 \in 0 .. Len(Top.env) + 1
         /\ i \in Nat /\ NInputs \in Nat
<1>1. NInputs \in Nat
  BY RootIs DEF Structure
<1>2. /\ Len(frames) = 1 /\ Top = frames[1] /\ Top.comp = Root /\ Now.frames = frames
      /\ Top.env \in Seq(Wire) /\ Len(Top.env) \in Nat
  BY RootAlone
<1>3. Now \in Config(circuit) /\ circuit \in Circuits
  BY NowIs DEF Structure, Types
<1>4. Unallocated = 0 /\ Top.pc = 1
  BY <1>2 DEF Structure, Control, Unallocated
<1>5. Len(Top.env) = NInputs
  <2> DEFINE a == CreatedBy(circuit, circuit[Top.comp].body, 1)
  <2>1. a \in Nat /\ Len(Top.env) + 0 + a = circuit[Top.comp].nin + a
    BY <1>4, TopIs
  <2> HIDE DEF a
  <2> QED BY <1>1, <1>2, <2>1 DEF NInputs
<1>6. IsBound(Now, 1, i) /\ WireAt(Now, 1, i) = Top.env[i]
  <2>1. 1 \in 1 .. Len(frames)
    BY <1>2
  <2> QED BY <1>2, <1>5, <2>1 DEF IsBound, WireAt
<1>7. i + 1 \notin Constants /\ i + 1 - FirstMock + 1 = i
  BY <1>1 DEF Constants, FALSE_WIRE, TRUE_WIRE, FirstMock
<1>8. Real(Top.env, i + 1) = Top.env[i]
  <2> DEFINE l == i + 1
  <2>1. l \notin Constants
    BY <1>7
  <2>2. l - FirstMock + 1 = i
    BY <1>1 DEF FirstMock
  <2> HIDE DEF l
  <2>3. Real(Top.env, l) = Top.env[i]
    BY <2>1, <2>2 DEF Real
  <2> QED BY <2>3 DEF l
<1>9. i + 1 \in 0 .. NInputs + 1 /\ i \in Nat
  BY <1>1
<1>10. Top.env[i] \in Wire
  BY <1>2, <1>5
<1> QED BY <1>1, <1>2, <1>3, <1>4, <1>5, <1>6, <1>7, <1>8, <1>9, <1>10

(* Each input is fed before it is read.                                    *)
LEMMA EncodeServes ==
  ASSUME Structure, Structure', Exact, EncodeInput, NEW ins, Called(frames, ins), ins[1] = input,
         Serves(circuit, Now, store, Unencoded, ins)
  PROVE  ~panicked' /\ Called(frames', ins) /\ Serves(circuit, Now', store', Unencoded', ins)
<1> DEFINE N == NInputs
           i == cursor
           w == Top.env[i]
           b == input[i]
           m == Feed(Start, w, b)
           own == OwnNames(circuit, frames)
           fed == FedNames(circuit, frames, Unencoded)
           fed2 == FedNames(circuit, frames, Unencoded')
           val == Values(circuit, frames, ins)
<1>1. /\ Turn("encode", "collect", NInputs) /\ UNCHANGED <<circuit, input, frames, pool, output>>
      /\ Settle(m)
  BY DEF EncodeInput
<1>2. N \in Nat
  BY RootIs DEF Structure
<1>3. /\ i \in 1 .. N /\ phase = "encode" /\ ~panicked
      /\ \/ i = N /\ cursor' = 1 /\ phase' = "collect"
         \/ i < N /\ cursor' = i + 1 /\ phase' = "encode"
  BY <1>1, <1>2, TurnIs DEF Turn
<1>4. /\ Len(frames) = 1 /\ Top = frames[1] /\ Top.comp = Root /\ Top.pc = 1
      /\ Now \in Config(circuit) /\ Now.frames = frames /\ circuit \in Circuits
      /\ IsBound(Now, 1, i) /\ WireAt(Now, 1, i) = w /\ w \in Wire /\ i \in Nat
      /\ Len(Top.env) = N
  BY <1>3, InputName
<1>5. Now' = Now
  <2>1. Decoded' = Decoded
    BY <1>3 DEF Decoded
  <2>2. NInputs' = NInputs
    BY <1>1 DEF NInputs, Root
  <2>3. \A p \in Nat : Uncollected(p)' <=> Uncollected(p)
    <3> SUFFICES ASSUME NEW p \in Nat PROVE Uncollected(p)' <=> Uncollected(p)
      OBVIOUS
    <3>1. p \in 1 .. NInputs => p >= 1
      OBVIOUS
    <3> QED BY <1>3, <2>2, <3>1 DEF Uncollected
  <2> QED BY <1>1, <2>1, <2>3, NowSame
<1>6. Unencoded = i .. N /\ Unencoded' = i + 1 .. N
  <2>1. N' = N
    BY <1>1 DEF NInputs, Root
  <2>2. Unencoded = i .. N
    BY <1>3 DEF Unencoded
  <2>3. CASE phase' = "encode"
    BY <1>3, <2>1, <2>2, <2>3 DEF Unencoded
  <2>4. CASE phase' = "collect"
    <3>1. Unencoded' = {}
      BY <2>4 DEF Unencoded
    <3>2. i + 1 .. N = {}
      BY <1>2, <1>3, <2>4
    <3> QED BY <2>2, <3>1, <3>2
  <2> QED BY <1>3, <2>3, <2>4
<1>7. i + 1 \in own[1] /\ i + 1 \in Written(circuit, Root, 1)
  <2>1. own[1] = Own(circuit, Root, 1)
    BY <1>4 DEF OwnNames
  <2>2. Written(circuit, Root, 1) = 0 .. N + 1 /\ Own(circuit, Root, 1) = 2 .. N + 1
    BY <1>4, RootIs, NamesStart DEF Structure, NInputs, Root
  <2>3. i + 1 \in 2 .. N + 1 /\ i + 1 \in 0 .. N + 1
    BY <1>2, <1>3
  <2> HIDE DEF own, N, i
  <2> QED BY <2>1, <2>2, <2>3
<1>8. Live(circuit, Now, 1, i)
  <2> DEFINE l == i + 1
  <2>1. i \in Now.inputs
    BY <1>3, <1>4, NowIs DEF Uncollected
  <2>2. Left(circuit, Now)[1][l] \in Nat
    <3>1. 1 \in 0 .. Len(frames) /\ frames \in Seq(Frame(circuit)) /\ Decoded \in Nat
      BY <1>3, <1>4 DEF Decoded, Structure, Types
    <3>2. Now.decoded = Decoded
      BY NowIs
    <3>3. l \in Nat
      BY <1>4
    <3> HIDE DEF l
    <3>4. Now.frames = frames /\ circuit \in Circuits
      BY <1>4
    <3> HIDE DEF i
    <3>5. Remaining(circuit, frames, Decoded)[1][l] \in Nat
      BY <3>1, <3>3, <3>4, RemainingType
    <3> QED BY <3>2, <3>4, <3>5 DEF Left
  <2> DEFINE x == Left(circuit, Now)[1][l]
  <2>3. Coming(circuit, Now, 1, l) = x + 1
    <3>1. l - FirstMock + 1 = i
      BY <1>4 DEF FirstMock
    <3> HIDE DEF i, l
    <3> QED BY <2>1, <3>1 DEF Coming
  <2> HIDE DEF x
  <2>4. x + 1 # 0
    BY <2>2 DEF x
  <2> QED BY <1>4, <2>3, <2>4 DEF Live
<1>9. Good(circuit, Now, store, own, fed, val)
  BY <1>4 DEF Serves
<1>10. AllPaid(circuit, Now, store)
  BY <1>3 DEF Exact
<1> HIDE DEF own, fed, val, w, i, N
<1>11. w \in Keys /\ Credit(store, w) > 0
  <2>1. w # UNREACHABLE
    BY <1>4, <1>8, <1>9 DEF Good, Reachable
  <2>2. w \notin Constants
    BY <1>4, <1>7, <1>9 DEF Good, Mine
  <2>3. w \in Keys
    BY <1>4, <2>1, <2>2 DEF Wire
  <2> QED BY <1>4, <1>8, <1>10, <2>3, LivePaid
<1>12. b \in BOOLEAN
  BY <1>3 DEF Structure, Types, i, N
<1>13. /\ ~panicked' /\ store' = m.store
       /\ \A h \in Keys : Value(store', h) = IF h = w THEN b ELSE Value(store, h)
  <2>1. Start \in Machine /\ Start.store = store /\ Start.ok
    BY StartIs DEF Structure, Types
  <2>2. b \in Data
    BY <1>12, CircuitsAssumption
  <2> DEFINE d == b
  <2> HIDE DEF d
  <2>3. d \in Data
    BY <2>2 DEF d
  <2>4. Accessed(Start, Feed(Start, w, d), w, 0, 0)
    BY <2>1, <2>3, FeedIs
  <2>5. Feed(Start, w, d).ok
        /\ \A h \in Keys : Value(Feed(Start, w, d).store, h) = IF h = w THEN d ELSE Value(store, h)
    BY <1>11, <2>1, <2>3, FeedGoes
  <2>6. m = Feed(Start, w, d)
    BY DEF d
  <2> HIDE DEF m
  <2>7. m \in Machine /\ m.ok
    BY <2>4, <2>5, <2>6 DEF Accessed
  <2>8. store' = m.store /\ ~panicked'
    BY <1>1, <2>7, SettleIs
  <2>9. \A h \in Keys : Value(store', h) = IF h = w THEN d ELSE Value(store, h)
    BY <2>5, <2>6, <2>8
  <2> QED BY <2>8, <2>9 DEF d
<1>14. WritesName(circuit, Now, store, store', own, 1, i, b)
  BY <1>4, <1>7, <1>8, <1>13 DEF WritesName
<1>15. val[1][i] = b
  <2>1. val[1] = Goes(circuit, Root, ins[1])[0]
    <3>1. val[1] = Goes(circuit, frames[1].comp, ins[1])[frames[1].pc - 1]
      BY <1>4 DEF val, Values, ValuesIn
    <3>2. frames[1].pc - 1 = 0
      BY <1>4
    <3> QED BY <1>4, <3>1, <3>2
  <2>2. ins[1] \in Inputs(circuit, Root)
    BY <1>4 DEF Called, Handed
  <2>3. Root \in 1 .. Len(circuit)
    BY RootIs DEF Structure
  <2>4. Goes(circuit, Root, ins[1])[0] = ins[1]
    BY <1>4, <2>2, <2>3, RunIs
  <2> QED BY <2>1, <2>4 DEF i
<1>16. NowFed(Now, fed, val, 1, i, b, fed2, val)
  <2> SUFFICES ASSUME NEW k, NEW j, IsBound(Now, k, j)
               PROVE  /\ j + 1 \in fed2[k] <=> j + 1 \in fed[k] \/ (k = 1 /\ j = i)
                      /\ j + 1 \in fed2[k] => val[k][j] = IF k = 1 /\ j = i THEN b ELSE val[k][j]
    BY DEF NowFed
  <2>1. k = 1 /\ j \in 1 .. N
    <3>1. k \in 1 .. Len(frames) /\ j \in 1 .. Len(frames[k].env)
      BY <1>4 DEF IsBound
    <3>2. k = 1
      BY <1>4, <3>1
    <3> QED BY <1>4, <3>1, <3>2
  <2>2. /\ \A l : l \in fed[1] <=> l \in Written(circuit, Root, 1) /\ l - 1 \notin i .. N
        /\ \A l : l \in fed2[1] <=> l \in Written(circuit, Root, 1) /\ l - 1 \notin i + 1 .. N
    <3>1. 1 \in 1 .. Len(frames) /\ frames[1].comp = Root /\ frames[1].pc = 1
      BY <1>4
    <3>2. \A l : l \in fed[1] <=> l \in Written(circuit, Root, 1) /\ l - 1 \notin i .. N
      BY <1>6, <3>1 DEF fed, FedNames
    <3>3. \A l : l \in fed2[1] <=> l \in Written(circuit, Root, 1) /\ l - 1 \notin i + 1 .. N
      BY <1>6, <3>1 DEF fed2, FedNames
    <3> QED BY <3>2, <3>3
  <2>3. j + 1 - 1 = j /\ j \in Nat
    BY <1>2, <2>1
  <2>4. j \notin i + 1 .. N <=> j \notin i .. N \/ j = i
    BY <1>2, <1>4, <2>1
  <2> HIDE DEF fed2
  <2>5. j + 1 \in fed[1] <=> j + 1 \in Written(circuit, Root, 1) /\ j \notin i .. N
    BY <2>2, <2>3
  <2>6. j + 1 \in fed2[1] <=> j + 1 \in Written(circuit, Root, 1) /\ j \notin i + 1 .. N
    BY <2>2, <2>3
  <2>7. j + 1 \in fed2[1] <=> j + 1 \in fed[1] \/ j = i
    BY <1>7, <2>4, <2>5, <2>6
  <2> QED BY <1>15, <2>1, <2>7
<1> HIDE DEF fed2, b, m
<1>17. Good(circuit, Now, store', own, fed2, val)
  BY <1>9, <1>14, <1>16, GoodWrite
<1>18. Serves(circuit, Now', store', Unencoded', ins)
  BY <1>4, <1>5, <1>17 DEF Serves, own, fed2, val
<1>19. Called(frames', ins)
  BY <1>1
<1> QED BY <1>13, <1>18, <1>19

(* Such a read succeeds and sees the value of the name.                    *)
LEMMA OneReadServes ==
  ASSUME Structure, Structure', Exact, NEW l, ReadsOne(l),
         NEW own, NEW fed, NEW val, Good(circuit, Now, store, own, fed, val),
         l \notin Constants => l \in fed[1] /\ val[1][l - 1] \in BOOLEAN
  PROVE  /\ ~panicked' /\ Lookup(Start, Real(Top.env, l)).ok
         /\ ValueOf(Real(Top.env, l)) = ValIn(val[1], l)
         /\ Good(circuit, Now', store', own, fed, val)
<1> DEFINE w == Real(Top.env, l)
           m == Lookup(Start, w)
           s == Now
           t == Now'
<1>1. /\ ~panicked /\ circuit' = circuit /\ frames' = frames /\ phase \notin {"metadata", "run"}
      /\ l \in 0 .. Len(Top.env) + 1 /\ Settle(m)
  BY DEF ReadsOne
<1>2. /\ ReadOff(circuit, s, t, 1, <<l>>, 1) /\ t \in Config(circuit) /\ s.frames[1] = Top
  BY <1>1, OneReadOff DEF ReadsOne
<1>3. /\ circuit \in Circuits /\ s \in Config(circuit) /\ s.frames = frames /\ Len(frames) = 1
      /\ Len(Top.env) \in Nat
  BY <1>1, NowIs, RootAlone DEF Structure, Types
<1>4. AllPaid(circuit, s, store)
  BY <1>1 DEF Exact
<1>5. Coming(circuit, s, 1, l) # 0
  <2>1. l \in Nat
    BY <1>1, <1>3
  <2>2. Coming(circuit, s, 1, l) = Coming(circuit, t, 1, l) + 1
    BY <2>1 DEF ReadsOne
  <2>3. Coming(circuit, t, 1, l) \in Nat
    <3>1. 1 \in 1 .. Len(t.frames)
      <4>1. Len(t.frames) = 1
        BY <1>2 DEF ReadOff
      <4> QED BY <4>1
    <3> HIDE DEF t
    <3> QED BY <1>2, <1>3, <2>1, <3>1, ComingNat
  <2> HIDE DEF s, t
  <2> QED BY <2>2, <2>3
<1> HIDE DEF s, t, w, m
<1>6. Ready(store, w) /\ Holds(store, w, ValIn(val[1], l))
  <2>1. 1 \in 1 .. Len(s.frames) /\ l \in 0 .. Len(s.frames[1].env) + 1
    BY <1>1, <1>2, <1>3
  <2>2. l \notin Constants => l \in fed[1] /\ Coming(circuit, s, 1, l) # 0 /\ val[1][l - 1] \in BOOLEAN
    BY <1>5
  <2>3. Good(circuit, s, store, own, fed, val)
    BY DEF s
  <2>4. Ready(store, Real(s.frames[1].env, l)) /\ Holds(store, Real(s.frames[1].env, l), ValIn(val[1], l))
    BY <1>3, <1>4, <2>1, <2>2, <2>3, NameReady
  <2> QED BY <1>2, <2>4 DEF w
<1>7. Start \in Machine /\ Start.store = store /\ Start.ok
  BY StartIs DEF Structure, Types
<1>8. m.ok /\ Kept(store, m.store)
  <2>1. Lookup(Start, w).ok /\ Kept(Start.store, Lookup(Start, w).store)
    BY <1>6, <1>7, LookupGoes
  <2> QED BY <1>7, <2>1 DEF m
<1>9. m \in Machine
  <2>1. Accessed(Start, m, w, 1, 0)
    BY <1>7, LookupIs DEF m
  <2> QED BY <2>1 DEF Accessed
<1>10. store' = m.store /\ ~panicked'
  BY <1>1, <1>8, <1>9, SettleIs
<1>11. AllPaid(circuit, t, store')
  <2>1. Exact'
    BY OneReadExact DEF ReadsOne
  <2> QED BY <1>1, <1>10, <2>1 DEF Exact, t
<1>12. KeepsLive(circuit, t, store, store')
  BY <1>2, <1>3, <1>8, <1>10, <1>11, PaidKeeps
<1>13. FewerReads(circuit, s, t, own, fed)
  <2>1. \A j \in 1 .. 1 : <<l>>[j] \in Constants \/ <<l>>[j] \in fed[1]
    <3>1. \A j \in 1 .. 1 : <<l>>[j] = l
      OBVIOUS
    <3>2. l \in Constants \/ l \in fed[1]
      OBVIOUS
    <3> QED BY <3>1, <3>2
  <2> QED BY <1>2, <1>3, <2>1, ReadOffFewer
<1>14. Good(circuit, t, store', own, fed, val)
  <2>1. Good(circuit, s, store, own, fed, val)
    BY DEF s
  <2> QED BY <1>12, <1>13, <2>1, GoodFewer
<1>15. ValueOf(w) = ValIn(val[1], l)
  BY <1>6, HeldValue
<1> QED BY <1>8, <1>10, <1>14, <1>15 DEF t, m, w

(* An input that run_streaming collects has been fed.                      *)
LEMMA CollectServes ==
  ASSUME Structure, Structure', Exact, CollectInput, NEW ins, Called(frames, ins),
         Serves(circuit, Now, store, {}, ins)
  PROVE  ~panicked' /\ Called(frames', ins) /\ Serves(circuit, Now', store', {}, ins)
<1> DEFINE l == cursor + 1
           own == OwnNames(circuit, frames)
           fed == FedNames(circuit, frames, {})
           val == Values(circuit, frames, ins)
<1>1. ReadsOne(l)
  BY CollectReads
<1>2. Turn("collect", "run", NInputs) /\ UNCHANGED <<circuit, input, frames, pool, output>>
  BY DEF CollectInput
<1>3. NInputs \in Nat /\ Root \in 1 .. Len(circuit)
  BY RootIs DEF Structure
<1>4. cursor \in 1 .. NInputs /\ phase = "collect"
  BY <1>2, <1>3, TurnIs
<1>5. /\ Len(frames) = 1 /\ Top = frames[1] /\ Top.comp = Root /\ Top.pc = 1
      /\ Now.frames = frames /\ circuit \in Circuits /\ cursor \in Nat
  BY <1>4, InputName
<1>6. l \in fed[1]
  <2>1. fed[1] = Written(circuit, Root, 1)
    <3>1. 1 \in 1 .. Len(frames) /\ frames[1].comp = Root /\ frames[1].pc = 1
      BY <1>5
    <3> HIDE DEF fed
    <3>2. fed[1] = Written(circuit, frames[1].comp, frames[1].pc)
      BY <3>1, AllFedView DEF fed
    <3> QED BY <3>1, <3>2
  <2>2. Written(circuit, Root, 1) = 0 .. NInputs + 1
    BY <1>3, <1>5, NamesStart DEF NInputs
  <2>3. l \in 0 .. NInputs + 1
    BY <1>3, <1>4
  <2> HIDE DEF l, fed
  <2> QED BY <2>1, <2>2, <2>3
<1>7. val[1][l - 1] \in BOOLEAN
  <2>1. val[1] = Goes(circuit, Root, ins[1])[0]
    <3>1. val[1] = Goes(circuit, frames[1].comp, ins[1])[frames[1].pc - 1]
      BY <1>5 DEF Values, ValuesIn
    <3>2. frames[1].pc - 1 = 0
      BY <1>5
    <3> QED BY <1>5, <3>1, <3>2
  <2>2. ins[1] \in Inputs(circuit, Root)
    BY <1>5 DEF Called, Handed
  <2>3. Goes(circuit, Root, ins[1])[0] = ins[1]
    BY <1>3, <1>5, <2>2, RunIs
  <2>4. l - 1 = cursor
    BY <1>5
  <2>5. ins[1][cursor] \in BOOLEAN
    BY <1>4, <2>2 DEF Inputs, NInputs
  <2> HIDE DEF val, l
  <2> QED BY <2>1, <2>3, <2>4, <2>5
<1>8. Good(circuit, Now, store, own, fed, val)
  BY <1>5 DEF Serves
<1> HIDE DEF l, own, fed, val
<1>9. ~panicked' /\ Good(circuit, Now', store', own, fed, val)
  BY <1>1, <1>6, <1>7, <1>8, OneReadServes
<1>10. Now'.frames = frames
  <2>1. Now'.frames = frames'
    BY <1>2, NextNow
  <2> QED BY <1>2, <2>1
<1>11. Serves(circuit, Now', store', {}, ins)
  BY <1>9, <1>10 DEF Serves, own, fed, val
<1>12. Called(frames', ins)
  BY <1>2
<1> QED BY <1>9, <1>11, <1>12

(* What is decoded for an output is the value the circuit computes for it. *)
LEMMA DecodeServes ==
  ASSUME Structure, Structure', Exact, DecodeOutput, NEW ins, Called(frames, ins), ins[1] = input,
         Serves(circuit, Now, store, {}, ins)
  PROVE  /\ ~panicked' /\ Called(frames', ins) /\ Serves(circuit, Now', store', {}, ins)
         /\ output' = Append(output, Meaning(circuit)[Root][input][cursor])
<1> DEFINE outs == circuit[Root].outs
           n == Len(outs)
           l == outs[cursor]
           z == DoneAt(circuit, Root)
           own == OwnNames(circuit, frames)
           fed == FedNames(circuit, frames, {})
           val == Values(circuit, frames, ins)
<1>1. ReadsOne(l)
  BY DecodeReads
<1>2. Turn("decode", "done", n) /\ UNCHANGED <<circuit, input, frames, pool>>
      /\ output' = IF Lookup(Start, Real(Top.env, l)).ok THEN Append(output, ValueOf(Real(Top.env, l))) ELSE output
  BY DEF DecodeOutput
<1>3. /\ n \in Nat /\ DOMAIN outs = 1 .. n /\ circuit \in Circuits /\ Root \in 1 .. Len(circuit)
      /\ z \in Nat
  BY RootIs, ComponentIs DEF Structure, Types, NameSeq, DoneAt
<1>4. cursor \in 1 .. n /\ phase = "decode"
  <2> HIDE DEF n
  <2> QED BY <1>2, <1>3, TurnIs
<1>5. Len(frames) = 1 /\ Top = frames[1] /\ Top.comp = Root /\ Now.frames = frames
  BY <1>4, RootAlone
<1>6. frames[1].pc = z + 1
  <2>1. frames[1].pc > z
    BY <1>4 DEF Structure, Control, DoneAt
  <2>2. frames[1].pc \in 1 .. DoneAt(circuit, frames[1].comp) + 1
    BY <1>5 DEF Called, Lined
  <2> DEFINE x == frames[1].pc
  <2>3. x \in 1 .. z + 1 /\ x > z
    BY <1>5, <2>1, <2>2
  <2> HIDE DEF x, z
  <2>4. x = z + 1
    BY <1>3, <2>3
  <2> QED BY <2>4 DEF x
<1>7. fed[1] = Written(circuit, Root, z + 1)
  <2>1. 1 \in 1 .. Len(frames) /\ frames[1].comp = Root
    BY <1>5
  <2> HIDE DEF fed, z
  <2>2. fed[1] = Written(circuit, frames[1].comp, frames[1].pc)
    BY <2>1, AllFedView DEF fed
  <2> QED BY <1>6, <2>1, <2>2
<1>8. l \in fed[1]
  <2>1. \A j \in DOMAIN outs : outs[j] \in Written(circuit, Root, z + 1)
    BY <1>3, DisciplineIs DEF DoneAt
  <2> HIDE DEF fed, outs, z, n
  <2> QED BY <1>3, <1>4, <1>7, <2>1
<1>9. ins[1] \in Inputs(circuit, Root)
  BY <1>5 DEF Called, Handed
<1>10. val[1] = Goes(circuit, Root, ins[1])[z]
  <2>1. val[1] = Goes(circuit, frames[1].comp, ins[1])[frames[1].pc - 1]
    BY <1>5 DEF Values, ValuesIn
  <2>2. frames[1].pc - 1 = z
    <3> HIDE DEF z
    <3> QED BY <1>3, <1>6
  <2> HIDE DEF val, z
  <2> QED BY <1>5, <2>1, <2>2
<1>11. /\ Meaning(circuit)[Root][ins[1]] = ValsIn(val[1], outs)
       /\ val[1] \in Bits(BoundAt(circuit, Root, z + 1))
  <2>1. /\ Meaning(circuit)[Root][ins[1]] = ValsIn(Goes(circuit, Root, ins[1])[z], circuit[Root].outs)
        /\ \A i \in 0 .. z : Goes(circuit, Root, ins[1])[i] \in Bits(BoundAt(circuit, Root, i + 1))
    BY <1>3, <1>9, RunIs
  <2>2. z \in 0 .. z
    <3> HIDE DEF z
    <3> QED BY <1>3
  <2> HIDE DEF val, z
  <2> QED BY <1>10, <2>1, <2>2
<1>12. Meaning(circuit)[Root][ins[1]][cursor] = ValIn(val[1], l)
  <2>1. ValsIn(val[1], outs)[cursor] = ValIn(val[1], outs[cursor])
    <3> HIDE DEF outs, val, n
    <3> QED BY <1>3, <1>4 DEF ValsIn
  <2> HIDE DEF val, outs
  <2> QED BY <1>11, <2>1
<1>13. l \notin Constants => val[1][l - 1] \in BOOLEAN
  <2> DEFINE b == BoundAt(circuit, Root, z + 1)
  <2>1. b \in Nat /\ Within(outs, n, b)
    BY <1>3, ReturnsBound DEF DoneAt
  <2>2. l \in 0 .. b + 1
    <3> HIDE DEF outs, n, b
    <3> QED BY <1>4, <2>1 DEF Within
  <2> HIDE DEF b, l, val
  <2>3. val[1] \in Bits(b)
    BY <1>11 DEF b
  <2>4. l \notin Constants => l - 1 \in 1 .. b
    BY <2>1, <2>2, <2>3, ValInIs
  <2> QED BY <2>3, <2>4 DEF Bits
<1>14. Good(circuit, Now, store, own, fed, val)
  BY <1>5 DEF Serves
<1> HIDE DEF l, own, fed, val, outs, n, z
<1>15. /\ ~panicked' /\ Lookup(Start, Real(Top.env, l)).ok
       /\ ValueOf(Real(Top.env, l)) = ValIn(val[1], l)
       /\ Good(circuit, Now', store', own, fed, val)
  BY <1>1, <1>8, <1>13, <1>14, OneReadServes
<1>16. output' = Append(output, Meaning(circuit)[Root][input][cursor])
  BY <1>2, <1>12, <1>15
<1>17. Now'.frames = frames
  <2>1. Now'.frames = frames'
    BY <1>2, NextNow
  <2> QED BY <1>2, <2>1
<1>18. Serves(circuit, Now', store', {}, ins)
  BY <1>15, <1>17 DEF Serves, own, fed, val
<1>19. Called(frames', ins)
  BY <1>2
<1> QED BY <1>15, <1>16, <1>18, <1>19

(* What has been decoded so far is what the circuit computes.              *)
Decided ==
  /\ Len(output) = Decoded
  /\ \A j \in 1 .. Len(output) : output[j] = Meaning(circuit)[Root][input][j]

(* The run has not panicked, and its wires serve closures that were called *)
(* with what the circuit, run directly, calls them with.                   *)
HeldFor(ins) ==
  /\ Len(frames) > 0 => ins[1] = input
  /\ Called(frames, ins) /\ Serves(circuit, Now, store, Unencoded, ins)

Held == ~panicked /\ Decided /\ \E ins : HeldFor(ins)

(* Without frames, and without names, there is nothing to serve.           *)
LEMMA GoodNone ==
  ASSUME NEW crt, NEW s, \A k, j : ~IsBound(s, k, j), NEW st, NEW own, NEW fed, NEW val
  PROVE  Good(crt, s, st, own, fed, val)
BY DEF Good, Reachable, Apart, Dropped, Mine, Valued, Live

(* Before the run nothing is held.                                         *)
LEMMA HeldInit == ASSUME Init PROVE Held
<1>1. Structure /\ frames = <<>> /\ ~panicked /\ output = <<>> /\ phase = "metadata"
  BY StructureInit DEF Init
<1>2. Decided
  BY <1>1 DEF Decided, Decoded
<1>3. Len(frames) = 0 /\ Now.frames = frames
  BY <1>1, NowIs
<1>4. Called(frames, <<input>>)
  BY <1>3 DEF Called, Lined, Handed
<1>5. \A k, j : ~IsBound(Now, k, j)
  BY <1>3 DEF IsBound
<1>6. Serves(circuit, Now, store, Unencoded, <<input>>)
  BY <1>5, GoodNone DEF Serves
<1>7. HeldFor(<<input>>)
  BY <1>3, <1>4, <1>6 DEF HeldFor
<1> QED BY <1>1, <1>2, <1>7 DEF Held

(* The root is entered with no names bound.                                *)
LEMMA EnterHolds == ASSUME Structure, Structure', Held, EnterRoot PROVE Held'
<1>1. /\ phase = "metadata" /\ phase' \in {"allocate", "run"}
      /\ UNCHANGED <<circuit, input, cursor, store, output, panicked>>
      /\ circuit \in Circuits /\ Root \in 1 .. Len(circuit)
  BY RootIs DEF EnterRoot, Structure, Types
<1>2. Len(frames') = 1 /\ frames'[1].comp = Root /\ frames'[1].pc = 1 /\ frames'[1].env = <<>>
  BY DEF EnterRoot
<1>0. PICK ins : ins = <<input>>
  OBVIOUS
<1>3. ins[1] = input /\ input \in Inputs(circuit, Root)
  BY <1>0 DEF Structure, Types, Inputs, NInputs
<1>4. DoneAt(circuit, Root) \in Nat
  BY <1>1, <1>3, RunIs
<1>5. Called(frames', ins)
  <2>1. \A k \in 1 .. Len(frames') : k = 1 /\ ~(k < Len(frames'))
    BY <1>2
  <2>2. 1 \in 1 .. DoneAt(circuit, Root) + 1
    BY <1>4
  <2>3. Lined(circuit, frames')
    BY <1>2, <2>1, <2>2 DEF Lined
  <2>4. Handed(circuit, frames', ins)
    BY <1>2, <1>3, <2>1 DEF Handed
  <2> QED BY <1>1, <2>3, <2>4 DEF Called
<1>6. Now'.frames = frames'
  BY <1>1, NextNow
<1>7. \A k, j : ~IsBound(Now', k, j)
  <2> SUFFICES ASSUME NEW k, NEW j, IsBound(Now', k, j) PROVE FALSE
    OBVIOUS
  <2>1. k \in 1 .. 1 /\ j \in 1 .. Len(frames'[k].env)
    BY <1>2, <1>6 DEF IsBound
  <2>2. k = 1
    BY <2>1
  <2> QED BY <1>2, <2>1, <2>2
<1>8. Serves(circuit', Now', store', Unencoded', ins)
  BY <1>7, GoodNone DEF Serves
<1>9. Decided'
  <2>1. Decoded = 0 /\ Decoded' = 0 /\ Decided
    BY <1>1 DEF Decoded, Held
  <2>2. Root' = Root
    BY <1>1 DEF Root
  <2> QED BY <1>1, <2>1, <2>2 DEF Decided
<1>10. HeldFor(ins)'
  BY <1>1, <1>3, <1>5, <1>8 DEF HeldFor, Called
<1>11. \E jns : HeldFor(jns)'
  BY <1>10
<1>12. ~panicked'
  BY <1>1 DEF Held
<1> QED BY <1>9, <1>11, <1>12 DEF Held

(* A step that decodes nothing leaves what has been decoded.               *)
LEMMA DecidedKeeps ==
  ASSUME Decided, UNCHANGED <<circuit, input, output>>, Decoded' = Decoded
  PROVE  Decided'
<1>1. Root' = Root
  BY DEF Root
<1> QED BY <1>1 DEF Decided

(* What a step owes to Held.                                               *)
LEMMA HeldBy ==
  ASSUME Held, UNCHANGED <<circuit, input>>, Decided', ~panicked', NEW ins, NEW jns,
         HeldFor(ins), Len(frames) > 0, jns[1] = ins[1], Called(frames', jns),
         Serves(circuit, Now', store', Unencoded', jns)
  PROVE  Held'
<1>1. jns[1] = input'
  BY DEF HeldFor
<1>2. Serves(circuit', Now', store', Unencoded', jns)
  OBVIOUS
<1>3. Called(frames, jns)'
  BY DEF Called
<1>4. HeldFor(jns)'
  BY <1>1, <1>2, <1>3 DEF HeldFor
<1>5. \E kns : HeldFor(kns)'
  BY <1>4
<1> QED BY <1>5 DEF Held

(* An input gets a wire.                                                   *)
LEMMA AllocateHolds == ASSUME Structure, Structure', Exact, Held, AllocateInput PROVE Held'
<1>1. /\ UNCHANGED <<circuit, input, output>> /\ phase = "allocate" /\ phase' \in {"allocate", "encode"}
  BY DEF AllocateInput, Turn
<1>2. Len(frames) > 0
  BY <1>1, RootAlone
<1>3. Decoded' = Decoded
  BY <1>1 DEF Decoded
<1>4. PICK ins : HeldFor(ins)
  BY DEF Held
<1>5. ~panicked' /\ Called(frames', ins) /\ Serves(circuit, Now', store', Unencoded', ins)
  BY <1>4, AllocateServes DEF HeldFor
<1>6. Decided'
  BY <1>1, <1>3, DecidedKeeps DEF Held
<1> QED BY <1>1, <1>2, <1>4, <1>5, <1>6, HeldBy

(* An input gets its value.                                                *)
LEMMA EncodeHolds == ASSUME Structure, Structure', Exact, Held, EncodeInput PROVE Held'
<1>1. /\ UNCHANGED <<circuit, input, output>> /\ phase = "encode" /\ phase' \in {"encode", "collect"}
  BY DEF EncodeInput, Turn
<1>2. Len(frames) > 0
  BY <1>1, RootAlone
<1>3. Decoded' = Decoded
  BY <1>1 DEF Decoded
<1>4. PICK ins : HeldFor(ins)
  BY DEF Held
<1>5. ~panicked' /\ Called(frames', ins) /\ Serves(circuit, Now', store', Unencoded', ins)
  BY <1>2, <1>4, EncodeServes DEF HeldFor
<1>6. Decided'
  BY <1>1, <1>3, DecidedKeeps DEF Held
<1> QED BY <1>1, <1>2, <1>4, <1>5, <1>6, HeldBy

(* An input is collected.                                                  *)
LEMMA CollectHolds == ASSUME Structure, Structure', Exact, Held, CollectInput PROVE Held'
<1>1. /\ UNCHANGED <<circuit, input, output>> /\ phase = "collect" /\ phase' \in {"collect", "run"}
  BY DEF CollectInput, Turn
<1>2. Len(frames) > 0
  BY <1>1, RootAlone
<1>3. Decoded' = Decoded /\ Unencoded = {} /\ Unencoded' = {}
  BY <1>1 DEF Decoded, Unencoded
<1>4. PICK ins : HeldFor(ins)
  BY DEF Held
<1>5. ~panicked' /\ Called(frames', ins) /\ Serves(circuit, Now', store', Unencoded', ins)
  BY <1>3, <1>4, CollectServes DEF HeldFor
<1>6. Decided'
  BY <1>1, <1>3, DecidedKeeps DEF Held
<1> QED BY <1>1, <1>2, <1>4, <1>5, <1>6, HeldBy

(* While the closures run.                                                 *)
LEMMA RunHolds ==
  ASSUME Structure, Structure', Exact, Held, phase = "run", phase' = "run",
         UNCHANGED <<circuit, input, output>>,
         \A ins : Called(frames, ins) /\ Serves(circuit, Now, store, {}, ins) =>
           \E jns : /\ ~panicked' /\ jns[1] = ins[1] /\ Called(frames', jns)
                    /\ Serves(circuit, Now', store', {}, jns)
  PROVE  Held'
<1>1. Len(frames) > 0
  <2>1. Len(frames) \in Nat \ {0}
    BY TopIs
  <2> QED BY <2>1
<1>2. Decoded' = Decoded /\ Unencoded = {} /\ Unencoded' = {}
  BY DEF Decoded, Unencoded
<1>3. PICK ins : HeldFor(ins)
  BY DEF Held
<1>4. PICK jns : ~panicked' /\ jns[1] = ins[1] /\ Called(frames', jns) /\ Serves(circuit, Now', store', {}, jns)
  BY <1>2, <1>3 DEF HeldFor
<1>5. Decided'
  BY <1>2, DecidedKeeps DEF Held
<1>6. Serves(circuit, Now', store', Unencoded', jns)
  BY <1>2, <1>4
<1> QED BY <1>1, <1>3, <1>4, <1>5, <1>6, HeldBy

(* A closure gets a wire.                                                  *)
LEMMA RunIssueHolds == ASSUME Structure, Structure', Exact, Held, RunIssue PROVE Held'
<1>1. phase = "run" /\ phase' = "run" /\ UNCHANGED <<circuit, input, output>>
  BY DEF RunIssue, Running
<1> QED BY <1>1, RunIssueServes, RunHolds

(* A gate is evaluated.                                                    *)
LEMMA GateHolds == ASSUME Structure, Structure', Exact, Held, RunGate PROVE Held'
<1>1. phase = "run" /\ phase' = "run" /\ UNCHANGED <<circuit, input, output>>
  BY DEF RunGate, Running
<1> QED BY <1>1, GateServes, RunHolds

(* A child returns its outputs.                                            *)
LEMMA ReturnHolds == ASSUME Structure, Structure', Exact, Held, RunReturn PROVE Held'
<1>1. phase = "run" /\ phase' = "run" /\ UNCHANGED <<circuit, input, output>>
  BY DEF RunReturn
<1> QED BY <1>1, ReturnServes, RunHolds

(* A child is called.                                                      *)
LEMMA CallHolds ==
  ASSUME Structure, Structure', Exact, Held, RunCall, Fits(circuit, Now'), RoomToCall
  PROVE  Held'
<1>1. phase = "run" /\ phase' = "run" /\ UNCHANGED <<circuit, input, output>>
  BY DEF RunCall, Running
<1>2. ASSUME NEW ins, Called(frames, ins), Serves(circuit, Now, store, {}, ins)
      PROVE  \E jns : /\ ~panicked' /\ jns[1] = ins[1] /\ Called(frames', jns)
                      /\ Serves(circuit, Now', store', {}, jns)
  <2> DEFINE jns == CallIns(ins)
  <2>1. ~panicked' /\ Serves(circuit, Now', store', {}, jns)
    BY <1>2, CallServes
  <2>2. Called(frames', jns) /\ \A k \in 1 .. Len(frames) : jns[k] = ins[k]
    BY <1>2, CallCalls
  <2>3. 1 \in 1 .. Len(frames)
    <3>1. Len(frames) \in Nat \ {0}
      BY <1>1, TopIs
    <3> QED BY <3>1
  <2> HIDE DEF jns
  <2> QED BY <2>1, <2>2, <2>3
<1> QED BY <1>1, <1>2, RunHolds

(* The root returns.                                                       *)
LEMMA FinishHolds == ASSUME Structure, Structure', Held, RunFinish PROVE Held'
<1>1. /\ phase = "run" /\ phase' \in {"decode", "done"} /\ ~panicked' /\ Len(frames) > 0
      /\ phase' = "done" => circuit[Root].outs = <<>>
      /\ UNCHANGED <<circuit, input, cursor, store, frames, pool, output, panicked>>
  BY DEF RunFinish
<1>2. cursor = 1
  BY <1>1 DEF Structure, Control
<1>3. Decoded' = Decoded /\ Unencoded = {} /\ Unencoded' = {}
  BY <1>1, <1>2 DEF Decoded, Unencoded, Root
<1>4. \A p \in Nat : Uncollected(p)' <=> Uncollected(p)
  BY <1>1 DEF Uncollected
<1>5. Now' = Now
  BY <1>1, <1>3, <1>4, NowSame
<1>6. PICK ins : HeldFor(ins)
  BY DEF Held
<1>7. Decided'
  BY <1>1, <1>3, DecidedKeeps DEF Held
<1>8. Called(frames', ins) /\ Serves(circuit, Now', store', Unencoded', ins)
  BY <1>1, <1>3, <1>5, <1>6 DEF HeldFor
<1> QED BY <1>1, <1>6, <1>7, <1>8, HeldBy

(* An output is decoded, as the direct run has it.                         *)
LEMMA DecodeHolds == ASSUME Structure, Structure', Exact, Held, DecodeOutput PROVE Held'
<1> DEFINE n == Len(circuit[Root].outs)
           x == Meaning(circuit)[Root][input][cursor]
<1>1. /\ Turn("decode", "done", n) /\ UNCHANGED <<circuit, input>> /\ phase = "decode"
      /\ phase' \in {"decode", "done"}
  BY DEF DecodeOutput, Turn
<1>2. n \in Nat /\ circuit \in Circuits
  BY RootIs, ComponentIs DEF Structure, Types
<1>3. /\ cursor \in 1 .. n /\ cursor \in Nat
      /\ \/ cursor = n /\ phase' = "done"
         \/ cursor' = cursor + 1 /\ phase' = "decode"
  <2>1. /\ cursor \in 1 .. n
        /\ \/ cursor = n /\ phase' = "done"
           \/ cursor' = cursor + 1 /\ phase' = "decode"
    BY <1>1, <1>2, TurnIs
  <2> HIDE DEF n
  <2> QED BY <1>2, <2>1
<1>4. Len(frames) > 0
  BY <1>1, RootAlone
<1>5. Unencoded = {} /\ Unencoded' = {}
  BY <1>1 DEF Unencoded
<1>6. PICK ins : HeldFor(ins)
  BY DEF Held
<1>7. /\ ~panicked' /\ Called(frames', ins) /\ Serves(circuit, Now', store', Unencoded', ins)
      /\ output' = Append(output, x)
  BY <1>4, <1>5, <1>6, DecodeServes DEF HeldFor
<1>8. Decoded = cursor - 1 /\ Decoded' = cursor
  <2>1. Decoded = cursor - 1
    BY <1>1 DEF Decoded
  <2>2. n' = n
    BY <1>1 DEF Root
  <2>3. CASE phase' = "done"
    <3>1. Decoded' = n
      BY <2>2, <2>3 DEF Decoded
    <3>2. cursor = n
      BY <1>3, <2>3
    <3> QED BY <2>1, <3>1, <3>2
  <2>4. CASE phase' = "decode"
    <3>1. Decoded' = cursor' - 1
      BY <2>4 DEF Decoded
    <3>2. cursor' = cursor + 1
      BY <1>3, <2>4
    <3>3. cursor' - 1 = cursor
      BY <1>3, <3>2
    <3> QED BY <2>1, <3>1, <3>3
  <2> QED BY <1>3, <2>3, <2>4
<1>9. Decided'
  <2>1. /\ Len(output) = cursor - 1 /\ output \in Seq(BOOLEAN) /\ output' \in Seq(BOOLEAN)
        /\ \A j \in 1 .. Len(output) : output[j] = Meaning(circuit)[Root][input][j]
    BY <1>8 DEF Held, Decided, Structure, Types
  <2>2. Root' = Root
    BY <1>1 DEF Root
  <2> HIDE DEF x
  <2>3. Len(output') = cursor /\ output'[cursor] = x /\ \A j \in 1 .. cursor - 1 : output'[j] = output[j]
    BY <1>3, <1>7, <2>1
  <2>4. ASSUME NEW j \in 1 .. cursor PROVE output'[j] = Meaning(circuit)[Root][input][j]
    <3>1. CASE j = cursor
      BY <2>3, <3>1 DEF x
    <3>2. CASE j # cursor
      <4>1. j \in 1 .. cursor - 1
        BY <1>3, <3>2
      <4> QED BY <2>1, <2>3, <4>1
    <3> QED BY <3>1, <3>2
  <2> QED BY <1>1, <1>8, <2>2, <2>3, <2>4 DEF Decided
<1> QED BY <1>1, <1>4, <1>6, <1>7, <1>9, HeldBy

(* A step that changes nothing keeps all of it.                            *)
LEMMA IdleHolds == ASSUME Structure, Held, UNCHANGED vars PROVE Held'
<1>1. Decoded' = Decoded /\ NInputs' = NInputs
  BY DEF vars, Decoded, NInputs, Root
<1>2. \A p \in Nat : Uncollected(p)' <=> Uncollected(p)
  BY <1>1 DEF vars, Uncollected
<1>3. Now' = Now
  BY <1>1, <1>2, NowSame DEF vars
<1>4. Unencoded' = Unencoded
  BY <1>1 DEF vars, Unencoded
<1>5. UNCHANGED <<circuit, input, output, frames, store, panicked>>
  BY DEF vars
<1>6. Decided' /\ ~panicked'
  BY <1>1, <1>5, DecidedKeeps DEF Held
<1>7. PICK ins : HeldFor(ins)
  BY DEF Held
<1>8. HeldFor(ins)'
  BY <1>3, <1>4, <1>5, <1>7 DEF HeldFor, Called
<1> QED BY <1>6, <1>8 DEF Held

(* The credits of a state fit: those of its names, and those a wire has    *)
(* while a call is under way.                                              *)
CreditsHeld ==
  /\ CountsHeld
  /\ Len(frames) > 1 /\ Top.pc = 1 =>
       \A w \in Keys : Owing(circuit, Now, w) + Occurrences(Top.env, w) <= MaxCredits

(* The credits of a state fit.                                             *)
LEMMA CreditsAre == ASSUME Structure, CreditsFit PROVE CreditsHeld
<1>1. CountsHeld
  BY FitsIs DEF CreditsFit, CountsHeld
<1>2. ASSUME Len(frames) > 1, Top.pc = 1, NEW w \in Keys
      PROVE  Owing(circuit, Now, w) + Occurrences(Top.env, w) <= MaxCredits
  <2>1. Demand(w) + Occurrences(Top.env, w) <= MaxCredits
    BY <1>2 DEF CreditsFit
  <2> QED BY <2>1, DemandIs
<1> QED BY <1>1, <1>2 DEF CreditsHeld

(* A call has room for the credits it grants before it uses one up.        *)
LEMMA CallRoom == ASSUME Structure, Structure', RunCall, CreditsHeld' PROVE Fits(circuit, Now') /\ RoomToCall
<1>1. circuit' = circuit /\ frames' = Append(WithTop(Caller), Child) /\ Child.pc = 1 /\ Child.env = Args
  BY CallIs
<1>2. Len(frames') = Len(frames) + 1 /\ frames'[Len(frames) + 1] = Child /\ Len(frames) \in Nat \ {0}
  <2>1. /\ Now'.frames = frames' /\ Len(frames) \in Nat \ {0}
        /\ Pushed(Mid, Now', Len(frames)) /\ Now'.frames[Len(frames) + 1] = Child
    BY <1>1, MidIs, NextNow
  <2> QED BY <2>1 DEF Pushed
<1>3. Top' = Child /\ Len(frames') > 1
  <2>1. Top' = frames'[Len(frames')]
    BY DEF Top
  <2> QED BY <1>2, <2>1
<1>4. CountsHeld' /\ \A w \in Keys : Owing(circuit, Now', w) + Occurrences(Args, w) <= MaxCredits
  BY <1>1, <1>3 DEF CreditsHeld
<1> QED BY <1>1, <1>4 DEF CountsHeld, RoomToCall

(* Every step of the run keeps it, as long as the credits fit.             *)
LEMMA HeldStep == ASSUME Structure, Structure', Exact, Held, CreditsHeld', [Next]_vars PROVE Held'
<1>1. CASE UNCHANGED vars
  BY <1>1, IdleHolds
<1>2. CASE RunCall
  BY <1>2, CallRoom, CallHolds
<1>3. CASE Next /\ ~RunCall
  BY <1>3, EnterHolds, AllocateHolds, EncodeHolds, CollectHolds, RunIssueHolds, GateHolds, ReturnHolds,
     FinishHolds, DecodeHolds DEF Next
<1> QED BY <1>1, <1>2, <1>3

(* What Held says of a run that is over.                                   *)
LEMMA HeldDecides == ASSUME Structure, Held PROVE OutputsCorrect
<1> SUFFICES ASSUME phase = "done" PROVE output = Meanings[circuit][input]
  BY DEF OutputsCorrect
<1> DEFINE n == Len(circuit[Root].outs)
           d == Meaning(circuit)[Root][input]
<1>1. circuit \in Circuits /\ Root \in 1 .. Len(circuit) /\ input \in Inputs(circuit, Root)
  BY RootIs DEF Structure, Types, Inputs, NInputs
<1>2. d \in Bits(n) /\ n \in Nat
  <2>1. n \in Nat
    BY <1>1, ComponentIs
  <2> QED BY <1>1, <2>1, RunIs
<1>3. Len(output) = n /\ \A j \in 1 .. n : output[j] = d[j]
  BY DEF Held, Decided, Decoded
<1>4. output \in Seq(BOOLEAN)
  BY DEF Structure, Types
<1> HIDE DEF d, n
<1>5. output = d
  <2>1. output \in Bits(n)
    BY <1>2, <1>3, <1>4, BitsSeq
  <2> QED BY <1>2, <1>3, <2>1 DEF Bits
<1>6. Meanings[circuit][input] = d
  BY <1>1 DEF Meanings, Root, d
<1> QED BY <1>5, <1>6

(* As long as no credits exceed what `Credits` can hold, no access of a    *)
(* run meets a wire that is missing, not fed, unreachable or out of        *)
(* credits, whatever the circuit, its inputs and the recycled slots: the   *)
(* reads a template promises a wire cover every read the closures make.    *)
THEOREM PanicsNever == Spec /\ []CreditsFit => []NoPanic
<1>1. Init => Structure /\ Exact /\ Held
  BY StructureInit, ExactInit, HeldInit
<1>2. Structure /\ Structure' /\ Exact /\ CountsHeld' /\ [Next]_vars => Exact'
  BY ExactStep
<1>3. Structure /\ Structure' /\ Exact /\ Held /\ CreditsHeld' /\ [Next]_vars => Held'
  BY HeldStep
<1>4. Structure /\ CreditsFit => CreditsHeld /\ CountsHeld
  BY CreditsAre DEF CreditsHeld
<1>5. Held /\ CreditsFit /\ FramesBalanced => NoPanic
  BY DEF Held, NoPanic
<1> QED BY <1>1, <1>2, <1>3, <1>4, <1>5, StructureInvariant, BalancedInvariant, PTL DEF Spec

(* Such a run decodes, for every circuit and every input, what the circuit *)
(* computes when it is run directly, with no wires, credits or templates:  *)
(* neither the slots that are used again, nor the wires that have several  *)
(* names, nor the templates that were evicted change a value.              *)
THEOREM ComputesTheCircuit == Spec /\ []CreditsFit => []OutputsCorrect
<1>1. Init => Structure /\ Exact /\ Held
  BY StructureInit, ExactInit, HeldInit
<1>2. Structure /\ Structure' /\ Exact /\ CountsHeld' /\ [Next]_vars => Exact'
  BY ExactStep
<1>3. Structure /\ Structure' /\ Exact /\ Held /\ CreditsHeld' /\ [Next]_vars => Held'
  BY HeldStep
<1>4. Structure /\ CreditsFit => CreditsHeld /\ CountsHeld
  BY CreditsAre DEF CreditsHeld
<1>5. Structure /\ Held => OutputsCorrect
  BY HeldDecides
<1> QED BY <1>1, <1>2, <1>3, <1>4, <1>5, StructureInvariant, PTL DEF Spec
==============================================================================
