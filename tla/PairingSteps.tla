------------------------------ MODULE PairingSteps ----------------------------
(***************************************************************************)
(* The Miller loops and the final exponentiation of src/gadgets/bn254      *)
(* (pairing.rs, final_exponentiation.rs) in the order the circuit streams  *)
(* them, over some arithmetic.  The lines of every pair are computed first,*)
(* then the loop takes them up one by one, then the Miller value is raised *)
(* to the final power.                                                     *)
(***************************************************************************)
EXTENDS Integers, Sequences, SequencesExt, Eagerly

CONSTANTS
  ONE, mul(_, _), square(_), inverse(_), conjugate(_), frobenius(_, _),
  exp_by_neg_x(_),
  ell(_, _, _),                   \* `f` times a line at P
  ell_const(_, _, _),             \* the same with a constant line
  double_in_place(_), add_in_place(_, _), minus(_), mul_by_char(_),
  ell_coeffs(_),                  \* all lines of a constant Q
  ATE_LOOP_COUNT                  \* signed digits, lowest first

VARIABLES
  pairs,   \* sequence of [p, q, constant]: what is paired
  lines,   \* for each pair begun, its lines so far
  r,       \* the point that is doubled and added to on the way
  pc,      \* [phase, step], step counting within the phase
  next,    \* the line the loop takes next, and of which pair
  f,       \* the Miller value, then `r` of the final exponentiation
  y        \* its intermediate powers, by the code's names
vars == <<pairs, lines, r, pc, next, f, y>>

-------------------------------------------------------------------------------
(* The order of the Miller loop's steps depends on the digits of the loop  *)
(* count alone.                                                            *)
top == Len(ATE_LOOP_COUNT)
Digits == [n \in 1 .. top - 1 |-> ATE_LOOP_COUNT[top - n]]   \* below the top one

(* What is done to R, in order: a doubling for every digit, an addition    *)
(* for one that is not zero, and two images of Q under Frobenius.          *)
LineSteps ==
  FlattenSeq([n \in 1 .. top - 1 |->
    CASE Digits[n] = 0 -> <<"double">>
      [] Digits[n] = 1 -> <<"double", "add q">>
      [] Digits[n] = -1 -> <<"double", "add -q">>]) \o <<"add q1", "add -q2">>

(* What is done to f: one line of each pair or two for every digit, after  *)
(* a squaring for all but the first, and two lines at the end.             *)
LoopSteps ==
  FlattenSeq([n \in 1 .. top - 1 |->
    (IF n = 1 THEN <<>> ELSE <<"square">>) \o
    (IF Digits[n] = 0 THEN <<"line">> ELSE <<"line", "line">>)]) \o <<"line", "line">>

-------------------------------------------------------------------------------
Powers == {"y1", "y3", "y4", "y6", "y10", "y11", "y13", "y17"}
Init ==
  /\ lines = <<>> /\ r = <<>> /\ pc = [phase |-> "lines", step |-> 0]
  /\ next = [line |-> 1, pair |-> 1] /\ f = ONE
  /\ y = [name \in Powers |-> ONE]

At(phase) == pc.phase = phase
Pair == pairs[Len(lines)]   \* whose lines are being computed

(* The lines of the next pair: at once for a constant, from Q otherwise.   *)
StartPair ==
  /\ At("lines") /\ pc.step = 0 /\ Len(lines) < Len(pairs)
  /\ LET q == pairs[Len(lines) + 1].q
     IN IF pairs[Len(lines) + 1].constant
        THEN lines' = Append(lines, ell_coeffs(q)) /\ UNCHANGED <<r, pc>>
        ELSE lines' = Append(lines, <<>>) /\ r' = q /\ pc' = [pc EXCEPT !.step = 1]
  /\ UNCHANGED <<pairs, next, f, y>>

(* Mutant: a digit -1 adds Q as a digit 1 does.                            *)
SummandUnsigned(step) ==
  CASE step \in {"add q", "add -q"} -> Pair.q
    [] step = "add q1" -> mul_by_char(Pair.q)
    [] step = "add -q2" -> minus(mul_by_char(mul_by_char(Pair.q)))
Summand(step) ==
  CASE step = "add q" -> Pair.q
    [] step = "add -q" -> minus(Pair.q)
    [] step = "add q1" -> mul_by_char(Pair.q)
    [] step = "add -q2" -> minus(mul_by_char(mul_by_char(Pair.q)))

ComputeLine ==
  /\ At("lines") /\ pc.step > 0
  /\ LET step == LineSteps[pc.step]
         new == IF step = "double" THEN double_in_place(r) ELSE add_in_place(r, Summand(step))
     IN r' = new.r /\ lines' = [lines EXCEPT ![Len(lines)] = Append(@, new.line)]
  /\ pc' = [pc EXCEPT !.step = IF @ = Len(LineSteps) THEN 0 ELSE @ + 1]
  /\ UNCHANGED <<pairs, next, f, y>>

EndOfLines ==
  /\ At("lines") /\ pc.step = 0 /\ Len(lines) = Len(pairs)
  /\ pc' = [phase |-> "loop", step |-> 1]
  /\ UNCHANGED <<pairs, lines, r, next, f, y>>

AfterLoopStep ==
  pc' = IF pc.step = Len(LoopSteps) THEN [phase |-> "easy", step |-> 1]
        ELSE [pc EXCEPT !.step = @ + 1]

Square ==
  /\ At("loop") /\ LoopSteps[pc.step] = "square"
  /\ f' = square(f) /\ AfterLoopStep
  /\ UNCHANGED <<pairs, lines, r, next, y>>

(* The next line of one pair; after the last pair every iterator moves on. *)
TakeLine ==
  /\ At("loop") /\ LoopSteps[pc.step] = "line"
  /\ LET line == lines[next.pair][next.line]
         pair == pairs[next.pair]
     IN f' = IF pair.constant THEN ell_const(f, line, pair.p) ELSE ell(f, line, pair.p)
  /\ IF next.pair < Len(pairs)
     THEN next' = [next EXCEPT !.pair = @ + 1] /\ UNCHANGED pc
     ELSE next' = [line |-> next.line + 1, pair |-> 1] /\ AfterLoopStep
  /\ UNCHANGED <<pairs, lines, r, y>>

times(a, b) == OnValues(mul, a, b)

(* The easy part, the powers of p^6 - 1 and of p^2 + 1.                    *)
EasyPart ==
  /\ At("easy")
  /\ f' = OnValue(LAMBDA u : times(frobenius(u, 2), u), times(inverse(f), conjugate(f)))
  /\ pc' = [phase |-> "hard", step |-> 1]
  /\ UNCHANGED <<pairs, lines, r, next, y>>

(* The hard part: an addition chain in x, whose powers get their values in *)
(* order.                                                                  *)
Chain(step) ==
  CASE step = 1 -> [y EXCEPT !.y1 = OnValue(square, exp_by_neg_x(f))]
    [] step = 2 -> [y EXCEPT !.y3 = times(y.y1, square(y.y1))]
    [] step = 3 -> [y EXCEPT !.y4 = exp_by_neg_x(y.y3)]
    [] step = 4 -> [y EXCEPT !.y6 = OnValue(exp_by_neg_x, square(y.y4))]
    [] step = 5 -> [y EXCEPT !.y10 = times(times(conjugate(y.y6), y.y4), conjugate(y.y3))]
    [] step = 6 -> [y EXCEPT !.y11 = times(y.y10, y.y1), !.y13 = times(times(y.y10, y.y4), f)]
    [] step = 7 -> [y EXCEPT !.y17 = times(frobenius(y.y10, 2),
                                           times(frobenius(y.y11, 1), y.y13))]
HardPart ==
  /\ At("hard") /\ pc.step < 8
  /\ y' = Chain(pc.step) /\ pc' = [pc EXCEPT !.step = @ + 1]
  /\ UNCHANGED <<pairs, lines, r, next, f>>
LastPower ==
  /\ At("hard") /\ pc.step = 8
  /\ f' = times(frobenius(times(conjugate(f), y.y11), 3), y.y17)
  /\ pc' = [phase |-> "done", step |-> 0]
  /\ UNCHANGED <<pairs, lines, r, next, y>>

Next ==
  \/ StartPair \/ ComputeLine \/ EndOfLines
  \/ Square \/ TakeLine
  \/ EasyPart \/ HardPart \/ LastPower
Spec == Init /\ [][Next]_vars
===============================================================================
