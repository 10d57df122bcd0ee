----------------------------- MODULE Groth16Circuit ---------------------------
(***************************************************************************)
(* The pairing gadgets and the Groth16 verifier of src/gadgets on whole    *)
(* inputs: a task is chosen, its pairs are made, and the circuit runs over *)
(* them gadget after gadget in Montgomery form (Circuit).  The same steps  *)
(* in the arithmetic of ark_bn254 are Ark, which Circuit implements.       *)
(*                                                                         *)
(* A point is known by its discrete logarithm, which tells what its        *)
(* pairings are and whether a proof is one.                                *)
(***************************************************************************)
EXTENDS Fq, Sequences, Eagerly

CONSTANTS
  X, COEFF_B_G1, COEFF_B_G2,   \* of ark_bn254
  ATE_LOOP_COUNT,              \* its signed digits, lowest first
  Order, G1Generator, G2Generator,
  GeneratorPairing,        \* of the two generators, by ark_bn254
  W,
  VerifyingKey,            \* logarithms: alpha, beta, gamma, delta, gamma_abc
  Statements,              \* [public, b, c]: a proof is completed by its a
  Slips,                   \* what is changed in a proof afterwards
  PairingTasks             \* [kind, points]: pairs of logarithms

Fq2 == INSTANCE Fq2
Fq6 == INSTANCE Fq6
Fq12 == INSTANCE Fq12
G1 == INSTANCE G1
G2 == INSTANCE G2
Groth16 == INSTANCE Groth16

VARIABLES
  task,        \* what is computed
  accepted,    \* the verifier's output wire, once it has its value
  pairs, lines, r, pc, next, f, y   \* see PairingSteps

(* TWIST_MUL_BY_Q_X and _Y of ark_bn254.                                   *)
TWIST_MUL_BY_Q_X == Fq2!ark_power(Fq6!NONRESIDUE, (MODULUS - 1) \div 3)
TWIST_MUL_BY_Q_Y == Fq2!ark_power(Fq6!NONRESIDUE, (MODULUS - 1) \div 2)

-------------------------------------------------------------------------------
(* The steps on R and Q, off the circuit and on wires.                     *)
ark_sub(a, b) == Fq2!ark_add(a, Fq2!ark_neg(b))
ark_half(a) == Fq2!ark_mul(a, <<(MODULUS + 1) \div 2, 0>>)
ark_triple(a) == Fq2!ark_add(a, Fq2!ark_add(a, a))
ark_square(a) == Fq2!ark_mul(a, a)
ark_times_b(a) == Fq2!ark_mul(COEFF_B_G2, a)
ark_mul_by_q_x(a) == Fq2!ark_mul(a, TWIST_MUL_BY_Q_X)
ark_mul_by_q_y(a) == Fq2!ark_mul(a, TWIST_MUL_BY_Q_Y)
NativeLines == INSTANCE Lines WITH
  add <- Fq2!ark_add, sub <- ark_sub, neg <- Fq2!ark_neg, half <- ark_half,
  triple <- ark_triple, mul <- Fq2!ark_mul, square <- ark_square,
  frobenius <- Fq2!ark_conjugate, times_b <- ark_times_b,
  mul_by_q_x <- ark_mul_by_q_x, mul_by_q_y <- ark_mul_by_q_y

times_b(a) == Fq2!mul_by_constant_montgomery(a, Fq2!as_montgomery(COEFF_B_G2))
frobenius1(a) == Fq2!frobenius_montgomery(a, 1)
mul_by_q_x(a) == Fq2!mul_by_constant_montgomery(a, Fq2!as_montgomery(TWIST_MUL_BY_Q_X))
mul_by_q_y(a) == Fq2!mul_by_constant_montgomery(a, Fq2!as_montgomery(TWIST_MUL_BY_Q_Y))
WireLines == INSTANCE Lines WITH
  add <- Fq2!add, sub <- Fq2!sub, neg <- Fq2!neg, half <- Fq2!half,
  triple <- Fq2!triple, mul <- Fq2!mul_montgomery, square <- Fq2!square_montgomery,
  frobenius <- frobenius1, times_b <- times_b

(* A line at P times `f`: `ell_montgomery`, and `ell_by_constant_montgomery`*)
(* or `ell_eval_const` for a line that is known off the circuit.           *)
ell_montgomery(v, line, p) ==
  Fq12!mul_by_034_montgomery(v, Fq2!mul_by_fq_montgomery(line[1], p[2]),
                             Fq2!mul_by_fq_montgomery(line[2], p[1]), line[3])

(* Mutant: the last coefficient stays in standard form.                    *)
ell_by_standard_constant(v, line, p) ==
  LET c == Fq6!as_montgomery(line)
  IN Fq12!mul_by_034_constant4_montgomery(v, Fq2!mul_constant_by_fq_montgomery(c[1], p[2]),
       Fq2!mul_constant_by_fq_montgomery(c[2], p[1]), line[3])
ell_by_constant_montgomery(v, line, p) ==
  LET c == Fq6!as_montgomery(line)
  IN Fq12!mul_by_034_constant4_montgomery(v, Fq2!mul_constant_by_fq_montgomery(c[1], p[2]),
       Fq2!mul_constant_by_fq_montgomery(c[2], p[1]), c[3])
ark_ell(v, line, p) ==
  Fq12!ark_mul(v, <<<<Fq2!ark_mul(line[1], <<p[2], 0>>), Fq2!ZERO, Fq2!ZERO>>,
                    <<Fq2!ark_mul(line[2], <<p[1], 0>>), line[3], Fq2!ZERO>> >>)

(* src/gadgets/bn254/final_exponentiation.rs: powers to the parameter X of *)
(* the curve, natively and as a gadget.                                    *)
(* `find_naf` of ark_ff: signed digits, lowest first.                      *)
find_naf(n) ==
  LET naf[k \in Nat] ==
        IF k = 0 THEN <<>>
        ELSE LET digit == IF k % 2 = 0 THEN 0 ELSE 2 - (k % 4)
             IN <<digit>> \o naf[(k - digit) \div 2]
  IN naf[n]

(* From the top digit down.  The first digit is one, so that `res` is not  *)
(* one when it is first squared.                                           *)
cyclotomic_exp_fast_inverse_montgomery_fast(a) ==
  LET naf == find_naf(X)
      times(digit, square) ==
        CASE digit = 0 -> square
          [] digit > 0 -> OnValues(Fq12!mul_montgomery, square, a)
          [] digit < 0 -> OnValues(Fq12!mul_montgomery, square, Fq12!inverse_montgomery(a))
      res[i \in 1 .. Len(naf)] ==   \* after the digits from i up
        IF i = Len(naf) THEN times(naf[i], Fq12!new_constant(Fq12!ONE))
        ELSE OnValue(LAMBDA before :
                       times(naf[i], Fq12!cyclotomic_square_montgomery(before)),
                     res[i + 1])
  IN res[1]
exp_by_neg_x_montgomery(a) ==
  Fq12!conjugate(cyclotomic_exp_fast_inverse_montgomery_fast(a))

(* Binary, off the circuit.                                                *)
exp_by_neg_x_native(a) == Fq12!ark_conjugate(Fq12!ark_power(a, X))

Circuit == INSTANCE PairingSteps WITH
  ONE <- Fq12!new_constant(Fq12!ONE), mul <- Fq12!mul_montgomery,
  square <- Fq12!square_montgomery, inverse <- Fq12!inverse_montgomery,
  conjugate <- Fq12!conjugate, frobenius <- Fq12!frobenius_montgomery,
  exp_by_neg_x <- exp_by_neg_x_montgomery,
  ell <- ell_montgomery, ell_const <- ell_by_constant_montgomery,
  double_in_place <- WireLines!double_in_place, add_in_place <- WireLines!add_in_place,
  minus <- WireLines!minus, mul_by_char <- WireLines!mul_by_char,
  ell_coeffs <- NativeLines!ell_coeffs

-------------------------------------------------------------------------------
(* The points of a proof, and its pairs as the verifier makes them.        *)
G1Of(n) == G1!Jacobian!Times(n % Order, G1Generator)
G2Of(n) == G2!Jacobian!Times(n % Order, G2Generator)
vk == [gamma_g2 |-> G2Of(VerifyingKey.gamma), delta_g2 |-> G2Of(VerifyingKey.delta),
       gamma_abc_g1 |-> [i \in DOMAIN VerifyingKey.gamma_abc |->
                           G1Of(VerifyingKey.gamma_abc[i])]]
ark_pairing(n) == Fq12!ark_power(GeneratorPairing, n % Order)

Product(m, n) ==   \* of logarithms, in two parts
  (((m * (n \div 256)) % Order) * 256 + m * (n % 256)) % Order
(* The right side of the equation, less alpha beta, in logarithms.         *)
Msm(public) ==
  LET sum[i \in 0 .. Len(public)] ==
        IF i = 0 THEN VerifyingKey.gamma_abc[1]
        ELSE sum[i - 1] + public[i] * VerifyingKey.gamma_abc[i + 1]
  IN sum[Len(public)]
Right(s) ==
  (VerifyingKey.alpha * VerifyingKey.beta + VerifyingKey.gamma * Msm(s.public)
   + VerifyingKey.delta * s.c) % Order
Complete(s) ==
  [public |-> s.public, b |-> s.b, c |-> s.c,
   a |-> CHOOSE a \in 0 .. Order - 1 : Product(a, s.b) = Right(s)]
Valid(s) == Product(s.a, s.b) = Right(s)
Slip(s, slip) ==
  CASE slip = "none" -> s
    [] slip = "a" -> [s EXCEPT !.a = (@ + 1) % Order]
    [] slip = "-a" -> [s EXCEPT !.a = Order - @]
    [] slip = "b" -> [s EXCEPT !.b = @ + 1]
    [] slip = "c" -> [s EXCEPT !.c = @ + 1]
    [] slip = "public" -> [s EXCEPT !.public = [i \in DOMAIN @ |-> @[i] + 1]]
    [] slip = "-a, -b" -> [s EXCEPT !.a = Order - @, !.b = Order - @]

ProofPairs(s, compressed) ==
  LET proof == [public |-> s.public, a |-> G1Of(s.a), b |-> G2Of(s.b), c |-> G1Of(s.c)]
  IN IF compressed
     THEN OnValues(Groth16!VerifierPairs,
                   OnValue(Groth16!decompress, OnValue(Groth16!encode_compressed, proof)), vk)
     ELSE OnValues(Groth16!VerifierPairs, OnValue(Groth16!encode, proof), vk)

(* The pairs of the other loops: P on wires with some z, which the loops   *)
(* with a constant Q bring to one unless they are the affine ones, and     *)
(* which is one already for the others.                                    *)
LoopPairs(t) ==
  [i \in DOMAIN t.points |->
     LET p == G1!Jacobian!Projective(G1Of(t.points[i][1]))
         q == Append(G2Of(t.points[i][2]), Fq2!ONE)
     IN CASE t.kind = "const_q" ->
               [p |-> Groth16!projective_to_affine_montgomery(
                        G1!as_montgomery(G1!Jacobian!Rescaled(p, 7))),
                q |-> q, constant |-> TRUE]
          [] t.kind = "const_q_affine" ->
               [p |-> G1!as_montgomery(p), q |-> q, constant |-> TRUE]
          [] t.kind = "fast" ->
               [p |-> G1!as_montgomery(p), q |-> G2!as_montgomery(q), constant |-> FALSE]]

ProofTasks ==
  {[kind |-> "groth16", proof |-> Slip(Complete(s), slip), compressed |-> compressed] :
     s \in Statements, slip \in Slips, compressed \in BOOLEAN}

-------------------------------------------------------------------------------
Init ==
  /\ task \in ProofTasks \union PairingTasks
  /\ accepted = "not yet"
  /\ pairs = IF task.kind = "groth16" THEN ProofPairs(task.proof, task.compressed)
             ELSE LoopPairs(task)
  /\ Circuit!Init

Pair == Circuit!Next /\ UNCHANGED <<task, accepted>>

(* `equal_constant` with the inverse of the pairing of alpha and -beta.    *)
Compare ==
  /\ pc.phase = "done" /\ task.kind = "groth16" /\ accepted = "not yet"
  /\ LET alpha_beta == ark_pairing(VerifyingKey.alpha * VerifyingKey.beta)
     IN accepted' = IF Fq12!equal_constant(f, Fq12!as_montgomery(alpha_beta))
                    THEN "yes" ELSE "no"
  /\ UNCHANGED <<task, pairs, lines, r, pc, next, f, y>>

Next == Pair \/ Compare
Spec == Init /\ [][Next]_<<task, accepted, pairs, lines, r, pc, next, f, y>>

-------------------------------------------------------------------------------
(* What the wires stand for.                                               *)
PointOf(p, from(_)) == [i \in 1 .. Len(p) |-> from(p[i])] \o <<>>
pairsOf ==
  [i \in DOMAIN pairs |->
     [pairs[i] EXCEPT !.p = PointOf(@, from_montgomery),
                      !.q = IF pairs[i].constant THEN @
                            ELSE PointOf(@, Fq2!from_montgomery)]] \o <<>>
linesOf ==
  [i \in DOMAIN lines |->
     IF pairs[i].constant THEN lines[i]
     ELSE [n \in DOMAIN lines[i] |-> Fq6!from_montgomery(lines[i][n])] \o <<>>] \o <<>>
ark_square12(a) == Fq12!ark_mul(a, a)
Ark == INSTANCE PairingSteps WITH
  ONE <- Fq12!ONE, mul <- Fq12!ark_mul, square <- ark_square12,
  inverse <- Fq12!ark_inverse, conjugate <- Fq12!ark_conjugate,
  frobenius <- Fq12!ark_frobenius,
  exp_by_neg_x <- exp_by_neg_x_native,
  ell <- ark_ell, ell_const <- ark_ell,
  double_in_place <- NativeLines!double_in_place, add_in_place <- NativeLines!add_in_place,
  minus <- NativeLines!minus, mul_by_char <- NativeLines!mul_by_char,
  ell_coeffs <- NativeLines!ell_coeffs,
  pairs <- pairsOf, lines <- linesOf, r <- PointOf(r, Fq2!from_montgomery),
  f <- Fq12!from_montgomery(f), y <- [name \in DOMAIN y |-> Fq12!from_montgomery(y[name])]

(* Every gadget the pairing calls, on the values it is called with there,  *)
(* takes the step that ark_bn254 takes off the circuit: the circuit on     *)
(* Montgomery wires, with constants mixed in and second zeros about,       *)
(* implements the same loop and chain over the tower of fields.            *)
ImplementsArk == Ark!Spec

IsMultipleOfG2(p, log) ==   \* a point in homogeneous coordinates
  IF log = 0 THEN p[3] = Fq2!ZERO
  ELSE G2Of(log) = [i \in 1 .. 2 |-> Fq2!ark_mul(p[i], Fq2!ark_inverse(p[3]))]

(* The multiple that n steps make.                                         *)
LogAfter(steps, n) ==
  LET p == MODULUS % Order
      log[k \in 0 .. n] ==
        IF k = 0 THEN 1
        ELSE CASE steps[k] = "double" -> 2 * log[k - 1]
               [] steps[k] = "add q" -> log[k - 1] + 1
               [] steps[k] = "add -q" -> log[k - 1] - 1
               [] steps[k] = "add q1" -> log[k - 1] + p
               [] steps[k] = "add -q2" -> log[k - 1] - p * p
  IN log[n]
LogOfR == LogAfter(Circuit!LineSteps, Len(lines[Len(lines)]))
LogOfQ == IF task.kind = "groth16" THEN task.proof.b ELSE task.points[Len(lines)][2]
(* R is the multiple of Q that the digits read so far make: in homogeneous *)
(* coordinates, on signed digits, and with the multiples p and -p^2 at the *)
(* end, which come from Frobenius and the twist's constants.               *)
RIsMultiple ==
  (lines # <<>> /\ ~pairs[Len(lines)].constant) =>
    IsMultipleOfG2(PointOf(r, Fq2!from_montgomery), Product(LogOfR % Order, LogOfQ))

(* The loops and the power make a bilinear pairing of any number of pairs, *)
(* the one of ark_bn254, and the verifier's wire is one exactly for the    *)
(* proofs for which the equation of Groth16 holds, sent compressed or not. *)
VerifiesExactly ==
  /\ accepted # "not yet" => (accepted = "yes" <=> Valid(task.proof))
  /\ (pc.phase = "done" /\ task.kind # "groth16") =>
       LET sum[i \in 0 .. Len(task.points)] ==
             IF i = 0 THEN 0 ELSE sum[i - 1] + Product(task.points[i][1], task.points[i][2])
       IN Fq12!from_montgomery(f) = ark_pairing(sum[Len(task.points)])
===============================================================================
