---------------------------------- MODULE Fq12 --------------------------------
(***************************************************************************)
(* src/gadgets/bn254/fq12.rs: c0 + c1 w over Fq6 with w^2 = v.             *)
(***************************************************************************)
EXTENDS Integers, Sequences, Eagerly

CONSTANTS MODULUS, N_BITS, R_INVERSE, InverseOfZero

Fq6 == INSTANCE Fq6
Fq2 == INSTANCE Fq2

ONE == <<Fq6!ONE, Fq6!ZERO>>

(* ark_bn254::Fq12, off the circuit.                                       *)
ark_add(a, b) == <<Fq6!ark_add(a[1], b[1]), Fq6!ark_add(a[2], b[2])>>
ark_times_v(x) == <<Fq2!ark_mul(Fq6!NONRESIDUE, x[3]), x[1], x[2]>>
ark_mul(a, b) ==
  <<Fq6!ark_add(Fq6!ark_mul(a[1], b[1]), ark_times_v(Fq6!ark_mul(a[2], b[2]))),
    Fq6!ark_add(Fq6!ark_mul(a[1], b[2]), Fq6!ark_mul(a[2], b[1]))>>

ark_power(a, n) ==
  LET power[k \in Nat] ==
        IF k = 0 THEN ONE
        ELSE LET h == power[k \div 2]
                 square == OnValues(ark_mul, h, h)
             IN IF k % 2 = 0 THEN square ELSE OnValues(ark_mul, a, square)
  IN power[n]
ark_conjugate(a) == <<a[1], Fq6!ark_neg(a[2])>>
(* The power of p^i, coefficient by coefficient; a^-1 from its conjugates  *)
(* under the powers of p^2, whose product with a lies in Fq2.              *)
ark_frobenius(a, i) ==
  LET first == Fq2!ark_power(Fq6!NONRESIDUE, (MODULUS - 1) \div 6)
      once(b) ==
        [h \in 1 .. 2 |-> [j \in 1 .. 3 |->
           Fq2!ark_mul(Fq2!ark_conjugate(b[h][j]),
                       Fq2!ark_power(first, 2 * (j - 1) + h - 1))] \o <<>>] \o <<>>
      image[k \in Nat] == IF k = 0 THEN a ELSE once(image[k - 1])
  IN image[i]
ark_inverse(a) ==
  LET conjugates[k \in 0 .. 5] ==
        IF k = 0 THEN ONE ELSE ark_mul(conjugates[k - 1], ark_frobenius(a, 2 * k))
      norm == ark_mul(a, conjugates[5])[1][1]
  IN ark_mul(conjugates[5], <<<<Fq2!ark_inverse(norm), Fq2!ZERO, Fq2!ZERO>>, Fq6!ZERO>>)

as_montgomery(a) == <<Fq6!as_montgomery(a[1]), Fq6!as_montgomery(a[2])>>
from_montgomery(a) == <<Fq6!from_montgomery(a[1]), Fq6!from_montgomery(a[2])>>
new_constant(v) == as_montgomery(v)

-------------------------------------------------------------------------------
equal_constant(a, b) == Fq6!equal_constant(a[1], b[1]) /\ Fq6!equal_constant(a[2], b[2])
add(a, b) == <<Fq6!add(a[1], b[1]), Fq6!add(a[2], b[2])>>
neg(a) == <<Fq6!neg(a[1]), Fq6!neg(a[2])>>
sub(a, b) == <<Fq6!sub(a[1], b[1]), Fq6!sub(a[2], b[2])>>
double(a) == <<Fq6!double(a[1]), Fq6!double(a[2])>>

Karatsuba(a0_b0, a1_b1, sum_prod) ==
  <<Fq6!add(a0_b0, Fq6!mul_by_nonresidue(a1_b1)),
    Fq6!sub(sum_prod, Fq6!add(a0_b0, a1_b1))>>
mul_montgomery(a, b) ==
  Karatsuba(Fq6!mul_montgomery(a[1], b[1]), Fq6!mul_montgomery(a[2], b[2]),
            Fq6!mul_montgomery(Fq6!add(a[1], a[2]), Fq6!add(b[1], b[2])))
mul_by_constant_montgomery(a, b) ==
  Karatsuba(Fq6!mul_by_constant_montgomery(a[1], b[1]),
            Fq6!mul_by_constant_montgomery(a[2], b[2]),
            Fq6!mul_by_constant_montgomery(Fq6!add(a[1], a[2]), Fq6!ark_add(b[1], b[2])))

(* Times c0 + c3 w + c4 v w, as the lines of the Miller loop are; c0 = 1,  *)
(* all on wires, or c4 a constant.                                         *)
mul_by_34_montgomery(a, c3, c4) ==
  LET w1 == Fq6!mul_by_01_montgomery(a[2], c3, c4)
      c3_plus_1 == Fq2!add_constant(c3, Fq2!as_montgomery(Fq2!ONE))
      w5 == Fq6!mul_by_01_montgomery(Fq6!add(a[1], a[2]), c3_plus_1, c4)
  IN <<Fq6!add(Fq6!mul_by_nonresidue(w1), a[1]), Fq6!sub(w5, Fq6!add(w1, a[1]))>>

mul_by_034_montgomery(a, c0, c3, c4) ==
  LET w1 == Fq6!mul_by_01_montgomery(a[2], c3, c4)
      w3 == Fq6!mul_by_fq2_montgomery(a[1], c0)
      w6 == Fq6!mul_by_01_montgomery(Fq6!add(a[1], a[2]), Fq2!add(c3, c0), c4)
  IN <<Fq6!add(Fq6!mul_by_nonresidue(w1), w3), Fq6!sub(w6, Fq6!add(w1, w3))>>

mul_by_034_constant4_montgomery(a, c0, c3, c4) ==
  LET w1 == Fq6!mul_by_01_constant1_montgomery(a[2], c3, c4)
      w3 == Fq6!mul_by_fq2_montgomery(a[1], c0)
      w6 == Fq6!mul_by_01_constant1_montgomery(Fq6!add(a[1], a[2]), Fq2!add(c3, c0), c4)
  IN <<Fq6!add(Fq6!mul_by_nonresidue(w1), w3), Fq6!sub(w6, Fq6!add(w1, w3))>>

square_montgomery(a) ==
  LET w4 == Fq6!mul_montgomery(a[1], a[2])
      w5 == Fq6!mul_montgomery(Fq6!add(a[1], a[2]),
                               Fq6!add(a[1], Fq6!mul_by_nonresidue(a[2])))
  IN <<Fq6!sub(w5, Fq6!add(w4, Fq6!mul_by_nonresidue(w4))), Fq6!double(w4)>>

(* Granger and Scott: three squarings in a field of degree two over Fq2.   *)
(* The square of x + y s with s^2 the nonresidue, and 3 t - 2 c, 3 t + 2 c.*)
SquareOverFq2(x, y) ==
  LET xy == Fq2!mul_montgomery(x, y)
      product == Fq2!mul_montgomery(Fq2!add(x, y), Fq2!add(x, Fq2!mul_by_nonresidue(y)))
  IN <<Fq2!sub(product, Fq2!add(xy, Fq2!mul_by_nonresidue(xy))), Fq2!double(xy)>>
ThriceLess(t, c) == Fq2!add(Fq2!double(Fq2!sub(t, c)), t)
ThriceMore(t, c) == Fq2!add(Fq2!double(Fq2!add(t, c)), t)

cyclotomic_square_montgomery(a) ==
  LET s1 == SquareOverFq2(a[1][1], a[2][2])
      s2 == SquareOverFq2(a[2][1], a[1][3])
      s3 == SquareOverFq2(a[1][2], a[2][3])
      t5_beta == Fq2!mul_by_nonresidue(s3[2])
  IN <<<<ThriceLess(s1[1], a[1][1]), ThriceLess(s2[1], a[1][2]), ThriceLess(s3[1], a[1][3])>>,
       <<ThriceMore(t5_beta, a[2][1]), ThriceMore(s1[2], a[2][2]), ThriceMore(s2[2], a[2][3])>>>>

inverse_montgomery(a) ==
  LET norm == Fq6!sub(Fq6!square_montgomery(a[1]),
                      Fq6!mul_by_nonresidue(Fq6!square_montgomery(a[2])))
      inverse_norm == Fq6!inverse_montgomery(norm)
  IN <<Fq6!mul_montgomery(a[1], inverse_norm),
       Fq6!mul_montgomery(inverse_norm, Fq6!neg(a[2]))>>

(* FROBENIUS_COEFF_FP12_C1: the nonresidue to (p^i - 1) / 6.               *)
FROBENIUS_COEFF_FP12_C1(i) ==
  LET first == Fq2!ark_power(Fq6!NONRESIDUE, (MODULUS - 1) \div 6)
      coeff[k \in Nat] ==
        IF k = 0 THEN Fq2!ONE
        ELSE Fq2!ark_mul(Fq2!ark_conjugate(coeff[k - 1]), first)
  IN coeff[i % 12]
frobenius_montgomery(a, i) ==
  <<Fq6!frobenius_montgomery(a[1], i),
    Fq6!mul_by_constant_fq2_montgomery(Fq6!frobenius_montgomery(a[2], i),
                                       Fq2!as_montgomery(FROBENIUS_COEFF_FP12_C1(i)))>>

conjugate(a) == <<a[1], Fq6!neg(a[2])>>
===============================================================================
