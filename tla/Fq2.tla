---------------------------------- MODULE Fq2 ---------------------------------
(***************************************************************************)
(* src/gadgets/bn254/fq2.rs: pairs c0 + c1 u over Fq with u^2 = -1.        *)
(***************************************************************************)
EXTENDS Integers, Sequences, Eagerly

CONSTANTS MODULUS, N_BITS, R_INVERSE, InverseOfZero

Fq == INSTANCE Fq

(* ark_bn254::Fq2, off the circuit.                                        *)
ZERO == <<0, 0>>
ONE == <<1, 0>>
ark_add(a, b) == <<Fq!ark_add(a[1], b[1]), Fq!ark_add(a[2], b[2])>>
ark_neg(a) == <<Fq!ark_neg(a[1]), Fq!ark_neg(a[2])>>
ark_mul(a, b) ==
  <<Fq!ark_add(Fq!ark_mul(a[1], b[1]), Fq!ark_neg(Fq!ark_mul(a[2], b[2]))),
    Fq!ark_add(Fq!ark_mul(a[1], b[2]), Fq!ark_mul(a[2], b[1]))>>
ark_power(a, n) ==
  LET power[k \in Nat] ==
        IF k = 0 THEN ONE
        ELSE LET h == power[k \div 2]
                 square == OnValues(ark_mul, h, h)
             IN IF k % 2 = 0 THEN square ELSE OnValues(ark_mul, a, square)
  IN power[n]
ark_conjugate(a) == <<a[1], Fq!ark_neg(a[2])>>   \* the power MODULUS
ark_inverse(a) ==
  LET norm == Fq!ark_inverse(ark_mul(a, ark_conjugate(a))[1])
  IN ark_mul(ark_conjugate(a), <<norm, 0>>)

as_montgomery(a) == <<Fq!as_montgomery(a[1]), Fq!as_montgomery(a[2])>>
from_montgomery(a) == <<Fq!from_montgomery(a[1]), Fq!from_montgomery(a[2])>>

-------------------------------------------------------------------------------
equal_constant(a, b) == Fq!equal_constant(a[1], b[1]) /\ Fq!equal_constant(a[2], b[2])
add(a, b) == <<Fq!add(a[1], b[1]), Fq!add(a[2], b[2])>>
add_constant(a, b) == <<Fq!add_constant(a[1], b[1]), Fq!add_constant(a[2], b[2])>>
neg(a) == <<Fq!neg(a[1]), Fq!neg(a[2])>>
sub(a, b) == <<Fq!sub(a[1], b[1]), Fq!sub(a[2], b[2])>>
double(a) == <<Fq!double(a[1]), Fq!double(a[2])>>
half(a) == <<Fq!half(a[1]), Fq!half(a[2])>>
triple(a) == add(a, double(a))
div6(a) == <<Fq!div6(a[1]), Fq!div6(a[2])>>

(* Mutant: the product of the parts is not taken off.                      *)
KaratsubaKeepsA1B1(a0_b0, a1_b1, sum_prod) ==
  <<Fq!sub(a0_b0, a1_b1), Fq!sub(sum_prod, a0_b0)>>
Karatsuba(a0_b0, a1_b1, sum_prod) ==
  <<Fq!sub(a0_b0, a1_b1), Fq!sub(sum_prod, Fq!add(a0_b0, a1_b1))>>

mul_montgomery(a, b) ==
  Karatsuba(Fq!mul_montgomery(a[1], b[1]), Fq!mul_montgomery(a[2], b[2]),
            Fq!mul_montgomery(Fq!add(a[1], a[2]), Fq!add(b[1], b[2])))

(* The short cut compares with the number one, while the other constants   *)
(* arrive in Montgomery form.                                              *)
mul_by_constant_montgomery(a, b) ==
  IF b = ONE THEN a
  ELSE Karatsuba(Fq!mul_by_constant_montgomery(a[1], b[1]),
                 Fq!mul_by_constant_montgomery(a[2], b[2]),
                 Fq!mul_by_constant_montgomery(Fq!add(a[1], a[2]), Fq!ark_add(b[1], b[2])))

mul_by_fq_montgomery(a, b) ==
  <<Fq!mul_montgomery(a[1], b), Fq!mul_montgomery(a[2], b)>>
mul_by_constant_fq_montgomery(a, b) ==
  <<Fq!mul_by_constant_montgomery(a[1], b), Fq!mul_by_constant_montgomery(a[2], b)>>
mul_constant_by_fq_montgomery(a, b) ==
  <<Fq!mul_by_constant_montgomery(b, a[1]), Fq!mul_by_constant_montgomery(b, a[2])>>

(* Times 9 + u.                                                            *)
mul_by_nonresidue(a) ==
  LET a0_9 == Fq!triple(Fq!triple(a[1]))
      a1_9 == Fq!triple(Fq!triple(a[2]))
  IN <<Fq!sub(a0_9, a[2]), Fq!add(a1_9, a[1])>>

square_montgomery(a) ==
  <<Fq!mul_montgomery(Fq!add(a[1], a[2]), Fq!sub(a[1], a[2])),
    Fq!double(Fq!mul_montgomery(a[1], a[2]))>>

norm_montgomery(c0, c1) == Fq!add(Fq!square_montgomery(c0), Fq!square_montgomery(c1))

inverse_montgomery(a) ==
  LET inverse_norm == Fq!inverse_montgomery(norm_montgomery(a[1], a[2]))
  IN <<Fq!mul_montgomery(a[1], inverse_norm),
       Fq!mul_montgomery(Fq!neg(a[2]), inverse_norm)>>

(* FROBENIUS_COEFF_FP2_C1: (-1)^i.                                         *)
frobenius_montgomery(a, i) ==
  LET coef == IF i % 2 = 0 THEN 1 ELSE MODULUS - 1
  IN <<a[1], Fq!mul_by_constant_montgomery(a[2], Fq!as_montgomery(coef))>>

(* The complex method; the root must exist.                                *)
sqrt_c1_zero_montgomery(a, is_qr) ==
  IF is_qr THEN <<Fq!sqrt_montgomery(a[1]), 0>>
  ELSE <<0, Fq!sqrt_montgomery(Fq!neg(a[1]))>>

RootOf(delta, alpha_sqrt) ==
  IF Fq!is_qnr_montgomery(delta) THEN Fq!sub(delta, alpha_sqrt) ELSE delta

sqrt_general_montgomery(a) ==
  LET alpha_sqrt == OnValue(Fq!sqrt_montgomery, norm_montgomery(a[1], a[2]))
      delta == Fq!half(Fq!add(alpha_sqrt, a[1]))
      c0 == OnValue(Fq!sqrt_montgomery, OnValues(RootOf, delta, alpha_sqrt))
  IN <<c0, OnValues(Fq!mul_montgomery, Fq!inverse_montgomery(c0), Fq!half(a[2]))>>
===============================================================================
