---------------------------------- MODULE Fq6 ---------------------------------
(***************************************************************************)
(* src/gadgets/bn254/fq6.rs: c0 + c1 v + c2 v^2 over Fq2 with v^3 = 9 + u. *)
(***************************************************************************)
EXTENDS Integers, Sequences

CONSTANTS MODULUS, N_BITS, R_INVERSE, InverseOfZero

Fq2 == INSTANCE Fq2

ZERO == <<Fq2!ZERO, Fq2!ZERO, Fq2!ZERO>>
ONE == <<Fq2!ONE, Fq2!ZERO, Fq2!ZERO>>
Each(f(_), a) == <<f(a[1]), f(a[2]), f(a[3])>>
Both(f(_, _), a, b) == <<f(a[1], b[1]), f(a[2], b[2]), f(a[3], b[3])>>

(* ark_bn254::Fq6, off the circuit; products term by term.                 *)
NONRESIDUE == <<9, 1>>
ark_add(a, b) == Both(Fq2!ark_add, a, b)
ark_neg(a) == Each(Fq2!ark_neg, a)
ark_mul(a, b) ==
  LET term(i, j) == Fq2!ark_mul(a[i], b[j])
      above(x) == Fq2!ark_mul(NONRESIDUE, x)
  IN <<Fq2!ark_add(term(1, 1), above(Fq2!ark_add(term(2, 3), term(3, 2)))),
       Fq2!ark_add(Fq2!ark_add(term(1, 2), term(2, 1)), above(term(3, 3))),
       Fq2!ark_add(Fq2!ark_add(term(1, 3), term(2, 2)), term(3, 1))>>

as_montgomery(a) == Each(Fq2!as_montgomery, a)
from_montgomery(a) == Each(Fq2!from_montgomery, a)

-------------------------------------------------------------------------------
equal_constant(a, b) == \A i \in 1 .. 3 : Fq2!equal_constant(a[i], b[i])
add(a, b) == Both(Fq2!add, a, b)
neg(a) == Each(Fq2!neg, a)
sub(a, b) == Both(Fq2!sub, a, b)
double(a) == Each(Fq2!double, a)
triple(a) == Each(Fq2!triple, a)
div6(a) == Each(Fq2!div6, a)

(* The values of a polynomial at 0, 1, -1, 2 and infinity, on wires and    *)
(* off the circuit.                                                        *)
Values(a) ==
  LET outer == Fq2!add(a[1], a[3])
      four_c2 == Fq2!double(Fq2!double(a[3]))
  IN <<a[1], Fq2!add(outer, a[2]), Fq2!sub(outer, a[2]),
       Fq2!add(Fq2!add(a[1], Fq2!double(a[2])), four_c2), a[3]>>
ark_Values(b) ==
  LET twice(x) == Fq2!ark_add(x, x)
      outer == Fq2!ark_add(b[1], b[3])
  IN <<b[1], Fq2!ark_add(outer, b[2]), Fq2!ark_add(outer, Fq2!ark_neg(b[2])),
       Fq2!ark_add(Fq2!ark_add(b[1], twice(b[2])), twice(twice(b[3]))), b[3]>>

(* Six times the coefficients of the product with these values.            *)
Interpolate(v) ==
  LET v0_3 == Fq2!triple(v[1])
      v1_3 == Fq2!triple(v[2])
      v2_3 == Fq2!triple(v[3])
      v0_6 == Fq2!double(v0_3)
      v1_6 == Fq2!double(v1_3)
      v4_6 == Fq2!double(Fq2!triple(v[5]))
      v4_12 == Fq2!double(v4_6)
      cubic == Fq2!sub(Fq2!add(Fq2!sub(Fq2!sub(v0_3, v1_3), v[3]), v[4]), v4_12)
      linear == Fq2!add(Fq2!sub(Fq2!sub(Fq2!sub(v1_6, v0_3), Fq2!double(v[3])), v[4]),
                        v4_12)
  IN <<Fq2!add(Fq2!mul_by_nonresidue(cubic), v0_6),
       Fq2!add(linear, Fq2!mul_by_nonresidue(v4_6)),
       Fq2!sub(Fq2!add(Fq2!sub(v1_3, v0_6), v2_3), v4_6)>>

Products(mul(_, _), x, y) == [k \in 1 .. 5 |-> mul(x[k], y[k])] \o <<>>

mul_montgomery(a, b) ==
  div6(Interpolate(Products(Fq2!mul_montgomery, Values(a), Values(b))))
mul_by_constant_montgomery(a, b) ==
  div6(Interpolate(Products(Fq2!mul_by_constant_montgomery, Values(a), ark_Values(b))))

mul_by_fq2_montgomery(a, b) == Each(LAMBDA x : Fq2!mul_montgomery(x, b), a)
mul_by_constant_fq2_montgomery(a, b) ==
  Each(LAMBDA x : Fq2!mul_by_constant_montgomery(x, b), a)

mul_by_nonresidue(a) == <<Fq2!mul_by_nonresidue(a[3]), a[1], a[2]>>

(* Times c0 + c1 v: both on wires, or c1 a constant.                       *)
SparseProduct(a, a0_c0, a1_c1, a12_c1, a01_c01, a02_c0) ==
  <<Fq2!add(Fq2!mul_by_nonresidue(Fq2!sub(a12_c1, a1_c1)), a0_c0),
    Fq2!sub(Fq2!sub(a01_c01, a0_c0), a1_c1),
    Fq2!add(Fq2!sub(a02_c0, a0_c0), a1_c1)>>

mul_by_01_montgomery(a, c0, c1) ==
  SparseProduct(a, Fq2!mul_montgomery(a[1], c0), Fq2!mul_montgomery(a[2], c1),
    Fq2!mul_montgomery(Fq2!add(a[2], a[3]), c1),
    Fq2!mul_montgomery(Fq2!add(a[1], a[2]), Fq2!add(c0, c1)),
    Fq2!mul_montgomery(Fq2!add(a[1], a[3]), c0))

mul_by_01_constant1_montgomery(a, c0, c1) ==
  SparseProduct(a, Fq2!mul_montgomery(a[1], c0), Fq2!mul_by_constant_montgomery(a[2], c1),
    Fq2!mul_by_constant_montgomery(Fq2!add(a[2], a[3]), c1),
    Fq2!mul_montgomery(Fq2!add(a[1], a[2]), Fq2!add_constant(c0, c1)),
    Fq2!mul_montgomery(Fq2!add(a[1], a[3]), c0))

square_montgomery(a) ==
  LET outer == Fq2!add(a[1], a[3])
      s_0 == Fq2!square_montgomery(a[1])
      s_1 == Fq2!square_montgomery(Fq2!add(outer, a[2]))
      s_2 == Fq2!square_montgomery(Fq2!sub(outer, a[2]))
      s_3 == Fq2!double(Fq2!mul_montgomery(a[2], a[3]))
      s_4 == Fq2!square_montgomery(a[3])
      t_1 == Fq2!half(Fq2!add(s_1, s_2))
  IN <<Fq2!add(s_0, Fq2!mul_by_nonresidue(s_3)),
       Fq2!add(Fq2!sub(Fq2!sub(s_1, s_3), t_1), Fq2!mul_by_nonresidue(s_4)),
       Fq2!sub(Fq2!sub(t_1, s_0), s_4)>>

inverse_montgomery(r) ==
  LET a == r[1]
      b == r[2]
      c == r[3]
      times(x, y) == Fq2!mul_montgomery(x, y)
      c0 == Fq2!sub(Fq2!square_montgomery(a), Fq2!mul_by_nonresidue(times(b, c)))
      c1 == Fq2!sub(Fq2!mul_by_nonresidue(Fq2!square_montgomery(c)), times(a, b))
      c2 == Fq2!sub(Fq2!square_montgomery(b), times(a, c))
      norm == Fq2!add(times(a, c0),
                      Fq2!mul_by_nonresidue(Fq2!add(times(c1, c), times(c2, b))))
      inverse_norm == Fq2!inverse_montgomery(norm)
  IN <<times(c0, inverse_norm), times(c1, inverse_norm), times(c2, inverse_norm)>>

(* FROBENIUS_COEFF_FP6_C1 and _C2: the nonresidue to (p^i - 1) / 3, once   *)
(* and twice.  Each power of p moves the one before and adds a factor.     *)
FROBENIUS_COEFF_FP6_C1(i) ==
  LET first == Fq2!ark_power(NONRESIDUE, (MODULUS - 1) \div 3)
      coeff[k \in Nat] ==
        IF k = 0 THEN Fq2!ONE
        ELSE Fq2!ark_mul(Fq2!ark_conjugate(coeff[k - 1]), first)
  IN coeff[i % 6]
FROBENIUS_COEFF_FP6_C2(i) ==
  Fq2!ark_mul(FROBENIUS_COEFF_FP6_C1(i), FROBENIUS_COEFF_FP6_C1(i))

frobenius_montgomery(a, i) ==
  <<Fq2!frobenius_montgomery(a[1], i),
    Fq2!mul_by_constant_montgomery(Fq2!frobenius_montgomery(a[2], i),
                                   Fq2!as_montgomery(FROBENIUS_COEFF_FP6_C1(i))),
    Fq2!mul_by_constant_montgomery(Fq2!frobenius_montgomery(a[3], i),
                                   Fq2!as_montgomery(FROBENIUS_COEFF_FP6_C2(i)))>>
===============================================================================
