---------------------------------- MODULE G2 ----------------------------------
(***************************************************************************)
(* src/gadgets/bn254/g2.rs: points over Fq2.                               *)
(***************************************************************************)
EXTENDS Integers, Sequences

CONSTANTS MODULUS, N_BITS, R_INVERSE, InverseOfZero

Fq2 == INSTANCE Fq2
Jacobian == INSTANCE Jacobian WITH
  add <- Fq2!add, sub <- Fq2!sub, double <- Fq2!double, triple <- Fq2!triple,
  mul <- Fq2!mul_montgomery, square <- Fq2!square_montgomery, ZERO <- Fq2!ZERO, ONE <- Fq2!ONE,
  ark_add <- Fq2!ark_add, ark_mul <- Fq2!ark_mul, ark_neg <- Fq2!ark_neg,
  ark_inverse <- Fq2!ark_inverse, as_montgomery <- Fq2!as_montgomery

as_montgomery(p) == Jacobian!point_as_montgomery(p)
from_montgomery(p) == [i \in 1 .. 3 |-> Fq2!from_montgomery(p[i])]
new_constant(p) == p

add_montgomery(p, q) == Jacobian!point_add(p, q)
double_montgomery(p) == Jacobian!point_double(p)
neg(p) == <<p[1], Fq2!neg(p[2]), p[3]>>

(* Unlike g1.rs, the table is made of the points as they are.              *)
scalar_mul_by_constant_base_montgomery(W, s, base) ==
  Jacobian!scalar_mul_by_constant_base(W, s, base, new_constant)
msm_with_constant_bases_montgomery(W, scalars, bases) ==
  Jacobian!msm([i \in 1 .. Len(scalars) |->
    scalar_mul_by_constant_base_montgomery(W, scalars[i], bases[i])])
===============================================================================
