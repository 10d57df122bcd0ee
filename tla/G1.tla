---------------------------------- MODULE G1 ----------------------------------
(***************************************************************************)
(* src/gadgets/bn254/g1.rs: points over Fq.                                *)
(***************************************************************************)
EXTENDS Integers, Sequences

CONSTANTS MODULUS, N_BITS, R_INVERSE, InverseOfZero

Fq == INSTANCE Fq
Jacobian == INSTANCE Jacobian WITH
  add <- Fq!add, sub <- Fq!sub, double <- Fq!double, triple <- Fq!triple,
  mul <- Fq!mul_montgomery, square <- Fq!square_montgomery, ZERO <- 0, ONE <- 1,
  ark_add <- Fq!ark_add, ark_mul <- Fq!ark_mul, ark_neg <- Fq!ark_neg,
  ark_inverse <- Fq!ark_inverse, as_montgomery <- Fq!as_montgomery

(* Wires hold the Montgomery form of the coordinates.                      *)
as_montgomery(p) == Jacobian!point_as_montgomery(p)
from_montgomery(p) == [i \in 1 .. 3 |-> Fq!from_montgomery(p[i])]
new_constant(p) == p

add_montgomery(p, q) == Jacobian!point_add(p, q)
double_montgomery(p) == Jacobian!point_double(p)
neg(p) == <<p[1], Fq!neg(p[2]), p[3]>>

(* Mutant: the table is left in standard form, as g2.rs does.              *)
StandardConstant(p) == new_constant(p)
MontgomeryConstant(p) == new_constant(as_montgomery(p))

scalar_mul_by_constant_base_montgomery(W, s, base) ==
  Jacobian!scalar_mul_by_constant_base(W, s, base, MontgomeryConstant)
msm_with_constant_bases_montgomery(W, scalars, bases) ==
  IF scalars = <<>> THEN MontgomeryConstant(Jacobian!Projective(Jacobian!Infinity))
  ELSE Jacobian!msm([i \in 1 .. Len(scalars) |->
         scalar_mul_by_constant_base_montgomery(W, scalars[i], bases[i])])
===============================================================================
