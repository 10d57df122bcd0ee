---------------------------------- MODULE Fr ----------------------------------
(***************************************************************************)
(* src/gadgets/bn254/fr.rs: the scalar field, on wires.  Its methods are   *)
(* those of the trait, whose own constants are of the base field FQ;       *)
(* `add_constant` and `equal_constant` go to the integers instead.         *)
(***************************************************************************)
EXTENDS BigInt

CONSTANTS N_BITS, FR, FQ

Fp254Impl == INSTANCE Fp254Impl WITH MODULUS <- FR

new_constant(u) == Fp254Impl!new_constant(u)
fr_add(a, b) == Fp254Impl!fp_add(a, b)
fr_add_constant(a, b) == add_constant(a, b)   \* the carry is a wire of its own
fr_neg(a) == Fp254Impl!fp_neg(a)
fr_sub(a, b) == Fp254Impl!fp_sub(a, b)
fr_double(a) == Fp254Impl!fp_double(a)
fr_half(a) == Fp254Impl!fp_half(a)
fr_triple(a) == Fp254Impl!fp_triple(a)
fr_div6(a) == Fp254Impl!fp_div6(a)
fr_inverse(a) == Fp254Impl!fp_inverse(a)
fr_as_montgomery(a) == (a * Fp254Impl!R) % FR
fr_mul_montgomery(a, b) == Fp254Impl!fp_mul_montgomery(a, b)
fr_mul_by_constant_montgomery(a, b) ==
  fr_mul_montgomery(a, new_constant(fr_as_montgomery(b)))
fr_equal_constant(a, b) == equal_constant(a, b)
===============================================================================
