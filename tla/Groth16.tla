-------------------------------- MODULE Groth16 -------------------------------
(***************************************************************************)
(* src/gadgets/groth16.rs around its pairing: what a proof is encoded to,  *)
(* how compressed points come back, and which pairs the verifier hands to  *)
(* the Miller loop.  Points off the circuit are affine.                    *)
(***************************************************************************)
EXTENDS Integers, Sequences, Eagerly

CONSTANTS MODULUS, N_BITS, R_INVERSE, InverseOfZero,
          COEFF_B_G1, COEFF_B_G2,
          W                        \* window of the multi-scalar product: 10

Fq == INSTANCE Fq
Fq2 == INSTANCE Fq2
G1 == INSTANCE G1
G2 == INSTANCE G2

(* Square roots of ark_ff, off the circuit, of squares.                    *)
ark_sqrt(a) == Fq!ark_power(a, (MODULUS + 1) \div 4)
ark_is_square(a) == Fq!ark_power(a, (MODULUS - 1) \div 2) # MODULUS - 1
ark_sqrt2(a) ==
  LET half == Fq!ark_inverse(2)
      alpha == OnValue(ark_sqrt, Fq!ark_add(Fq!ark_mul(a[1], a[1]), Fq!ark_mul(a[2], a[2])))
      middle == Fq!ark_mul(Fq!ark_add(alpha, a[1]), half)
      delta == IF OnValue(ark_is_square, middle) THEN middle ELSE Fq!ark_add(middle, Fq!ark_neg(alpha))
      c0 == OnValue(ark_sqrt, delta)
  IN IF a[2] # 0
     THEN <<c0, Fq!ark_mul(Fq!ark_mul(a[2], half), Fq!ark_inverse(c0))>>
     ELSE IF ark_is_square(a[1]) THEN <<ark_sqrt(a[1]), 0>>
     ELSE <<0, ark_sqrt(Fq!ark_neg(a[1]))>>

-------------------------------------------------------------------------------
(* `encode`: a proof's wires, in Montgomery form with z = 1.               *)
encode(proof) ==
  [public |-> proof.public,
   a |-> G1!as_montgomery(G1!Jacobian!Projective(proof.a)),
   b |-> G2!as_montgomery(G2!Jacobian!Projective(proof.b)),
   c |-> G1!as_montgomery(G1!Jacobian!Projective(proof.c))]

(* The flag says whether y is the root that ark_ff finds for its square.   *)
compressed_g1(p) ==
  [x_m |-> Fq!as_montgomery(p[1]), y_flag |-> ark_sqrt(Fq!ark_mul(p[2], p[2])) = p[2]]
compressed_g2(p) ==
  [x_m |-> Fq2!as_montgomery(p[1]), y_flag |-> ark_sqrt2(Fq2!ark_mul(p[2], p[2])) = p[2]]
encode_compressed(proof) ==
  [public |-> proof.public, a |-> compressed_g1(proof.a),
   b |-> compressed_g2(proof.b), c |-> compressed_g1(proof.c)]

Select(y, neg_y, y_flag) == IF y_flag THEN y ELSE neg_y

decompress_g1_from_compressed(c) ==
  LET x3 == Fq!mul_montgomery(Fq!square_montgomery(c.x_m), c.x_m)
      sy == OnValue(Fq!sqrt_montgomery, Fq!add_constant(x3, Fq!as_montgomery(COEFF_B_G1)))
  IN <<c.x_m, Select(sy, Fq!neg(sy), c.y_flag), Fq!as_montgomery(1)>>
decompress_g2_from_compressed(c) ==
  LET x3 == Fq2!mul_montgomery(Fq2!square_montgomery(c.x_m), c.x_m)
      y == OnValue(Fq2!sqrt_general_montgomery,
                   Fq2!add_constant(x3, Fq2!as_montgomery(COEFF_B_G2)))
  IN <<c.x_m, Select(y, Fq2!neg(y), c.y_flag), Fq2!as_montgomery(Fq2!ONE)>>

(* `groth16_verify_compressed` up to the call of `groth16_verify`.         *)
decompress(wires) ==
  [wires EXCEPT !.a = decompress_g1_from_compressed(@),
                !.b = decompress_g2_from_compressed(@),
                !.c = decompress_g1_from_compressed(@)]

-------------------------------------------------------------------------------
(* (x / z^2, y / z^3, 1): `projective_to_affine_montgomery` here and       *)
(* `g1_normalize_to_affine` in pairing.rs.                                 *)
projective_to_affine_montgomery(p) ==
  LET z_inverse == Fq!inverse_montgomery(p[3])
      z_inverse_square == Fq!square_montgomery(z_inverse)
      z_inverse_cube == OnValues(Fq!mul_montgomery, z_inverse, z_inverse_square)
  IN <<Fq!mul_montgomery(p[1], z_inverse_square), Fq!mul_montgomery(p[2], z_inverse_cube),
       Fq!as_montgomery(1)>>

(* The point that the public inputs stand for.                             *)
(* Mutant: the constant term is left out.                                  *)
PublicSum(public, gamma_abc_g1) ==
  G1!msm_with_constant_bases_montgomery(
    W, public, SubSeq(gamma_abc_g1, 2, Len(public) + 1))
PublicInputsOnly(public, gamma_abc_g1) ==
  OnValue(projective_to_affine_montgomery, PublicSum(public, gamma_abc_g1))
PublicPoint(public, gamma_abc_g1) ==
  LET gamma0_m == G1!as_montgomery(G1!Jacobian!Projective(gamma_abc_g1[1]))
  IN OnValue(projective_to_affine_montgomery,
             OnValues(G1!add_montgomery, PublicSum(public, gamma_abc_g1),
                      G1!new_constant(gamma0_m)))

(* The three pairs of `groth16_verify`: two with a constant of the key,    *)
(* which is negated, and A with B on wires.                                *)
ConstantPair(p, q) == [p |-> p, q |-> Append(q, Fq2!ONE), constant |-> TRUE]
VerifierPairs(wires, vk) ==
  <<ConstantPair(PublicPoint(wires.public, vk.gamma_abc_g1), G2!Jacobian!Minus(vk.gamma_g2)),
    ConstantPair(wires.c, G2!Jacobian!Minus(vk.delta_g2)),
    [p |-> wires.a, q |-> wires.b, constant |-> FALSE]>>
===============================================================================
