---------------------------- MODULE FieldsAndCurves ---------------------------
(***************************************************************************)
(* Calls of the tower's and the curves' gadgets on inputs in Montgomery    *)
(* form, one call per behaviour, compared with the arithmetic of ark_bn254.*)
(***************************************************************************)
EXTENDS Fq, Sequences, Functions

CONSTANTS
  Fq2Inputs, Fq6Inputs, Fq12Inputs,   \* elements as the wires may hold them
  G1Base, G2Base, Order,  \* affine points and the order of both
  Multiples,              \* multiples of the bases that are added
  Scales,                 \* values of z, canonical and not in Montgomery form
  COEFF_B_G1, COEFF_B_G2, \* y^2 = x^3 + B
  PublicScalars,          \* public inputs of a proof
  W                       \* window of the scalar multiplication

Fq2 == INSTANCE Fq2
Fq6 == INSTANCE Fq6
Fq12 == INSTANCE Fq12
G1 == INSTANCE G1
G2 == INSTANCE G2
InputWires == INSTANCE InputWires

VARIABLE call   \* the gadget called, with what, and what it returned
None == [gadget |-> "none"]

Init == call = None

Fq2Call ==
  \E a, b \in Fq2Inputs :
    call' = [gadget |-> "Fq2", a |-> a, b |-> b,
             result |-> <<Fq2!mul_montgomery(a, b), Fq2!square_montgomery(a),
                          Fq2!mul_by_constant_montgomery(a, Fq2!as_montgomery(b)),
                          Fq2!mul_by_nonresidue(a), Fq2!sub(a, b), Fq2!div6(a),
                          Fq2!mul_by_fq_montgomery(a, b[1]),
                          Fq2!frobenius_montgomery(a, 1),
                          Fq2!mul_by_constant_fq_montgomery(a, Fq2!as_montgomery(b)[1]),
                          Fq2!mul_constant_by_fq_montgomery(Fq2!as_montgomery(b), a[1]),
                          Fq2!add_constant(a, Fq2!as_montgomery(b)),
                          Fq2!half(Fq2!triple(a))>>]

Fq2Root ==
  \E a \in Fq2Inputs :
    call' = [gadget |-> "Fq2 root", a |-> a,
             result |-> <<Fq2!inverse_montgomery(a),
                          Fq2!sqrt_general_montgomery(Fq2!square_montgomery(a)),
                          Fq2!sqrt_c1_zero_montgomery(
                            <<a[1], 0>>, ~is_qnr_montgomery(a[1]))>>]

Fq6Call ==
  \E a, b \in Fq6Inputs :
    call' = [gadget |-> "Fq6", a |-> a, b |-> b,
             result |-> <<Fq6!mul_montgomery(a, b), Fq6!square_montgomery(a),
                          Fq6!mul_by_constant_montgomery(a, Fq6!as_montgomery(b)),
                          Fq6!mul_by_01_montgomery(a, b[1], b[2]),
                          Fq6!mul_by_01_constant1_montgomery(
                            a, b[1], Fq2!as_montgomery(b[2])),
                          Fq6!inverse_montgomery(a)>>]

(* A factor with three coefficients takes them from `b`.  Squaring in the  *)
(* cyclotomic subgroup is left to the pairing's run.                       *)
Fq12Call ==
  \E a, b \in Fq12Inputs :
    call' = [gadget |-> "Fq12", a |-> a, b |-> b,
             result |-> <<Fq12!mul_montgomery(a, b), Fq12!square_montgomery(a),
                          Fq12!mul_by_constant_montgomery(a, Fq12!as_montgomery(b)),
                          Fq12!mul_by_34_montgomery(a, b[2][1], b[2][2]),
                          Fq12!mul_by_034_montgomery(a, b[1][1], b[2][1], b[2][2]),
                          Fq12!mul_by_034_constant4_montgomery(
                            a, b[1][1], b[2][1], Fq2!as_montgomery(b[2][2])),
                          Fq12!frobenius_montgomery(a, 1), Fq12!frobenius_montgomery(a, 3),
                          Fq12!sub(a, Fq12!neg(b)), Fq12!double(Fq12!add(a, b)),
                          Fq12!inverse_montgomery(a)>>]
(* Every point is given by Jacobian coordinates with some z.               *)
G1Point(n, z) == G1!as_montgomery(G1!Jacobian!Rescaled(
                   G1!Jacobian!Projective(G1!Jacobian!Times(n, G1Base)), z))
G2Point(n, z) == G2!as_montgomery(G2!Jacobian!Rescaled(
                   G2!Jacobian!Projective(G2!Jacobian!Times(n, G2Base)), <<z, z>>))
G1Affine(p) == G1!Jacobian!Affine(G1!from_montgomery(p))
G2Affine(p) == G2!Jacobian!Affine(G2!from_montgomery(p))

G1Call ==
  \E m, n \in Multiples, y, z \in Scales :
    /\ m % Order # n % Order
    /\ call' = [gadget |-> "G1", m |-> m, n |-> n,
                result |-> LET p == G1Point(m, y)
                               q == G1Point(n, z)
                           IN <<G1!add_montgomery(p, q), G1!double_montgomery(p), G1!neg(p)>>]
G2Call ==
  \E m, n \in Multiples, y, z \in Scales :
    /\ m % Order # n % Order
    /\ call' = [gadget |-> "G2", m |-> m, n |-> n,
                result |-> LET p == G2Point(m, y)
                               q == G2Point(n, z)
                           IN <<G2!add_montgomery(p, q), G2!double_montgomery(p), G2!neg(p)>>]

(* A scalar below the order of the base.                                   *)
ScalarCall ==
  \E s \in 0 .. Order - 1 :
    call' = [gadget |-> "scalar", s |-> s,
             result |-> G1!scalar_mul_by_constant_base_montgomery(W, s, G1Base)]
G2ScalarCall ==
  \E s \in 0 .. Order - 1 :
    call' = [gadget |-> "G2 scalar", s |-> s,
             result |-> G2!scalar_mul_by_constant_base_montgomery(W, s, G2Base)]
(* No scalar, one, or two; equal products would be two equal points.       *)
MsmCall ==
  \E scalars \in UNION {[1 .. n -> Multiples] : n \in 0 .. 2} :
    /\ Len(scalars) = 2 => scalars[1] % Order # (2 * scalars[2]) % Order
    /\ call' = [gadget |-> "msm", scalars |-> scalars,
                result |-> G1!msm_with_constant_bases_montgomery(W, scalars,
                             SubSeq(<<G1Base, G1!Jacobian!Times(2, G1Base)>>, 1, Len(scalars)))]


(* A garbler labels the inputs and hands over the pairs in the order of    *)
(* `collect_wire_ids`, an evaluator puts one label of each on its wires.   *)
(* The same proof goes to a circuit executed in the clear.                 *)
Plain(proof) ==
  LET repr == InputWires!allocate(Len(proof.public))
      labels == InputWires!garbler_encode(repr)
      list == InputWires!Looked(labels, InputWires!collect_wire_ids(repr))
      clear == InputWires!verify_allocate(Len(proof.public))
  IN [repr |-> repr, labels |-> labels,
      cache |-> InputWires!evaluator_encode(InputWires!EvaluatorInput_new(proof, list), repr),
      clear |-> clear, values |-> InputWires!verify_encode(proof, clear)]
Compressed(proof) ==
  LET repr == InputWires!compressed_allocate(Len(proof.public))
      labels == InputWires!garbler_compressed_encode(repr)
      list == InputWires!Looked(labels, InputWires!compressed_collect_wire_ids(repr))
  IN [repr |-> repr, labels |-> labels,
      input |-> InputWires!EvaluatorCompressedInput_new(proof, list),
      values |-> InputWires!verify_compressed_encode(proof, repr)]
ProofCall ==
  \E public \in UNION {[1 .. n -> PublicScalars] : n \in 0 .. 2}, a, b, c \in Multiples \ {0} :
    LET proof == [public |-> public, a |-> G1!Jacobian!Times(a, G1Base),
                  b |-> G2!Jacobian!Times(b, G2Base), c |-> G1!Jacobian!Times(c, G1Base)]
    IN call' = [gadget |-> "proof", proof |-> proof,
                plain |-> Plain(proof), compressed |-> Compressed(proof)]

(* Wire objects issued from some wire on, and values for their wires.      *)
ObjectCall ==
  \E first \in {InputWires!MIN, InputWires!MIN + 5}, a \in Fq12Inputs :
    call' = [gadget |-> "objects", first |-> first, a |-> Fq12!from_montgomery(a)]

Next ==
  /\ call = None
  /\ \/ Fq2Call \/ Fq2Root \/ Fq6Call \/ Fq12Call \/ G1Call \/ G2Call
     \/ ScalarCall \/ G2ScalarCall \/ MsmCall \/ ProofCall \/ ObjectCall
Spec == Init /\ [][Next]_call

-------------------------------------------------------------------------------
(* The number, or numbers, that wires in Montgomery form stand for.        *)
Fq2Of(a) == Fq2!from_montgomery(a)
Fq6Of(a) == Fq6!from_montgomery(a)
Fq12Of(a) == Fq12!from_montgomery(a)

Fq2Exact ==
  call.gadget = "Fq2" =>
    LET a == Fq2Of(call.a)
        b == Fq2Of(call.b)
    IN [i \in 1 .. 12 |-> Fq2Of(call.result[i])] =
         <<Fq2!ark_mul(a, b), Fq2!ark_mul(a, a), Fq2!ark_mul(a, call.b),
           Fq2!ark_mul(a, <<9, 1>>), Fq2!ark_add(a, Fq2!ark_neg(b)),
           Fq2!ark_mul(a, Fq2!ark_inverse(<<6, 0>>)), Fq2!ark_mul(a, <<b[1], 0>>),
           Fq2!ark_conjugate(a), Fq2!ark_mul(a, <<call.b[1] % MODULUS, 0>>),
           Fq2!ark_mul(call.b, <<a[1], 0>>), Fq2!ark_add(a, call.b),
           Fq2!ark_mul(a, <<ark_mul(3, ark_inverse(2)), 0>>)>>

(* The root of a square is one of its two roots, also that of a number     *)
(* without u part.  One without real part loses it: c0 of its root is zero,*)
(* and the general gadget ("c1 != 0") divides by it.                       *)
Fq2RootExact ==
  call.gadget = "Fq2 root" =>
    LET a == Fq2Of(call.a)
    IN /\ a # Fq2!ZERO => Fq2!ark_mul(a, Fq2Of(call.result[1])) = Fq2!ONE
       /\ Fq2Of(call.result[2]) \in IF a[1] = 0 THEN {Fq2!ZERO} ELSE {a, Fq2!ark_neg(a)}
       /\ LET root == Fq2Of(call.result[3])
          IN Fq2!ark_mul(root, root) = <<a[1], 0>>

Fq6Exact ==
  call.gadget = "Fq6" =>
    LET a == Fq6Of(call.a)
        b == Fq6Of(call.b)
        r == [i \in 1 .. 6 |-> Fq6Of(call.result[i])]
    IN /\ r[1] = Fq6!ark_mul(a, b)
       /\ r[2] = Fq6!ark_mul(a, a)
       /\ r[3] = Fq6!ark_mul(a, call.b)
       /\ r[4] = Fq6!ark_mul(a, <<b[1], b[2], Fq2!ZERO>>)
       /\ r[5] = Fq6!ark_mul(a, <<b[1], call.b[2], Fq2!ZERO>>)
       /\ a # Fq6!ZERO => Fq6!ark_mul(a, r[6]) = Fq6!ONE

Fq12Exact ==
  call.gadget = "Fq12" =>
    LET a == Fq12Of(call.a)
        b == Fq12Of(call.b)
        r == [i \in 1 .. 11 |-> Fq12Of(call.result[i])]
        sparse(c0, c4) == <<<<c0, Fq2!ZERO, Fq2!ZERO>>, <<b[2][1], c4, Fq2!ZERO>> >>
        sum == Fq12!ark_add(a, b)
    IN /\ r[1] = Fq12!ark_mul(a, b)
       /\ r[2] = Fq12!ark_mul(a, a)
       /\ r[3] = Fq12!ark_mul(a, call.b)
       /\ r[4] = Fq12!ark_mul(a, sparse(Fq2!ONE, b[2][2]))
       /\ r[5] = Fq12!ark_mul(a, sparse(b[1][1], b[2][2]))
       /\ r[6] = Fq12!ark_mul(a, sparse(b[1][1], call.b[2][2]))
       /\ r[7] = Fq12!ark_frobenius(a, 1) /\ r[8] = Fq12!ark_frobenius(a, 3)
       /\ r[9] = sum /\ r[10] = Fq12!ark_add(sum, sum)
       /\ Fq12!ark_mul(a, r[11]) = Fq12!ONE

(* The gadgets of fq2.rs, fq6.rs and fq12.rs return what ark_bn254         *)
(* computes, though products are taken by Karatsuba and by interpolation   *)
(* at five points and a division by six, with a factor that may be a       *)
(* constant in one form or the other, and though inputs may be the second  *)
(* zero that `neg` makes.                                                  *)
TowerExact == Fq2Exact /\ Fq2RootExact /\ Fq6Exact /\ Fq12Exact

(* Adding two different points, in any Jacobian coordinates and infinity   *)
(* among them, doubling one and negating one is the group law of the curve *)
(* (g1.rs and g2.rs).                                                      *)
GroupLaw ==
  LET multiples == <<call.m + call.n, 2 * call.m, Order * call.m - call.m>>
  IN /\ call.gadget = "G1" =>
          \A i \in 1 .. 3 :
            G1Affine(call.result[i]) = G1!Jacobian!Times(multiples[i], G1Base)
     /\ call.gadget = "G2" =>
          \A i \in 1 .. 3 :
            G2Affine(call.result[i]) = G2!Jacobian!Times(multiples[i], G2Base)

(* The windows of a scalar below the order add up to its multiple of the   *)
(* base: no sum of two equal points comes up on the way, for which         *)
(* `add_montgomery` has no case.  A multi-scalar product is their sum.     *)
ScalarMulExact ==
  /\ call.gadget = "scalar" =>
       G1Affine(call.result) = G1!Jacobian!Times(call.s, G1Base)
  /\ call.gadget = "msm" =>
       G1Affine(call.result) =
         G1!Jacobian!Times(FoldFunctionOnSet(+, 0, [i \in DOMAIN call.scalars |-> i * call.scalars[i]],
                                  DOMAIN call.scalars), G1Base)

(* What a circuit reads on wires, given each wire's bit.                   *)
Read(values, wires) ==
  InputWires!FromBits([i \in DOMAIN wires |->
    IF wires[i] < InputWires!MIN THEN wires[i] = InputWires!TRUE_WIRE ELSE values[wires[i]]])
Read2(values, pair) == <<Read(values, pair[1]), Read(values, pair[2])>>
ReadG1(values, p) == [k \in 1 .. 3 |-> Read(values, p[k])]
ReadG2(values, p) == [k \in 1 .. 3 |-> Read2(values, p[k])]
ReadProof(values, repr) ==
  [public |-> [i \in DOMAIN repr.public |-> Read(values, repr.public[i])],
   a |-> ReadG1(values, repr.a), b |-> ReadG2(values, repr.b), c |-> ReadG1(values, repr.c)]
ReadCompressed(values, repr) ==
  LET point(p, x_m) == [x_m |-> x_m, y_flag |-> values[p.y_flag]]
  IN [public |-> [i \in DOMAIN repr.public |-> Read(values, repr.public[i])],
      a |-> point(repr.a, Read(values, repr.a.x_m)),
      b |-> point(repr.b, Read2(values, repr.b.x_m)),
      c |-> point(repr.c, Read(values, repr.c.x_m))]

BitsOf(cache) == [w \in DOMAIN cache |-> cache[w].value]
OwnLabels(labels, cache) ==
  /\ DOMAIN cache = DOMAIN labels
  /\ \A w \in DOMAIN cache : cache[w].active_label = <<labels[w], cache[w].value>>

PlainArrives ==
  call.gadget = "proof" =>
    LET encoded == InputWires!encode(call.proof)
    IN /\ OwnLabels(call.plain.labels, call.plain.cache)
       /\ ReadProof(BitsOf(call.plain.cache), call.plain.repr) = encoded
       /\ ReadProof(call.plain.values, call.plain.clear) = encoded

(* Through the adaptor signatures the evaluator gets a list of labelled    *)
(* wires only, and makes its input, and the proof, of that.                *)
CompressedArrives ==
  call.gadget = "proof" =>
    LET encoded == InputWires!encode_compressed(call.proof)
        input == call.compressed.input
        cache == InputWires!evaluator_compressed_encode(input, call.compressed.repr)
        list == InputWires!iter_active_labels(input)
    IN /\ OwnLabels(call.compressed.labels, cache)
       /\ ReadCompressed(BitsOf(cache), call.compressed.repr) = encoded
       /\ call.compressed.values = BitsOf(cache)
       /\ InputWires!from_evaluated_inputs(Len(call.proof.public), list) = input
       /\ InputWires!encode_input(cache) = InputWires!ValuesOf(list)
       /\ list = InputWires!Looked(cache, InputWires!compressed_collect_wire_ids(call.compressed.repr))
       /\ InputWires!to_proof(input) = call.proof

ObjectsArrive ==
  call.gadget = "objects" =>
    LET fq2 == InputWires!fq2_new(call.first)
        fq6 == InputWires!fq6_new(call.first)
        fq12 == InputWires!fq12_new(call.first)
        g1 == InputWires!g1_new(call.first)
        g2 == InputWires!g2_new(call.first)
        point == <<call.a[1][1][1], call.a[1][1][2], call.a[1][2][1]>>
        read6(values, wires) == [k \in 1 .. 3 |-> Read2(values, wires[k])]
        values12 == InputWires!fq12_bits_fn(fq12, call.a)
        both == InputWires!pair_to_wires_vec(
                  InputWires!g2_to_wires_vec(g2),
                  InputWires!fq6_to_wires_vec(InputWires!fq6_new(call.first + 6 * N_BITS)))
        g1_bits == InputWires!g1_to_bitvec(g1, InputWires!g1_bits_fn(g1, point))
        g2_bits == InputWires!g2_to_bitvec(g2, InputWires!g2_bits_fn(g2, call.a[1]))
    IN /\ InputWires!fq2_from_wires(InputWires!fq2_to_wires_vec(fq2)) = fq2
       /\ InputWires!fq6_from_wires(InputWires!fq6_to_wires_vec(fq6)) = fq6
       /\ InputWires!fq12_from_wires(InputWires!fq12_to_wires_vec(fq12)) = fq12
       /\ InputWires!g1_from_wires(InputWires!g1_to_wires_vec(g1)) = g1
       /\ InputWires!g2_fq6_from_wires(both) = fq12
       /\ <<read6(values12, fq12[1]), read6(values12, fq12[2])>> = call.a
       /\ InputWires!tuple_to_wires_vec(<<fq2[1], fq2[2]>>) = InputWires!fq2_to_wires_vec(fq2)
       /\ InputWires!g1_from_bits_unchecked(g1_bits) = point
       /\ InputWires!g2_from_bits_unchecked(g2_bits) = call.a[1]

(* Every input wire gets a label of its own pair, the one for its bit, and *)
(* read as the circuit reads them, constants included, the wires hold the  *)
(* encoded proof, plain or compressed, from garbled_groth16.rs as from     *)
(* groth16.rs, though each of them writes the order of the wires down      *)
(* again; a compressed input is recovered from the flat list, and the      *)
(* proof from it.  Objects flattened and made again are the same.          *)
InputsArrive == PlainArrives /\ CompressedArrives /\ ObjectsArrive

(* The test of g2.rs: the product is the Montgomery form of the multiple.  *)
G2ScalarMulExact ==
  call.gadget = "G2 scalar" =>
    G2Affine(call.result) = G2!Jacobian!Times(call.s, G2Base)
===============================================================================
