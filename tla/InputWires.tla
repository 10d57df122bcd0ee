------------------------------ MODULE InputWires ------------------------------
(***************************************************************************)
(* How numbers get onto wires: the wire objects of field elements and      *)
(* points (src/circuit/into_wire_list.rs and their impls in gadgets/bn254) *)
(* and the inputs of the verifier, src/garbled_groth16.rs.  A garbler      *)
(* labels the wires, an evaluator gets one label of each in a flat list;   *)
(* both count on orders written down in several places.                    *)
(*                                                                         *)
(* A word is the sequence of a field element's wires, lowest bit first.    *)
(***************************************************************************)
EXTENDS Groth16, SequencesExt, TLC

FALSE_WIRE == 0
TRUE_WIRE == 1
MIN == 2              \* WireId::MIN, the first wire a circuit issues

Bits(u) == [i \in 1 .. N_BITS |-> (u \div 2 ^ (i - 1)) % 2 = 1]
FromBits(bits) ==
  LET sum[i \in 0 .. Len(bits)] ==
        IF i = 0 THEN 0 ELSE sum[i - 1] + (IF bits[i] THEN 2 ^ (i - 1) ELSE 0)
  IN sum[Len(bits)]
Constant(u) == [i \in 1 .. N_BITS |-> IF Bits(u)[i] THEN TRUE_WIRE ELSE FALSE_WIRE]

(* A word of fresh wires, when the next one issued is `first`; and the     *)
(* larger objects made of words.                                           *)
fq_new(first) == [i \in 1 .. N_BITS |-> first + i - 1]
fq2_new(first) == <<fq_new(first), fq_new(first + N_BITS)>>
fq6_new(first) == [k \in 1 .. 3 |-> fq2_new(first + (k - 1) * 2 * N_BITS)]
fq12_new(first) == <<fq6_new(first), fq6_new(first + 6 * N_BITS)>>
g1_new(first) == [k \in 1 .. 3 |-> fq_new(first + (k - 1) * N_BITS)]
g2_new(first) == [k \in 1 .. 3 |-> fq2_new(first + (k - 1) * 2 * N_BITS)]

(* `to_wires_vec`.  A tuple or a vector of objects gives one after another. *)
tuple_to_wires_vec(parts) == FlattenSeq(parts)
pair_to_wires_vec(a, b) == a \o b
fq2_to_wires_vec(a) == a[1] \o a[2]
fq6_to_wires_vec(a) == fq2_to_wires_vec(a[1]) \o fq2_to_wires_vec(a[2]) \o fq2_to_wires_vec(a[3])
fq12_to_wires_vec(a) == fq6_to_wires_vec(a[1]) \o fq6_to_wires_vec(a[2])
g1_to_wires_vec(p) == p[1] \o p[2] \o p[3]
g2_to_wires_vec(p) == fq6_to_wires_vec(p)

(* `from_wires`, of enough wires.  A word takes all it is given.           *)
Part(wires, len, k) == SubSeq(wires, (k - 1) * len + 1, k * len)
fq2_from_wires(wires) == <<SubSeq(wires, 1, N_BITS), SubSeq(wires, N_BITS + 1, Len(wires))>>
fq6_from_wires(wires) ==
  [k \in 1 .. 3 |-> fq2_from_wires(Part(wires, Len(wires) \div 3, k))]
fq12_from_wires(wires) == [k \in 1 .. 2 |-> fq6_from_wires(Part(wires, Len(wires) \div 2, k))]
g1_from_wires(wires) == [k \in 1 .. 3 |-> Part(wires, Len(wires) \div 3, k)]
g2_from_wires(wires) == fq6_from_wires(wires)
(* The one pair that is made of wires, by the arity of its first part.     *)
g2_fq6_from_wires(wires) ==
  <<g2_from_wires(SubSeq(wires, 1, 6 * N_BITS)),
    fq6_from_wires(SubSeq(wires, 6 * N_BITS + 1, Len(wires)))>>

(* `get_wire_bits_fn`: which bit of a value a wire gets.  Wires that occur *)
(* twice, constants, keep the last bit.                                    *)
WireBits(wires, bits) ==
  [w \in Range(wires) |-> bits[CHOOSE i \in DOMAIN wires :
                                 wires[i] = w /\ \A j \in i + 1 .. Len(wires) : wires[j] # w]]
fq_bits_fn(wires, u) == WireBits(wires, Bits(u))
fq2_bits_fn(wires, u) == fq_bits_fn(wires[1], u[1]) @@ fq_bits_fn(wires[2], u[2])
fq6_bits_fn(wires, u) ==
  fq2_bits_fn(wires[1], u[1]) @@ fq2_bits_fn(wires[2], u[2]) @@ fq2_bits_fn(wires[3], u[3])
fq12_bits_fn(wires, u) == fq6_bits_fn(wires[1], u[1]) @@ fq6_bits_fn(wires[2], u[2])
g1_bits_fn(wires, p) == WireBits(g1_to_wires_vec(wires), FlattenSeq([k \in 1 .. 3 |-> Bits(p[k])]))
g2_bits_fn(wires, p) ==
  WireBits(g2_to_wires_vec(wires),
           FlattenSeq([k \in 1 .. 3 |-> Bits(p[k][1]) \o Bits(p[k][2])]))

(* A point's bits as decoded from the values of its wires, and back.       *)
Looked(values, wires) == [i \in DOMAIN wires |-> values[wires[i]]]
g1_to_bitvec(p, values) == Looked(values, g1_to_wires_vec(p))
g2_to_bitvec(p, values) == Looked(values, g2_to_wires_vec(p))
g1_from_bits_unchecked(bits) == [k \in 1 .. 3 |-> FromBits(Part(bits, N_BITS, k))]
g2_from_bits_unchecked(bits) ==
  [k \in 1 .. 3 |-> [j \in 1 .. 2 |-> FromBits(Part(bits, N_BITS, 2 * k - 2 + j))]]

-------------------------------------------------------------------------------
(* `allocate`: which wires an input of n public scalars is on.  The z of   *)
(* the points are constants, except in `Groth16VerifyInput`.               *)
allocate(n) ==
  LET word(k) == fq_new(MIN + k * N_BITS)
      one == Constant(Fq!as_montgomery(1))
      zero == Constant(Fq!as_montgomery(0))
  IN [a |-> <<word(0), word(1), one>>,
      b |-> << <<word(2), word(3)>>, <<word(4), word(5)>>, <<one, zero>> >>,
      c |-> <<word(6), word(7), one>>,
      public |-> [i \in 1 .. n |-> word(7 + i)]]
verify_allocate(n) ==
  LET at(k) == MIN + (n + k) * N_BITS
  IN [public |-> [i \in 1 .. n |-> fq_new(MIN + (i - 1) * N_BITS)],
      a |-> g1_new(at(0)), b |-> g2_new(at(3)), c |-> g1_new(at(9))]
compressed_allocate(n) ==
  LET at(k) == MIN + (n + k) * N_BITS
  IN [public |-> [i \in 1 .. n |-> fq_new(MIN + (i - 1) * N_BITS)],
      a |-> [x_m |-> fq_new(at(0)), y_flag |-> at(1)],
      b |-> [x_m |-> fq2_new(at(1) + 1), y_flag |-> at(3) + 1],
      c |-> [x_m |-> fq_new(at(3) + 2), y_flag |-> at(4) + 2]]

(* Mutant: the wires in the order they were issued.                        *)
collect_as_issued(repr) ==
  repr.a[1] \o repr.a[2] \o fq2_to_wires_vec(repr.b[1]) \o fq2_to_wires_vec(repr.b[2])
    \o repr.c[1] \o repr.c[2] \o FlattenSeq(repr.public)

(* The order of a flat list of values: in it the labels are issued, too.   *)
collect_wire_ids(repr) ==
  FlattenSeq(repr.public)
    \o repr.a[1] \o repr.a[2] \o fq2_to_wires_vec(repr.b[1]) \o fq2_to_wires_vec(repr.b[2])
    \o repr.c[1] \o repr.c[2]
compressed_collect_wire_ids(repr) ==
  FlattenSeq(repr.public)
    \o Append(repr.a.x_m, repr.a.y_flag)
    \o Append(fq2_to_wires_vec(repr.b.x_m), repr.b.y_flag)
    \o Append(repr.c.x_m, repr.c.y_flag)

Feed(wires, values) == [w \in Range(wires) |-> values[CHOOSE i \in DOMAIN wires : wires[i] = w]]

(* The garbler: every input wire gets the next pair of labels, k here, or  *)
(* the next N pairs when N instances are garbled at once.                  *)
garbler_encode(repr) ==
  LET fed == FlattenSeq(repr.public)
               \o repr.a[1] \o repr.a[2] \o repr.b[1][1] \o repr.b[1][2]
               \o repr.b[2][1] \o repr.b[2][2] \o repr.c[1] \o repr.c[2]
  IN Feed(fed, [k \in DOMAIN fed |-> k])
garbler_compressed_encode(repr) ==
  LET fed == FlattenSeq(repr.public) \o repr.a.x_m \o <<repr.a.y_flag>>
               \o repr.b.x_m[1] \o repr.b.x_m[2] \o <<repr.b.y_flag>>
               \o repr.c.x_m \o <<repr.c.y_flag>>
  IN Feed(fed, [k \in DOMAIN fed |-> k])

-------------------------------------------------------------------------------
(* An evaluator's wire: the label of the pair for its value.               *)
Evaluated(gw, bit) == [active_label |-> <<gw, bit>>, value |-> bit]
(* The bits of u on the wires of the list from position `from`.            *)
Word(wires, from, u) == [i \in 1 .. N_BITS |-> Evaluated(wires[from + i], Bits(u)[i])]

(* `EvaluatorInput::new`, from the flat list of the garbler's pairs.       *)
EvaluatorInput_new(proof, wires) ==
  LET n == Len(proof.public)
      m == encode(proof)
      word(k, u) == Word(wires, (n + k) * N_BITS, u)
  IN [public |-> [i \in 1 .. n |-> Word(wires, (i - 1) * N_BITS, proof.public[i])],
      a |-> [x |-> word(0, m.a[1]), y |-> word(1, m.a[2])],
      b |-> [x |-> <<word(2, m.b[1][1]), word(3, m.b[1][2])>>,
             y |-> <<word(4, m.b[2][1]), word(5, m.b[2][2])>>],
      c |-> [x |-> word(6, m.c[1]), y |-> word(7, m.c[2])]]
evaluator_encode(input, repr) ==
  Feed(FlattenSeq(repr.public), FlattenSeq(input.public))
    @@ Feed(repr.a[1], input.a.x) @@ Feed(repr.a[2], input.a.y)
    @@ Feed(fq2_to_wires_vec(repr.b[1]), FlattenSeq(input.b.x))
    @@ Feed(fq2_to_wires_vec(repr.b[2]), FlattenSeq(input.b.y))
    @@ Feed(repr.c[1], input.c.x) @@ Feed(repr.c[2], input.c.y)

EvaluatorCompressedInput_new(proof, wires) ==
  LET n == Len(proof.public)
      m == encode_compressed(proof)
      from(k) == (n + k) * N_BITS
  IN [public |-> [i \in 1 .. n |-> Word(wires, (i - 1) * N_BITS, proof.public[i])],
      a |-> [x |-> Word(wires, from(0), m.a.x_m), y_flag |-> Evaluated(wires[from(1) + 1], m.a.y_flag)],
      b |-> [x |-> <<Word(wires, from(1) + 1, m.b.x_m[1]), Word(wires, from(2) + 1, m.b.x_m[2])>>,
             y_flag |-> Evaluated(wires[from(3) + 2], m.b.y_flag)],
      c |-> [x |-> Word(wires, from(3) + 2, m.c.x_m),
             y_flag |-> Evaluated(wires[from(4) + 3], m.c.y_flag)]]

(* From the wires the adaptor signatures gave, in the same order.          *)
from_evaluated_inputs(n, evaluated) ==
  LET word(from) == SubSeq(evaluated, from + 1, from + N_BITS)
      from(k) == (n + k) * N_BITS
  IN [public |-> [i \in 1 .. n |-> word((i - 1) * N_BITS)],
      a |-> [x |-> word(from(0)), y_flag |-> evaluated[from(1) + 1]],
      b |-> [x |-> <<word(from(1) + 1), word(from(2) + 1)>>, y_flag |-> evaluated[from(3) + 2]],
      c |-> [x |-> word(from(3) + 2), y_flag |-> evaluated[from(4) + 3]]]
evaluator_compressed_encode(input, repr) ==
  Feed(FlattenSeq(repr.public), FlattenSeq(input.public))
    @@ Feed(repr.a.x_m, input.a.x) @@ Feed(<<repr.a.y_flag>>, <<input.a.y_flag>>)
    @@ Feed(fq2_to_wires_vec(repr.b.x_m), FlattenSeq(input.b.x))
    @@ Feed(<<repr.b.y_flag>>, <<input.b.y_flag>>)
    @@ Feed(repr.c.x_m, input.c.x) @@ Feed(<<repr.c.y_flag>>, <<input.c.y_flag>>)
iter_active_labels(input) ==
  FlattenSeq(input.public) \o Append(input.a.x, input.a.y_flag)
    \o Append(FlattenSeq(input.b.x), input.b.y_flag) \o Append(input.c.x, input.c.y_flag)

(* The values alone, for the mode that executes the circuit in the clear.  *)
verify_encode(proof, repr) ==
  LET m == encode(proof)
      public(i) == fq_bits_fn(repr.public[i], proof.public[i])
  IN FoldSeq(LAMBDA f, g : f @@ g, <<>>, [i \in DOMAIN repr.public |-> public(i)])
       @@ g1_bits_fn(repr.a, m.a) @@ g2_bits_fn(repr.b, m.b) @@ g1_bits_fn(repr.c, m.c)
verify_compressed_encode(proof, repr) ==
  LET m == encode_compressed(proof)
      public(i) == fq_bits_fn(repr.public[i], proof.public[i])
  IN FoldSeq(LAMBDA f, g : f @@ g, <<>>, [i \in DOMAIN repr.public |-> public(i)])
       @@ fq_bits_fn(repr.a.x_m, m.a.x_m) @@ Feed(<<repr.a.y_flag>>, <<m.a.y_flag>>)
       @@ fq2_bits_fn(repr.b.x_m, m.b.x_m) @@ Feed(<<repr.b.y_flag>>, <<m.b.y_flag>>)
       @@ fq_bits_fn(repr.c.x_m, m.c.x_m) @@ Feed(<<repr.c.y_flag>>, <<m.c.y_flag>>)

(* Signing an input takes its bits by the numbers of the wires.            *)
encode_input(cache) ==
  [i \in 1 .. Cardinality(DOMAIN cache) |-> cache[MIN + i - 1].value]

-------------------------------------------------------------------------------
(* `to_proof` and `to_public_inputs`: back from the compressed wires, with *)
(* the square roots of ark_ff.                                             *)
ValuesOf(word) == [i \in DOMAIN word |-> word[i].value]
decompress_g1(x, y_flag) ==
  LET x_cubed == Fq!ark_mul(x, Fq!ark_mul(x, x))
      y == OnValue(ark_sqrt, Fq!ark_add(x_cubed, COEFF_B_G1))
  IN <<x, IF (ark_sqrt(Fq!ark_mul(y, y)) = y) = y_flag THEN y ELSE Fq!ark_neg(y)>>
decompress_g2(x, y_flag) ==
  LET x_cubed == Fq2!ark_mul(x, Fq2!ark_mul(x, x))
      y == OnValue(ark_sqrt2, Fq2!ark_add(x_cubed, COEFF_B_G2))
  IN <<x, IF (ark_sqrt2(Fq2!ark_mul(y, y)) = y) = y_flag THEN y ELSE Fq2!ark_neg(y)>>
to_proof(input) ==
  LET x_of(word) == Fq!from_montgomery(FromBits(ValuesOf(word)))
  IN [public |-> [i \in DOMAIN input.public |-> FromBits(ValuesOf(input.public[i]))],
      a |-> decompress_g1(x_of(input.a.x), input.a.y_flag.value),
      b |-> decompress_g2(<<x_of(input.b.x[1]), x_of(input.b.x[2])>>, input.b.y_flag.value),
      c |-> decompress_g1(x_of(input.c.x), input.c.y_flag.value)]
===============================================================================
