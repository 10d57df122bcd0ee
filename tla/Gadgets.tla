--------------------------------- MODULE Gadgets ------------------------------
(***************************************************************************)
(* Calls of the gadgets on bits (bigint, and the trait Fp254Impl for both  *)
(* fields), one call per behaviour, compared with numbers.                 *)
(***************************************************************************)
EXTENDS Fp254Impl

CONSTANTS
  FR,                      \* modulus of the scalar field, on N_BITS as well
  Len0,                    \* bits of the integers that are tried in full
  WideLens, WideNumbers,   \* longer integers, multiplied in pairs
  R_INVERSE, InverseOfZero

Fq == INSTANCE Fq          \* the base field by its numbers
Fr == INSTANCE Fr

VARIABLE call
Init == call = [gadget |-> "none"]

Small == 0 .. 2 ^ Len0 - 1
bits(u) == bits_of(u, Len0)

(* Comparisons give one wire, the other gadgets a number of wires.         *)
CompareCall ==
  \E a, b \in Small :
    call' = [gadget |-> "compare", a |-> a, b |-> b,
             result |-> <<equal(bits(a), bits(b)), equal_constant(bits(a), b),
                          greater_than(bits(a), bits(b)),
                          b # 0 /\ less_than_constant(bits(a), b),
                          equal_zero(bits(a))>>]
AddCall ==
  \E a, b \in Small :
    call' = [gadget |-> "add", a |-> a, b |-> b,
             result |-> <<ValueOf(add(bits(a), bits(b))), ValueOf(sub(bits(a), bits(b))),
                          IF b = 0 THEN a ELSE ValueOf(add_constant(bits(a), b)),
                          ValueOf(mux(<<bits(a), bits(b)>>, <<a > b>>)),
                          ValueOf(double_without_overflow(bits(a)))>>]
OddCall ==
  \E a \in Small \ {0} :
    call' = [gadget |-> "odd", a |-> a,
             result |-> LET parts == odd_part(bits(a))
                        IN <<ValueOf(parts.odd), ValueOf(parts.even)>>]
Product(len, a, b) ==
  <<ValueOf(mul(bits_of(a, len), bits_of(b, len))),
    ValueOf(mul_by_constant(bits_of(a, len), b)),
    ValueOf(mul_by_constant_modulo_power_two(bits_of(a, len), b, len)),
    ValueOf(mul_by_constant_modulo_power_two(bits_of(a, len), b, len - 1))>>
MulCall ==
  \E len \in {Len0} \union WideLens :
    \E a, b \in IF len = Len0 THEN Small ELSE {u \in WideNumbers : u < 2 ^ len} :
      call' = [gadget |-> "mul", a |-> a, b |-> b, len |-> len, result |-> Product(len, a, b)]

(* A field gadget on wires that hold any number up to the second zero.     *)
on(u) == bits_of(u, N_BITS)
FieldCall ==
  \E a, b \in Fq!Elements :
    call' = [gadget |-> "field", a |-> a, b |-> b,
             result |-> <<ValueOf(fp_add(on(a), on(b))), ValueOf(fp_add_constant(on(a), b)),
                          ValueOf(fp_sub(on(a), on(b))),
                          ValueOf(fp_mul_montgomery(on(a), on(b))),
                          ValueOf(fp_mul_by_constant_montgomery(on(a), b))>>]
UnaryCall ==
  \E a \in Fq!Elements :
    call' = [gadget |-> "unary", a |-> a,
             result |-> <<ValueOf(fp_neg(on(a))), ValueOf(fp_double(on(a))),
                          ValueOf(fp_half(on(a))), ValueOf(fp_triple(on(a))),
                          ValueOf(fp_div6(on(a))), ValueOf(sqrt_montgomery(on(a)))>>]
InverseCall ==
  \E a \in Fq!Elements :
    call' = [gadget |-> "inverse", a |-> a, result |-> ValueOf(fp_inverse_montgomery(on(a)))]

(* The scalar field, on canonical numbers.                                 *)
ScalarCall ==
  \E a, b \in 0 .. FR - 1 :
    call' = [gadget |-> "scalar", a |-> a, b |-> b,
             result |-> <<ValueOf(Fr!fr_add(on(a), on(b))), ValueOf(Fr!fr_double(on(a))),
                          ValueOf(Fr!fr_half(on(a))), ValueOf(Fr!fr_triple(on(a))),
                          ValueOf(Fr!fr_div6(on(a))),
                          ValueOf(Fr!fr_mul_montgomery(on(a), on(b)))>>]

Next ==
  /\ call.gadget = "none"
  /\ \/ CompareCall \/ AddCall \/ OddCall \/ MulCall
     \/ FieldCall \/ UnaryCall \/ InverseCall \/ ScalarCall
Spec == Init /\ [][Next]_call

-------------------------------------------------------------------------------
CompareExact ==
  call.gadget = "compare" =>
    call.result = <<call.a = call.b, call.a = call.b, call.a > call.b, call.a < call.b,
                    call.a = 0>>
AddExact ==
  call.gadget = "add" =>
    LET a == call.a
        b == call.b
        borrow == IF a < b THEN 2 ^ Len0 ELSE 0   \* below the borrow's own wire
    IN call.result = <<a + b, (a - b + borrow) + borrow, a + b, IF a > b THEN b ELSE a,
                       (2 * a) % 2 ^ Len0>>
OddExact ==
  call.gadget = "odd" =>
    /\ call.result[1] * call.result[2] = call.a
    /\ call.result[1] % 2 = 1 /\ call.result[2] \in {2 ^ i : i \in 0 .. Len0}
MulExact ==
  call.gadget = "mul" =>
    LET product == call.a * call.b
    IN call.result = <<product, product, product % 2 ^ call.len, product % 2 ^ (call.len - 1)>>

(* On all numbers of a few bits and on longer ones the big-integer gadgets *)
(* compute sums, comparisons and products of numbers, with every carry and *)
(* borrow on its wire: whether a product is taken row by row, by Karatsuba *)
(* with parts of unequal length, or by the ones of a constant in chunks,   *)
(* below a power of two at which rows are cut.                             *)
BigIntExact == CompareExact /\ AddExact /\ OddExact /\ MulExact

FqExact ==
  /\ call.gadget = "field" =>
       call.result = <<Fq!add(call.a, call.b), Fq!add_constant(call.a, call.b),
                       Fq!sub(call.a, call.b), Fq!mul_montgomery(call.a, call.b),
                       Fq!mul_by_constant_montgomery(call.a, call.b)>>
  /\ call.gadget = "unary" =>
       call.result = <<Fq!neg(call.a), Fq!double(call.a), Fq!half(call.a),
                       Fq!triple(call.a), Fq!div6(call.a), Fq!sqrt_montgomery(call.a)>>
  /\ call.gadget = "inverse" => call.result = Fq!inverse_montgomery(call.a)
FrExact ==
  call.gadget = "scalar" =>
    /\ call.result[1] = (call.a + call.b) % FR
    /\ call.result[2] = (2 * call.a) % FR
    /\ (2 * call.result[3]) % FR = call.a
    /\ call.result[4] = (3 * call.a) % FR
    /\ (6 * call.result[5]) % FR = call.a
    /\ (call.result[6] * R) % FR = (call.a * call.b) % FR

(* The gates of the field gadgets compute the numbers that module Fq says, *)
(* on which the tower, the curves and the pairing are checked: one subtraction *)
(* of the modulus is enough, Montgomery reduction never leaves it in, and  *)
(* the almost inverse ends within its iterations; also when an input is    *)
(* the second zero.  In the scalar field sums and products are exact too.  *)
FieldExact == FqExact /\ FrExact
===============================================================================
