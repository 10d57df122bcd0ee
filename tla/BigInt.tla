-------------------------------- MODULE BigInt --------------------------------
(***************************************************************************)
(* src/gadgets/basic.rs and src/gadgets/bigint, on the values of wires: a  *)
(* gadget is the function its gates compute.  Integers are sequences of    *)
(* wires, least significant bit first.  Operators carry the names of the   *)
(* functions they model; what the code appends (a carry, a borrow) is the  *)
(* last wire here too.                                                     *)
(***************************************************************************)
EXTENDS Integers, Sequences, SequencesExt

CONSTANTS
  KaratsubaAbove,   \* is_use_karatsuba: 19; smaller in an instance
  PER_CHUNK         \* rows in a component of a product: 8; smaller as well
ASSUME BigIntAssumption == KaratsubaAbove \in Nat /\ PER_CHUNK \in Nat \ {0}

(* A sequence of wires given by its i-th wire.  The concatenation makes    *)
(* TLC compute each wire once and not at every read.                       *)
Wires(n, f(_)) == [i \in 1 .. n |-> f(i)] \o <<>>

(* `Gate::and_variant`.                                                    *)
and_variant(a, b, f) == ((a # f[1]) /\ (b # f[2])) # f[3]

half_adder(a, b) == [result |-> a # b, carry |-> a /\ b]

full_adder(a, b, c) ==
  LET axc == a # c
      bxc == b # c
  IN [result |-> a # bxc, carry |-> c # (axc /\ bxc)]

half_subtracter(a, b) ==
  [result |-> a # b, carry |-> and_variant(a, b, <<TRUE, FALSE, FALSE>>)]

full_subtracter(a, b, c) ==
  LET bxa == a # b
      bxc == b # c
  IN [result |-> bxa # c, carry |-> c # (bxa /\ bxc)]

(* `a` if `c`, else `b`.                                                   *)
selector(a, b, c) ==
  LET d == ~(a /\ c)
      f == and_variant(c, b, <<TRUE, FALSE, TRUE>>)
  IN ~(d /\ f)

(* The selector bits halve the list of candidates, lowest bit first.       *)
multiplexer(a, s) ==
  LET level[k \in 0 .. Len(s)] ==
        IF k = 0 THEN a
        ELSE LET cur == level[k - 1]
             IN Wires(Len(cur) \div 2,
                      LAMBDA j : selector(cur[2 * j], cur[2 * j - 1], s[k]))
  IN level[Len(s)][1]
-------------------------------------------------------------------------------
Pop(a) == Front(a)
Insert0(a, w) == <<w>> \o a
MSB(a) == a[Len(a)]
Zeros(n) == Wires(n, LAMBDA i : FALSE)

(* `bits_from_biguint_with_len`, the bits of a constant that fits.         *)
bits_of(u, len) == Wires(len, LAMBDA i : (u \div 2 ^ (i - 1)) % 2 = 1)
ValueOf(a) ==
  LET value[i \in 0 .. Len(a)] ==
        IF i = 0 THEN 0 ELSE value[i - 1] + (IF a[i] THEN 2 ^ (i - 1) ELSE 0)
  IN value[Len(a)]

(* The chain of `add` and `sub`: a half stage, full stages, last carry.    *)
Ripple(half_stage(_, _), full_stage(_, _, _), a, b) ==
  LET stage[i \in 1 .. Len(a)] ==
        IF i = 1 THEN half_stage(a[1], b[1])
        ELSE full_stage(a[i], b[i], stage[i - 1].carry)
  IN Wires(Len(a) + 1, LAMBDA i : IF i <= Len(a) THEN stage[i].result
                                  ELSE stage[Len(a)].carry)

add(a, b) == Ripple(half_adder, full_adder, a, b)
sub(a, b) == Ripple(half_subtracter, full_subtracter, a, b)
add_without_carry(a, b) == Pop(add(a, b))
sub_without_borrow(a, b) == Pop(sub(a, b))

(* A nonzero constant: below its lowest one wires are passed on, at it the *)
(* bit is inverted and the old bit is the carry, above it one or the other *)
(* pair of gates.                                                          *)
add_constant(a, b) ==
  LET b_bits == bits_of(b, Len(a))
      first_one == CHOOSE i \in 1 .. Len(a) :
                     b_bits[i] /\ \A j \in 1 .. i - 1 : ~b_bits[j]
      carry[i \in first_one .. Len(a)] ==
        IF i = first_one THEN a[i]
        ELSE IF b_bits[i] THEN a[i] \/ carry[i - 1] ELSE a[i] /\ carry[i - 1]
      result(i) == IF i < first_one THEN a[i]
                   ELSE IF i = first_one THEN a[i] # TRUE
                   ELSE IF b_bits[i] THEN a[i] = carry[i - 1]
                   ELSE a[i] # carry[i - 1]
  IN Wires(Len(a) + 1, LAMBDA i : IF i > Len(a) THEN carry[Len(a)] ELSE result(i))

add_constant_without_carry(a, b) == Pop(add_constant(a, b))

double(a) == Insert0(a, FALSE)
double_without_overflow(a) == Insert0(Pop(a), FALSE)
half(a) == Append(Tail(a), FALSE)

-----------------------------------------------------------------------------
(* Comparison and selection, bigint/cmp.rs.                                *)

self_or_zero(a, s) == Wires(Len(a), LAMBDA i : a[i] /\ s)
self_or_zero_inv(a, s) ==
  Wires(Len(a), LAMBDA i : and_variant(a[i], s, <<FALSE, TRUE, FALSE>>))

equal_zero(a) ==
  LET res[i \in 1 .. Len(a)] ==
        IF i = 1 THEN a[1] = a[2]
        ELSE and_variant(a[i], res[i - 1], <<TRUE, FALSE, FALSE>>)
  IN IF Len(a) = 1 THEN a[1] # TRUE ELSE res[Len(a)]

equal_constant(a, b) ==
  LET b_bits == bits_of(b, Len(a))
      one_ind == CHOOSE i \in 1 .. Len(a) : b_bits[i] /\ \A j \in 1 .. i - 1 : ~b_bits[j]
      res[i \in 0 .. Len(a)] ==
        IF i = 0 THEN a[one_ind]
        ELSE IF i = one_ind THEN res[i - 1]
        ELSE and_variant(a[i], res[i - 1], <<~b_bits[i], FALSE, FALSE>>)
  IN IF b = 0 THEN equal_zero(a) ELSE res[Len(a)]

equal(a, b) == equal_constant(Wires(Len(a), LAMBDA i : a[i] # b[i]), 0)

Inverted(a) == Wires(Len(a), LAMBDA i : a[i] # TRUE)

(* The carry of a + ~b; of ~a + b for the constant.                        *)
greater_than(a, b) == MSB(add(a, Inverted(b)))
less_than_constant(a, b) == MSB(add_constant(Inverted(a), b))

select(a, b, s) == Wires(Len(a), LAMBDA i : selector(a[i], b[i], s))

mux(a, s) ==   \* `bigint::multiplexer`
  Wires(Len(a[1]), LAMBDA i : multiplexer(Wires(Len(a), LAMBDA j : a[j][i]), s))

(* `odd_part`: the odd factor of `a` and the power of two taken out of it. *)
odd_part(a) ==
  LET seen[i \in 1 .. Len(a)] == IF i = 1 THEN a[1] ELSE seen[i - 1] \/ a[i]
      odd[i \in 0 .. Len(a)] ==
        IF i = 0 THEN a ELSE select(odd[i - 1], half(odd[i - 1]), seen[i])
  IN [odd |-> odd[Len(a)],
      even |-> Wires(Len(a), LAMBDA i :
                 IF i = 1 THEN a[1]
                 ELSE and_variant(seen[i - 1], a[i], <<TRUE, FALSE, FALSE>>))]

-----------------------------------------------------------------------------
(* Multiplication, bigint/mul.rs.                                          *)

(* Overwrite `a` from wire i on (0-based, as slices are in the code).      *)
CopyAt(a, i, b) ==
  Wires(Len(a), LAMBDA k : IF k > i /\ k <= i + Len(b) THEN b[k - i] ELSE a[k])
Slice(a, from, to) == SubSeq(a, from + 1, to)

mul_naive(a, b) ==
  LET len == Len(a)
      row(acc, i) ==
        CopyAt(acc, i - 1, add(Slice(acc, i - 1, i - 1 + len), self_or_zero(a, b[i])))
  IN FoldLeft(row, Zeros(2 * len), [i \in 1 .. len |-> i])

is_use_karatsuba(len) == len # 21 /\ len > KaratsubaAbove

(* Mutant: the cross term is cut to `len` wires and loses its carry.       *)
CrossWidthShort(len) == len
CrossWidth(len) == len + 1

(* One level of `mul_karatsuba` over the products of its parts.            *)
KaratsubaStep(mul_of(_, _), a, b) ==
  LET len == Len(a)
      len_0 == len \div 2
      len_1 == len - len_0
      extend(x, n) == x \o Zeros(n)
      sq_0 == mul_of(SubSeq(a, 1, len_0), SubSeq(b, 1, len_0))
      sq_1 == mul_of(SubSeq(a, len_0 + 1, len), SubSeq(b, len_0 + 1, len))
      sum_a == add(extend(SubSeq(a, 1, len_0), len_1 - len_0), SubSeq(a, len_0 + 1, len))
      sum_b == add(extend(SubSeq(b, 1, len_0), len_1 - len_0), SubSeq(b, len_0 + 1, len))
      sq_sum == extend(add(extend(sq_0, 2 * (len_1 - len_0)), sq_1), 1)
      cross == SubSeq(sub_without_borrow(mul_of(sum_a, sum_b), sq_sum),
                      1, CrossWidth(len))
      low == CopyAt(Zeros(2 * len), 0, sq_0)
      mid == CopyAt(low, len_0, add(Slice(low, len_0, len_0 + Len(cross)), cross))
      high == add(Slice(mid, 2 * len_0, 2 * len), sq_1)
  IN CopyAt(mid, 2 * len_0, SubSeq(high, 1, 2 * len_1))

(* Parts are multiplied by Karatsuba again when `is_use_karatsuba` says    *)
(* so; below five bits `mul_karatsuba` itself falls back.                  *)
mul_karatsuba(a, b) ==
  LET product[p, q \in Seq(BOOLEAN)] ==
        LET mul_of(x, y) == IF is_use_karatsuba(Len(x)) THEN product[x, y]
                            ELSE mul_naive(x, y)
        IN IF Len(p) < 5 THEN mul_naive(p, q) ELSE KaratsubaStep(mul_of, p, q)
  IN product[a, b]

mul(a, b) == IF Len(a) >= 5 /\ is_use_karatsuba(Len(a)) THEN mul_karatsuba(a, b)
             ELSE mul_naive(a, b)

(* The places of the ones of a constant, in order (0-based).               *)
OnesOf(c, len, below) ==
  SelectSeq([i \in 1 .. len |-> i - 1], LAMBDA i : bits_of(c, len)[i + 1] /\ i < below)

mul_by_constant(a, c) ==
  LET len == Len(a)
      row(acc, i) == CopyAt(acc, i, add(a, Slice(acc, i, i + len)))
  IN FoldLeft(row, Zeros(2 * len), OnesOf(c, len, len))

KeepCarry(i, number_of_bits, power) == i + number_of_bits < power

(* `a * c` modulo 2^power.  The ones of `c` are worked off in chunks, each *)
(* a component of its own whose accumulator is passed on; only rows that   *)
(* reach below `power` are added, without the carry at the top.            *)
Chunks(ones) == (Len(ones) + PER_CHUNK - 1) \div PER_CHUNK
ChunkOf(ones, idx) ==
  SubSeq(ones, PER_CHUNK * idx + 1,
         IF idx = Chunks(ones) - 1 THEN Len(ones) ELSE PER_CHUNK * (idx + 1))

AddRows(a, prev, ones, power) ==
  LET len == Len(a)
      row(res, i) ==
        LET number_of_bits == IF power - i < len THEN power - i ELSE len
            new_bits == add(SubSeq(a, 1, number_of_bits), Slice(res, i, i + number_of_bits))
        IN CopyAt(res, i, IF KeepCarry(i, number_of_bits, power) THEN new_bits
                          ELSE Pop(new_bits))
  IN FoldLeft(row, prev, ones)

mul_by_constant_modulo_power_two(a, c, power) ==
  LET ones == OnesOf(c, Len(a), power)
  IN FoldLeft(LAMBDA prev, n : AddRows(a, prev, ChunkOf(ones, n - 1), power),
              Zeros(power), [n \in 1 .. Chunks(ones) |-> n])
=============================================================================
