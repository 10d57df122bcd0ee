------------------------------ MODULE Fp254Impl -------------------------------
(***************************************************************************)
(* The trait `Fp254Impl` of src/gadgets/bn254/fp254impl.rs: arithmetic     *)
(* modulo a prime on N_BITS wires, the Montgomery form with R = 2^N_BITS,  *)
(* and the constants of src/math/montgomery.rs.                            *)
(*                                                                         *)
(* The trait serves two fields, but its default methods compute their own  *)
(* constants in `ark_bn254::Fq`, whichever the field is.  Hence two        *)
(* moduli: MODULUS of the implementing type, FQ of ark_bn254::Fq.          *)
(***************************************************************************)
EXTENDS BigInt

CONSTANTS N_BITS, MODULUS, FQ

R == 2 ^ N_BITS

ASSUME FieldAssumption ==
  /\ N_BITS \in Nat \ {0, 1}
  /\ MODULUS \in R \div 2 .. R - 1 /\ FQ \in R \div 2 .. R - 1
  /\ \A d \in 2 .. N_BITS : MODULUS % d # 0 \/ MODULUS = d

(* Arithmetic of ark_bn254 off the circuit.                                *)
Residue(x, m) == ((x % m) + m) % m
Quotient(x, y, m) == CHOOSE z \in 0 .. m - 1 : (z * y) % m = Residue(x, m)
half_modulus == Quotient(1, 2, MODULUS)
one_third_modulus == Quotient(1, 3, MODULUS)
two_third_modulus == Quotient(2, 3, MODULUS)
not_modulus == R - MODULUS

(* `extended_gcd` and `calculate_montgomery_constants`.                    *)
extended_gcd(a, b) ==
  LET euclid[i \in Nat, x, x1, y, y1, a1, b1 \in Int] ==
        IF b1 = 0 THEN <<a1, x, y>>
        ELSE LET q == a1 \div b1
             IN euclid[i + 1, x1, x - q * x1, y1, y - q * y1, b1, a1 - q * b1]
  IN euclid[0, 1, 0, 0, 1, a, b]
r_inverse == Residue(extended_gcd(R, MODULUS)[2], MODULUS)
m_inverse == Residue(extended_gcd(R, MODULUS)[3], R)

new_constant(u) == bits_of(u, N_BITS)

-----------------------------------------------------------------------------
(* Addition, negation, halving.                                            *)

(* Take the modulus off once unless there is no carry and it does not fit. *)
ReduceOnce(wires, u) ==
  LET v == less_than_constant(wires, MODULUS)
      s == and_variant(u, v, <<TRUE, FALSE, FALSE>>)
  IN select(wires, add_constant_without_carry(wires, not_modulus), s)

fp_add(a, b) == LET sum == add(a, b) IN ReduceOnce(Pop(sum), MSB(sum))
fp_add_constant(a, b) ==
  IF b = 0 THEN a
  ELSE LET sum == add_constant(a, b) IN ReduceOnce(Pop(sum), MSB(sum))
fp_neg(a) ==
  fp_add_constant(Inverted(a), Residue(1 - not_modulus, FQ))
fp_sub(a, b) == fp_add(a, fp_neg(b))
fp_double(a) == ReduceOnce(Insert0(Pop(a), FALSE), MSB(a))
fp_triple(a) == fp_add(fp_double(a), a)
fp_half(a) ==
  select(add_constant_without_carry(half(a), half_modulus), half(a), a[1])

(* `div6`: half of `a`, divided by three bit by bit from the top.  r2 and  *)
(* r1 are the remainder; what is left of it is made good by 1/3 and 2/3.   *)
AddIf(bit, a, c) == select(add_constant_without_carry(a, c), a, bit)
fp_div6(a) ==
  LET h == fp_half(a)
      at[j \in 1 .. N_BITS + 1] ==   \* after the wires down to j
        IF j > N_BITS THEN [r1 |-> FALSE, r2 |-> FALSE, result |-> FALSE]
        ELSE LET before == at[j + 1]
                 result == before.r1 \/ (before.r2 /\ h[j])
                 edge_case == result /\ ~h[j]   \* Gate::nimp
             IN [result |-> result,
                 r1 |-> (before.r2 # result) # edge_case,
                 r2 |-> h[j] # result]
      third == Wires(N_BITS, LAMBDA j : at[j].result)
  IN AddIf(at[1].r1, AddIf(at[1].r2, third, one_third_modulus), two_third_modulus)

-----------------------------------------------------------------------------
(* Montgomery form.                                                        *)

as_montgomery(x) == (x * (R % FQ)) % FQ

(* Mutant: the difference is taken without asking which side is larger.    *)
BoundIgnored(part, x_high) == FALSE
BoundCheck(part, x_high) == greater_than(part, x_high)

(* x_high less the high half of q * MODULUS, which is taken down by the    *)
(* modulus first when it is larger.                                        *)
Reduced(x_high, part) ==
  sub_without_borrow(x_high, sub_without_borrow(part,
    self_or_zero(new_constant(MODULUS), BoundCheck(part, x_high))))
montgomery_reduce(x) ==
  LET q == mul_by_constant_modulo_power_two(SubSeq(x, 1, N_BITS), m_inverse, N_BITS)
  IN Reduced(SubSeq(x, N_BITS + 1, 2 * N_BITS),
             SubSeq(mul_by_constant(q, MODULUS), N_BITS + 1, 2 * N_BITS))

fp_mul_montgomery(a, b) == montgomery_reduce(mul(a, b))
fp_mul_by_constant_montgomery(a, b) ==
  IF b = 0 THEN new_constant(0)
  ELSE IF b = as_montgomery(1) THEN a
  ELSE montgomery_reduce(mul_by_constant(a, b))
fp_square_montgomery(a) == fp_mul_montgomery(a, a)

(* Square and multiply from the bit below the top one.                     *)
fp_exp_by_constant_montgomery(a, exp) ==
  LET top == CHOOSE i \in 0 .. exp : 2 ^ i <= exp /\ exp < 2 ^ (i + 1)
      times(square, bit) == IF bit = 1 THEN fp_mul_montgomery(a, square) ELSE square
      power[i \in 0 .. top] ==   \* by the bits from `i` up
        IF i = top THEN a
        ELSE times(fp_square_montgomery(power[i + 1]), (exp \div 2 ^ i) % 2)
  IN IF exp = 0 THEN new_constant(1) ELSE IF exp = 1 THEN a ELSE power[0]

-----------------------------------------------------------------------------
(* `inverse`: Kaliski's almost inverse on the odd part, then the powers of *)
(* two, of the even part and of the iteration count, are divided out.      *)

Either(c1, x1, c2, x2, c3, x3, not_c4, x4) ==
  add_without_carry(add_without_carry(add_without_carry(
    self_or_zero_inv(x4, not_c4), self_or_zero(x1, c1)), self_or_zero(x2, c2)),
    self_or_zero(x3, c3))

Finished(v) == equal_constant(v, 1)

InverseIteration(c) ==
  LET u == c.u
      v == c.v
      not_x1 == u[1]
      not_x2 == v[1]
      x3 == greater_than(u, v)
      p2 == and_variant(not_x1, not_x2, <<FALSE, TRUE, FALSE>>)
      p3 == not_x1 /\ not_x2 /\ x3
      p4 == (not_x1 /\ not_x2) /\ ~x3
      u1 == half(u)
      v2 == half(v)
      r_2 == double_without_overflow(c.r)
      s_2 == double_without_overflow(c.s)
      r_s == add_without_carry(c.r, c.s)
      k_1 == add_constant_without_carry(c.k, 1)
      pick(x2, x3_, x4, x1) == Either(p2, x2, p3, x3_, p4, x4, not_x1, x1)
      keep(old, new) == select(old, new, Finished(v))
  IN [u |-> keep(u, pick(u, sub_without_borrow(u1, v2), u, u1)),
      v |-> keep(v, pick(v2, v, sub_without_borrow(v2, u1), v)),
      r |-> keep(c.r, pick(r_2, r_s, r_2, c.r)),
      s |-> keep(c.s, pick(c.s, s_2, r_s, s_2)),
      k |-> keep(c.k, pick(k_1, k_1, k_1, k_1))]

Repeat(n, step(_), x) == FoldLeft(LAMBDA y, i : step(y), x, [i \in 1 .. n |-> i])

(* The even part is halved away, then the iteration count is counted down. *)
Halved(s, stop) == select(s, fp_half(s), stop)
ByEven(p) ==
  LET stop == equal_constant(p.rest, 1)
  IN [s |-> Halved(p.s, stop), rest |-> Halved(p.rest, stop)]
ByTwo(p) ==
  LET stop == equal_constant(p.rest, 0)
  IN [s |-> Halved(p.s, stop),
      rest |-> select(p.rest, fp_add_constant(p.rest, Residue(-1, FQ)), stop)]
DivideOut(almost, even) ==
  LET without_even == Repeat(N_BITS, ByEven, [s |-> almost.s, rest |-> even])
  IN Repeat(2 * N_BITS, ByTwo, [s |-> without_even.s, rest |-> almost.k]).s

AlmostInverse(odd) ==
  Repeat(2 * N_BITS, InverseIteration,
         [u |-> half(fp_neg(odd)), v |-> odd,
          r |-> new_constant(1), s |-> new_constant(2), k |-> new_constant(1)])
fp_inverse(a) ==
  LET parts == odd_part(a)
  IN DivideOut(AlmostInverse(parts.odd), parts.even)

fp_inverse_montgomery(a) ==
  LET r == R % FQ
  IN fp_mul_by_constant_montgomery(fp_inverse(a), (((r * r) % FQ) * r) % FQ)

-----------------------------------------------------------------------------
(* Of gadgets/bn254/fq.rs only: the quadratic character and the root, for  *)
(* a modulus that is 3 modulo 4.                                           *)
is_qnr_montgomery(x) ==
  equal(fp_exp_by_constant_montgomery(x, (MODULUS - 1) \div 2),
        new_constant(as_montgomery(FQ - 1)))
sqrt_montgomery(a) == fp_exp_by_constant_montgomery(a, (MODULUS + 1) \div 4)
=============================================================================
