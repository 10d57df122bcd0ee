-------------------------------- MODULE Jacobian ------------------------------
(***************************************************************************)
(* The curve formulas that g1.rs and g2.rs of src/gadgets/bn254 share, over*)
(* the field each instantiates them with: <<x, y, z>> stands for the affine*)
(* point (x / z^2, y / z^3) and z = 0 for infinity.  The curve is          *)
(* y^2 = x^3 + b; no formula mentions b.                                   *)
(***************************************************************************)
EXTENDS Integers, Sequences, Eagerly

CONSTANTS
  add(_, _), sub(_, _), double(_), triple(_), mul(_, _), square(_),   \* gadgets
  ZERO, ONE, ark_add(_, _), ark_mul(_, _), ark_neg(_), ark_inverse(_),
  as_montgomery(_),
  N_BITS    \* wires of a scalar

-------------------------------------------------------------------------------
(* ark_bn254 off the circuit: a point is affine or infinity.               *)
Infinity == <<>>
ark_double(x) == ark_add(x, x)
Chord(p, q, slope) ==
  LET x == ark_add(ark_mul(slope, slope), ark_neg(ark_add(p[1], q[1])))
  IN <<x, ark_add(ark_mul(slope, ark_add(p[1], ark_neg(x))), ark_neg(p[2]))>>
Plus(p, q) ==
  IF p = Infinity THEN q
  ELSE IF q = Infinity THEN p
  ELSE IF p[1] # q[1]
  THEN Chord(p, q, ark_mul(ark_add(q[2], ark_neg(p[2])),
                           ark_inverse(ark_add(q[1], ark_neg(p[1])))))
  ELSE IF p[2] # q[2] \/ p[2] = ZERO THEN Infinity
  ELSE LET xx == ark_mul(p[1], p[1])
       IN Chord(p, p, ark_mul(ark_add(xx, ark_double(xx)), ark_inverse(ark_double(p[2]))))
Minus(p) == IF p = Infinity THEN p ELSE <<p[1], ark_neg(p[2])>>
Times(n, p) ==
  LET multiple[k \in Nat] ==
        IF k = 0 THEN Infinity
        ELSE LET h == multiple[k \div 2]
                 twice == OnValues(Plus, h, h)
             IN IF k % 2 = 0 THEN twice ELSE OnValues(Plus, p, twice)
  IN multiple[n]

(* `into_group`, and the point that three coordinates stand for.           *)
Projective(p) == IF p = Infinity THEN <<ONE, ONE, ZERO>> ELSE <<p[1], p[2], ONE>>
Affine(p) ==
  LET inverse == ark_inverse(p[3])
      inverse_square == ark_mul(inverse, inverse)
  IN IF p[3] = ZERO THEN Infinity
     ELSE <<ark_mul(p[1], inverse_square),
            ark_mul(p[2], ark_mul(inverse_square, inverse))>>
Rescaled(p, z) ==
  LET zz == ark_mul(z, z)
  IN <<ark_mul(p[1], zz), ark_mul(p[2], ark_mul(zz, z)), ark_mul(p[3], z)>>
point_as_montgomery(p) == [i \in 1 .. 3 |-> as_montgomery(p[i])] \o <<>>

-------------------------------------------------------------------------------
(* The bits of `s` choose among 2^w candidates, lowest bit first.          *)
multiplexer(a, s) ==
  LET index[i \in 0 .. Len(s)] ==
        IF i = 0 THEN 1 ELSE index[i - 1] + (IF s[i] THEN 2 ^ (i - 1) ELSE 0)
  IN a[index[Len(s)]]

(* Mutant: nothing is chosen, and a sum with infinity is infinity.         *)
ChooseFormula(p, q, sum) == sum
ChooseSum(p, q, sum) ==
  multiplexer(<<sum, q, p, <<ZERO, ZERO, ZERO>> >>, <<p[3] = ZERO, q[3] = ZERO>>)

(* Of two different points, or of infinity and any point: equal points     *)
(* give z = 0.                                                             *)
point_add(p, q) ==
  LET z1s == square(p[3])
      z2s == square(q[3])
      u1 == mul(p[1], z2s)
      s1 == mul(p[2], mul(z2s, q[3]))
      r == sub(s1, mul(q[2], mul(z1s, p[3])))
      h == sub(u1, mul(q[1], z1s))
      h2 == square(h)
      g == mul(h, h2)
      v == mul(u1, h2)
      x3 == sub(add(square(r), g), double(v))
      y3 == sub(mul(r, sub(v, x3)), mul(s1, g))
  IN ChooseSum(p, q, <<x3, y3, mul(mul(p[3], q[3]), h)>>)

point_double(p) ==
  LET y2 == square(p[2])
      m == triple(square(p[1]))
      s == double(double(mul(p[1], y2)))
      x == sub(square(m), double(s))
      y == sub(mul(m, sub(s, x)), double(double(double(square(y2)))))
      z == double(mul(p[2], p[3]))
  IN <<x, y, multiplexer(<<z, ZERO>>, <<p[3] = ZERO>>)>>

-------------------------------------------------------------------------------
(* The wires of the scalar, W at a time.  Window i chooses a multiple of   *)
(* the base from a table made off the circuit, whose entries are doubled W *)
(* times from one window to the next.                                      *)
Bit(s, i) == (s \div 2 ^ i) % 2 = 1
WindowBits(W, i) == IF W < N_BITS - i * W THEN W ELSE N_BITS - i * W
WindowTable(W, i, base, constant(_)) ==
  [d \in 1 .. 2 ^ WindowBits(W, i) |->
     constant(Projective(Times((d - 1) * 2 ^ (W * i), base)))]

scalar_mul_by_constant_base(W, s, base, constant(_)) ==
  LET windows == (N_BITS + W - 1) \div W
      chosen(i) ==
        multiplexer(WindowTable(W, i, base, constant),
                    [j \in 1 .. WindowBits(W, i) |-> Bit(s, W * i + j - 1)])
      acc[i \in 0 .. windows - 1] ==
        IF i = 0 THEN chosen(0) ELSE OnValues(point_add, acc[i - 1], chosen(i))
  IN acc[windows - 1]

(* The sum over nonempty scalars and their bases.                          *)
msm(products) ==
  LET sum[i \in DOMAIN products] ==
        IF i = 1 THEN products[1] ELSE OnValues(point_add, sum[i - 1], products[i])
  IN sum[Len(products)]
===============================================================================
