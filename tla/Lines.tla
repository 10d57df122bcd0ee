---------------------------------- MODULE Lines -------------------------------
(***************************************************************************)
(* The steps of src/gadgets/bn254/pairing.rs on the second argument of the *)
(* pairing.  The file has each twice, on ark_bn254's points off the        *)
(* circuit and as a gadget; the arithmetic is a parameter here.  R is      *)
(* (x/z, y/z) for <<x, y, z>>, Q is affine, a line has three coefficients. *)
(***************************************************************************)
EXTENDS Integers, Sequences, Eagerly

CONSTANTS add(_, _), sub(_, _), neg(_), half(_), triple(_),
          mul(_, _), square(_), frobenius(_),
          times_b(_),                          \* by COEFF_B of G2
          mul_by_q_x(_), mul_by_q_y(_),        \* by TWIST_MUL_BY_Q_X and _Y
          ATE_LOOP_COUNT                       \* signed digits, lowest first

double_in_place(r) ==
  LET a == half(mul(r[1], r[2]))
      b == square(r[2])
      c == square(r[3])
      e == times_b(triple(c))
      f == triple(e)
      g == half(add(b, f))
      h == sub(square(add(r[2], r[3])), add(b, c))
  IN [r |-> <<mul(a, sub(b, f)), sub(square(g), triple(square(e))), mul(b, h)>>,
      line |-> <<neg(h), triple(square(r[1])), sub(e, b)>>]

add_in_place(r, q) ==
  LET theta == sub(r[2], mul(q[2], r[3]))
      lambda == sub(r[1], mul(q[1], r[3]))
      d == square(lambda)
      e == mul(lambda, d)
      g == mul(r[1], d)
      h == sub(add(e, mul(r[3], square(theta))), add(g, g))
  IN [r |-> <<mul(lambda, h), sub(mul(theta, sub(g, h)), mul(e, r[2])), mul(r[3], e)>>,
      line |-> <<lambda, neg(theta), sub(mul(theta, q[1]), mul(lambda, q[2]))>>]

minus(q) == <<q[1], neg(q[2]), q[3]>>
mul_by_char(q) == <<mul_by_q_x(frobenius(q[1])), mul_by_q_y(frobenius(q[2])), q[3]>>

(* A doubling for each digit below the top one and an addition for each    *)
(* that is not zero, then two additions of images of Q under Frobenius.    *)
ell_coeffs(q) ==
  LET added(s, p) == LET t == add_in_place(s.r, p)
                     IN [r |-> t.r, lines |-> Append(s.lines, t.line)]
      doubled(s) == LET t == double_in_place(s.r)
                    IN [r |-> t.r, lines |-> Append(s.lines, t.line)]
      after[i \in 1 .. Len(ATE_LOOP_COUNT)] ==   \* the digits from i up
        IF i = Len(ATE_LOOP_COUNT) THEN [r |-> q, lines |-> <<>>]
        ELSE LET s == OnValue(doubled, after[i + 1])
             IN CASE ATE_LOOP_COUNT[i] = 1 -> OnValues(added, s, q)
                  [] ATE_LOOP_COUNT[i] = -1 -> OnValues(added, s, minus(q))
                  [] OTHER -> s
      q1 == mul_by_char(q)
  IN OnValues(added, OnValues(added, after[1], q1), minus(mul_by_char(q1))).lines
===============================================================================
