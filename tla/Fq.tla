---------------------------------- MODULE Fq ----------------------------------
(***************************************************************************)
(* The field gadget `Fq` of src/gadgets/bn254/fq.rs as its callers see it: *)
(* what each circuit returns for the numbers its input wires hold.  That   *)
(* the gates compute exactly these functions is checked on Fp254Impl.      *)
(*                                                                         *)
(* A field element is a number in 0 .. MODULUS.  MODULUS itself is a       *)
(* second zero: it fits the wires, `neg` produces it, sums and products    *)
(* accept it, and comparison with zero does not.                           *)
(***************************************************************************)
EXTENDS Integers

CONSTANTS
  MODULUS, N_BITS,
  R_INVERSE,       \* of the Montgomery factor 2^N_BITS
  InverseOfZero    \* what the inverse gadget returns for zero

Elements == 0 .. MODULUS
R == 2 ^ N_BITS

(* Arithmetic of ark_bn254::Fq off the circuit: canonical numbers.         *)
ark_add(a, b) == (a + b) % MODULUS
ark_mul(a, b) ==   \* in two parts, for 32-bit integers
  (((a * (b \div 256)) % MODULUS) * 256 + a * (b % 256)) % MODULUS
ark_neg(a) == (MODULUS - a) % MODULUS
ark_power(a, n) ==
  LET power[k \in Nat] ==
        IF k = 0 THEN 1
        ELSE LET h == power[k \div 2]
             IN IF k % 2 = 0 THEN ark_mul(h, h) ELSE ark_mul(a, ark_mul(h, h))
  IN power[n]
ark_inverse(a) == ark_power(a % MODULUS, MODULUS - 2)   \* Fermat

as_montgomery(a) == ark_mul(a, R % MODULUS)
from_montgomery(a) == ark_mul(a % MODULUS, R_INVERSE)

ASSUME FqAssumption ==
  /\ MODULUS \in R \div 2 .. R - 1 /\ MODULUS % 4 = 3
  /\ ark_mul(R % MODULUS, R_INVERSE) = 1
  /\ InverseOfZero \in Elements

(* The modulus is taken off once, if it fits.                              *)
ReduceOnce(s) == IF s >= MODULUS THEN s - MODULUS ELSE s

add(a, b) == ReduceOnce(a + b)
add_constant(a, b) == IF b = 0 THEN a ELSE ReduceOnce(a + b)
neg(a) == MODULUS - a
sub(a, b) == add(a, neg(b))
double(a) == ReduceOnce(2 * a)
triple(a) == add(double(a), a)
half(a) == IF a % 2 = 0 THEN a \div 2 ELSE (a + MODULUS) \div 2
div6(a) == LET i == CHOOSE i \in 0 .. 5 : (a + i * MODULUS) % 6 = 0
           IN (a + i * MODULUS) \div 6

mul_montgomery(a, b) == ark_mul(ark_mul(a, b), R_INVERSE)
square_montgomery(a) == mul_montgomery(a, a)
mul_by_constant_montgomery(a, b) ==
  IF b = as_montgomery(1) THEN a ELSE mul_montgomery(a, b)

(* a^-1 R for aR.                                                          *)
inverse_montgomery(a) ==
  IF a = 0 THEN mul_montgomery(InverseOfZero, as_montgomery(as_montgomery(R % MODULUS)))
  ELSE as_montgomery(ark_inverse(from_montgomery(a)))

(* Square and multiply; the exponent zero gives the number one, not the    *)
(* Montgomery form of one.                                                 *)
exp_by_constant_montgomery(a, exp) ==
  LET power[k \in 1 .. exp] ==
        IF k = 1 THEN a
        ELSE LET square == square_montgomery(power[k \div 2])
             IN IF k % 2 = 1 THEN mul_montgomery(a, square) ELSE square
  IN IF exp = 0 THEN 1 ELSE power[exp]

equal_constant(a, b) == a = b
is_qnr_montgomery(x) ==
  exp_by_constant_montgomery(x, (MODULUS - 1) \div 2) = as_montgomery(MODULUS - 1)
sqrt_montgomery(a) == exp_by_constant_montgomery(a, (MODULUS + 1) \div 4)
===============================================================================
