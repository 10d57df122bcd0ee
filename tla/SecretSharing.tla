----------------------------- MODULE SecretSharing -----------------------------
(***************************************************************************)
(* Verifiable secret sharing, src/cut_and_choose/vsss/core.rs, and the     *)
(* adaptor signatures and label tables built on it.  Scalars are numbers   *)
(* below Q; a point of the group is known by its discrete logarithm, which *)
(* is linear in the point, as all that is done with points here is.  A     *)
(* polynomial is kept by its values at 0 .. degree.                        *)
(***************************************************************************)
EXTENDS Integers, Sequences, FiniteSets, Functions, Eagerly

CONSTANTS
  Q,         \* the order of secp256k1, a prime
  Q_BITS,    \* Fr::MODULUS_BIT_SIZE
  Window     \* bits per table of the generator's multiples

Fr == 0 .. Q - 1
inverse == [a \in 1 .. Q - 1 |-> CHOOSE b \in Fr : (a * b) % Q = 1]
bits_le(s) == [i \in 1 .. Q_BITS |-> (s \div 2 ^ (i - 1)) % 2 = 1]

SumOver(S, f(_)) == FoldFunctionOnSet(+, 0, [i \in S |-> f(i)], S) % Q
ProductOver(S, f(_)) ==
  FoldFunctionOnSet(LAMBDA a, b : (a * b) % Q, 1, [i \in S |-> f(i)], S)

-------------------------------------------------------------------------------
(* Signed digits, lowest first: a run of ones is one subtraction and one   *)
(* addition, a one by itself an addition.                                  *)
neg_pos_sum_of_powers_of_two(bits) ==
  LET one(i) == i \in DOMAIN bits /\ bits[i]
      alone(i) == one(i) /\ ~one(i - 1) /\ ~one(i + 1)
  IN [i \in 1 .. Len(bits) + 1 |->
        CASE alone(i) -> 1
          [] one(i) /\ ~one(i - 1) /\ ~alone(i) -> -1
          [] ~one(i) /\ one(i - 1) /\ ~alone(i - 1) -> 1
          [] OTHER -> 0]

(* A scalar times the generator: one entry of the table for each window of *)
(* its bits.                                                               *)
windowed_mul(scalar) ==
  LET entry(outer, inner) == (inner * 2 ^ (Window * outer)) % Q
      inner(outer) == (scalar \div 2 ^ (Window * outer)) % 2 ^ Window
  IN SumOver(0 .. (Q_BITS + Window - 1) \div Window - 1,
             LAMBDA outer : entry(outer, inner(outer)))
generator_batch_mul(scalars) == [i \in DOMAIN scalars |-> OnValue(windowed_mul, scalars[i])]

-------------------------------------------------------------------------------
(* i!, 1 / i! and 1 / i for i below n, with one inversion.                 *)
precalculated_factorials_and_inverses(n) ==
  LET factorial(i) == ProductOver(1 .. i, LAMBDA k : k)
      inv_factorial(i) ==
        (inverse[factorial(n - 1)] * ProductOver(i + 1 .. n - 1, LAMBDA k : k)) % Q
  IN [fact |-> [i \in 0 .. n - 1 |-> factorial(i)],
      inv_fact |-> [i \in 0 .. n - 1 |-> inv_factorial(i)],
      inv |-> [i \in 0 .. n - 1 |->
                 IF i = 0 THEN 0 ELSE (inv_factorial(i) * factorial(i - 1)) % Q]]

minus(a) == (Q - a) % Q

(* Mutant: the sign is forgotten.                                          *)
Unsigned(n, x, a) == a

(* a * (-1) ^ (n - x - 1).                                                 *)
Signed(n, x, a) == IF (n - x) % 2 = 0 THEN minus(a) ELSE a

(* A value times a scalar, directly or over a table of doublings.          *)
Scaled(v, scalar) == (v * scalar) % Q
ScaledByTable(v, scalar) ==
  LET digits == neg_pos_sum_of_powers_of_two(bits_le(scalar))
      table(i) == (v * 2 ^ (i - 1)) % Q
  IN SumOver(DOMAIN digits, LAMBDA i : digits[i] * table(i))

(* The values at the n_points points after the known ones.                 *)
eval_at_suffix_points(scaled(_, _), values, n_points) ==
  LET n_known == Len(values)
      t == precalculated_factorials_and_inverses(n_known + n_points)
      coeff(x) ==
        IF x < n_known
        THEN Signed(n_known, x, (t.inv_fact[x] * t.inv_fact[n_known - 1 - x]) % Q)
        ELSE (t.fact[x] * t.inv_fact[x - n_known]) % Q
      scalar(i, x) == (((coeff(x) * coeff(i)) % Q) * t.inv[x - i]) % Q
  IN [j \in 1 .. n_points |->
        SumOver(0 .. n_known - 1,
                LAMBDA i : OnValues(scaled, values[i + 1], scalar(i, n_known + j - 1)))]

(* Shares of a polynomial, and their commitments; the share with index i is*)
(* the value at i.                                                         *)
shares(polynomial, num_shares) ==
  polynomial
    \o eval_at_suffix_points(Scaled, polynomial, num_shares - Len(polynomial))
coefficient_commits(polynomial) == generator_batch_mul(polynomial)
share_commits(polynomial, num_shares) == generator_batch_mul(shares(polynomial, num_shares))

(* `ShareCommits::verify` against the commitments of the polynomial.       *)
verify(commits, polynomial_commits) ==
  commits =
    polynomial_commits
      \o eval_at_suffix_points(ScaledByTable, polynomial_commits,
                               Len(commits) - Len(polynomial_commits))

(* `ShareCommits::verify_shares`: of pairs of an index and a share.        *)
verify_shares(commits, indexed) ==
  /\ \A p, q \in indexed : p[1] = q[1] => p = q
  /\ \A p \in indexed : p[1] < Len(commits) /\ commits[p[1] + 1] = OnValue(windowed_mul, p[2])

-------------------------------------------------------------------------------
(* From the values at the known points, those at the missing ones; together*)
(* the points are 0 .. n - 1.                                              *)
lagrange_interpolate_whole_polynomial(known, missing) ==
  LET n == Cardinality(DOMAIN known) + Cardinality(missing)
      t == precalculated_factorials_and_inverses(n)
      over(x, i) == IF i < x THEN t.inv[x - i] ELSE minus(t.inv[i - x])
      inverse_differences(x) ==   \* from all other known points
        Signed(n, x, (((t.inv_fact[x] * t.inv_fact[n - 1 - x]) % Q)
                        * ProductOver(missing \ {x}, LAMBDA i : (x - i) % Q)) % Q)
      differences(x) ==
        Signed(n, x, (((t.fact[x] * t.fact[n - 1 - x]) % Q)
                        * ProductOver(missing \ {x}, LAMBDA i : over(x, i))) % Q)
  IN [x \in missing |->
        SumOver(DOMAIN known,
                LAMBDA i : (over(x, i) * differences(x) % Q)
                             * (inverse_differences(i) * known[i] % Q))]

-------------------------------------------------------------------------------
(* Reference: the value at x of the polynomial with these coefficients.    *)
ValueAt(coefficients, x) ==
  LET horner[k \in 0 .. Len(coefficients)] ==
        IF k = 0 THEN 0
        ELSE (horner[k - 1] * x + coefficients[Len(coefficients) + 1 - k]) % Q
  IN horner[Len(coefficients)]
ValuesOf(coefficients, n) == [x \in 1 .. n |-> ValueAt(coefficients, x - 1)]

-------------------------------------------------------------------------------
(***************************************************************************)
(* A wide label stands for the value of a chunk of input wires; it is a    *)
(* scalar.  Here is how the garbler lets one be learnt, by an adaptor      *)
(* signature (src/cut_and_choose/vsss/adaptor.rs), and what it opens: an   *)
(* entry of a table of the wires' labels (wide_garbling.rs).               *)
(*                                                                         *)
(* A point is known by its logarithm, so a point and its negation are P    *)
(* and Q - P: they share the x coordinate.                                 *)
(***************************************************************************)
CONSTANTS
  OddY(_),                  \* whether a point's y coordinate is odd
  ChallengeHash(_, _, _)    \* BIP0340/challenge, as a scalar

ASSUME PointAssumption ==
  \A P \in 1 .. Q - 1 : OddY(P) \in BOOLEAN /\ (OddY(P) <=> ~OddY(Q - P))

minus_point(P) == (Q - P) % Q
is_odd(P) == OddY(P)
xOf(P) == {P, minus_point(P)}

(* Mutant: the nonce keeps its sign.                                       *)
KeepNonce(public_sum, nonce) == nonce

(* BIP-340 wants the commitment's y even: if it is not, the nonce is       *)
(* negated with it.                                                        *)
EvenNonce(public_sum, nonce) == IF is_odd(public_sum) THEN minus(nonce) ELSE nonce

AdaptorInfo_new(evaluator_secret, garbler_commit, message, nonce) ==
  LET public_sum == (garbler_commit + nonce) % Q
      e == ChallengeHash(xOf(public_sum), xOf(evaluator_secret), message)
  IN [garbler_commit |-> garbler_commit,
      evaluator_nonce_commit |-> nonce,
      evaluator_s |-> (EvenNonce(public_sum, nonce) + e * evaluator_secret) % Q]

commit_sum(info) == (info.evaluator_nonce_commit + info.garbler_commit) % Q

(* The signature the garbler completes with its secret.                    *)
garbler_signature(info, secret) ==
  [r |-> xOf(commit_sum(info)),
   s |-> IF is_odd(commit_sum(info)) THEN (info.evaluator_s + minus(secret)) % Q
         ELSE (info.evaluator_s + secret) % Q]

(* The secret a signature gives away; the nonce must be the one expected.  *)
extracts(info, sig) == sig.r = xOf(commit_sum(info))
extract_secret(info, sig) ==
  LET diff == (sig.s + minus(info.evaluator_s)) % Q
  IN IF is_odd(commit_sum(info)) THEN minus(diff) ELSE diff

FirstOf(s, Test(_)) == CHOOSE k \in DOMAIN s : Test(s[k]) /\ \A l \in 1 .. k - 1 : ~Test(s[l])

(* One of several secrets is revealed: `WideAdaptorInfo`.                  *)
wide_new(evaluator_secret, garbler_commits, message, nonces) ==
  [k \in DOMAIN garbler_commits |->
     AdaptorInfo_new(evaluator_secret, garbler_commits[k], message, nonces[k])]
wide_garbler_signature(infos, secret) ==
  garbler_signature(
    infos[FirstOf(infos, LAMBDA x : x.garbler_commit = windowed_mul(secret))], secret)
wide_extract_secret(infos, sig) ==
  extract_secret(infos[FirstOf(infos, LAMBDA x : extracts(x, sig))], sig)

(* A verifier of BIP-340: the key is lifted to the point with even y.      *)
BIP340_verify(public_key, message, sig) ==
  LET P == CHOOSE p \in xOf(public_key) : ~is_odd(p)
      e == ChallengeHash(sig.r, xOf(public_key), message)
      R == (sig.s + minus(e * P % Q)) % Q
  IN ~is_odd(R) /\ xOf(R) = sig.r

-------------------------------------------------------------------------------
(* Mutant: the first wire is the lowest bit.                               *)
LowestFirst(index, n, bit) == (index \div 2 ^ (bit - 1)) % 2 = 1

(* The value of the bit-th of n wires in a chunk of this value.            *)
BitValue(index, n, bit) == (index \div 2 ^ (n - bit)) % 2 = 1

(* `GarbledWideLabelTable::new`: the entry of each value of the chunk is   *)
(* its wires' labels, encrypted under the wide label; the tag of zeros     *)
(* tells whether a key is the right one.                                   *)
GarbledWideLabelTable_new(byte_labels, bit_labels) ==
  LET n == Len(bit_labels)
  IN [index \in 0 .. 2 ^ n - 1 |->
        [key |-> byte_labels[index + 1],
         labels |-> [bit \in 1 .. n |->
                       IF BitValue(index, n, bit) THEN bit_labels[bit].label1
                       ELSE bit_labels[bit].label0]]]

decrypts(table, wide_label) == \E index \in DOMAIN table : table[index].key = wide_label

(* The first entry that decrypts: its index, and the wires it gives.       *)
lookup_index(table, wide_label) ==
  CHOOSE index \in DOMAIN table :
    /\ table[index].key = wide_label
    /\ \A before \in 0 .. index - 1 : table[before].key # wide_label

lookup_evaluated_wires(table, wide_label) ==
  LET index == lookup_index(table, wide_label)
      labels == table[index].labels
  IN [bit \in DOMAIN labels |->
        [active_label |-> labels[bit], value |-> BitValue(index, Len(labels), bit)]]
===============================================================================
