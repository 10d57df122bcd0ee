------------------------- MODULE ReadCounts_proofs -------------------------
(***************************************************************************)
(* Lemmas for StreamingCircuit_proofs.  First, counts of reads: sums of    *)
(* numbers and what a wire weighs in a sequence (Total, Weighed), the      *)
(* reads that Reads and Remaining count, what a configuration of frames    *)
(* owes a wire (Owing) and how that changes when the top frame reads,      *)
(* learns or gets a frame above it, what accesses do to credits, and what  *)
(* templates and the pool of templates hold.  Then the direct run of a     *)
(* circuit (Course, Meaning), the names its discipline speaks of (Written, *)
(* Own), and what it is for the wires of a configuration to have the       *)
(* values of such a run (Good), kept by reads, writes, new wires and new   *)
(* names.                                                                  *)
(*                                                                         *)
(* Total, Perform, Remaining, Course and Meaning are recursive functions.  *)
(* What they give is derived here by induction over sets (SetInduction)    *)
(* from the well-foundedness of the numbers.                               *)
(***************************************************************************)
EXTENDS StreamingCircuit, TLAPS, WellFoundedInduction

(* Induction, for a set in place of a predicate.                           *)
LEMMA SetInduction ==
  ASSUME NEW S, 0 \in S, \A n \in Nat : n \in S => n + 1 \in S
  PROVE  Nat \subseteq S
<1> DEFINE T == Nat \ S
<1> SUFFICES ASSUME T # {} PROVE FALSE
  OBVIOUS
<1>1. PICK x \in T : \A y \in T : ~ (<<y, x>> \in OpToRel(<, Nat))
  BY NatLessThanWellFounded, WFMin, T \subseteq Nat
<1>2. x # 0 /\ x - 1 \in Nat /\ x - 1 < x /\ (x - 1) + 1 = x
  OBVIOUS
<1>3. x - 1 \in T
  BY <1>2
<1> QED
  BY <1>1, <1>2, <1>3 DEF OpToRel

(* n numbers.                                                             *)
Nums(n) == [1 .. n -> Nat]

(* Numbers in a row are a sequence.                                        *)
LEMMA IsNumbers ==
  ASSUME NEW n \in Nat, NEW f \in Nums(n) PROVE f \in Seq(Nat) /\ Len(f) = n
BY DEF Nums

(* Numbers that are the same at every place are the same.                  *)
LEMMA SameNumbers ==
  ASSUME NEW n, NEW f \in Nums(n), NEW g \in Nums(n), \A i \in 1 .. n : f[i] = g[i]
  PROVE  f = g
<1>1. f = [i \in 1 .. n |-> f[i]] /\ g = [i \in 1 .. n |-> g[i]]
  BY Zenon DEF Nums
<1> QED BY Zenon, <1>1

(* The partial sums of f.                                                  *)
IsSums(f, n, U) == U = [i \in 0 .. n |-> IF i = 0 THEN 0 ELSE U[i - 1] + f[i]]
Sums(f) == CHOOSE U : IsSums(f, Len(f), U)

(* The recursion of the partial sums has a solution, of any length.        *)
LEMMA SumsExist == ASSUME NEW f PROVE \A n \in Nat : \E U : IsSums(f, n, U)
<1> DEFINE S == {n \in Nat : \E U : IsSums(f, n, U)}
<1>1. 0 \in S
  <2> DEFINE U == [i \in 0 .. 0 |-> 0]
  <2>1. IsSums(f, 0, U)
    BY DEF IsSums
  <2> QED BY <2>1 DEF Nums
<1>2. ASSUME NEW n \in Nat, n \in S PROVE n + 1 \in S
  <2>1. PICK U : IsSums(f, n, U)
    BY <1>2 DEF Nums
  <2> DEFINE V == [i \in 0 .. n + 1 |-> IF i = 0 THEN 0 ELSE U[i - 1] + f[i]]
  <2>2. \A i \in 0 .. n : V[i] = U[i]
    BY <2>1 DEF IsSums
  <2>3. \A i \in 0 .. n + 1 : i # 0 => V[i - 1] = U[i - 1]
    <3>1. \A i \in 0 .. n + 1 : i # 0 => i - 1 \in 0 .. n
      BY DEF Nums
    <3> HIDE DEF V
    <3> QED BY <2>2, <3>1 DEF Nums
  <2>4. V = [i \in 0 .. n + 1 |-> IF i = 0 THEN 0 ELSE V[i - 1] + f[i]]
    <3>1. \A i \in 0 .. n + 1 : V[i] = IF i = 0 THEN 0 ELSE V[i - 1] + f[i]
      BY <2>3 DEF Nums
    <3> HIDE DEF V
    <3>2. V = [i \in 0 .. n + 1 |-> V[i]]
      BY DEF V
    <3> QED BY <3>1, <3>2 DEF Nums
  <2>5. IsSums(f, n + 1, V)
    BY <2>4 DEF IsSums
  <2> QED BY <2>5 DEF Nums
<1> HIDE DEF S
<1>3. Nat \subseteq S
  BY <1>1, <1>2, SetInduction
<1> QED BY <1>3 DEF S

(* What the partial sums are, and that the total is the last of them.      *)
LEMMA SumsAre ==
  ASSUME NEW n \in Nat, NEW f \in Nums(n)
  PROVE  /\ Sums(f)[0] = 0
         /\ \A i \in 1 .. n : Sums(f)[i] = Sums(f)[i - 1] + f[i]
         /\ Total[f] = Sums(f)[n]
<1>0. f \in Seq(Nat) /\ Len(f) = n
  BY IsNumbers
<1>1. IsSums(f, n, Sums(f))
  BY <1>0, SumsExist DEF Sums
<1>2. Total[f] = Sums(f)[n]
  BY <1>0 DEF Total, Sums, IsSums
<1> DEFINE e(i) == IF i = 0 THEN 0 ELSE Sums(f)[i - 1] + f[i]
<1>3. Sums(f) = [i \in 0 .. n |-> e(i)]
  BY <1>1 DEF IsSums
<1> HIDE DEF e
<1>4. \A i \in 0 .. n : Sums(f)[i] = e(i)
  BY <1>3 DEF Nums
<1> QED BY <1>2, <1>4 DEF e

(* The sum is determined by what it adds at each step.                     *)
LEMMA TotalUnique ==
  ASSUME NEW n \in Nat, NEW f \in Nums(n), NEW U, U[0] = 0,
         \A i \in 1 .. n : U[i] = U[i - 1] + f[i]
  PROVE  Total[f] = U[n]
<1> DEFINE S == {k \in Nat : k <= n => Sums(f)[k] = U[k]}
<1>1. 0 \in S
  BY SumsAre
<1>2. ASSUME NEW k \in Nat, k \in S PROVE k + 1 \in S
  <2>1. SUFFICES ASSUME k + 1 <= n PROVE Sums(f)[k + 1] = U[k + 1]
    BY DEF Nums
  <2>2. k + 1 \in 1 .. n /\ (k + 1) - 1 = k /\ Sums(f)[k] = U[k]
    BY <1>2, <2>1 DEF Nums
  <2> HIDE DEF S
  <2> QED BY <2>2, SumsAre
<1> HIDE DEF S
<1>3. Nat \subseteq S
  BY <1>1, <1>2, SetInduction
<1>4. n \in S
  BY <1>3 DEF Nums
<1> QED BY <1>4, SumsAre DEF S

(* Every partial sum is a number.                                          *)
LEMMA SumsNat ==
  ASSUME NEW n \in Nat, NEW f \in Nums(n)
  PROVE  \A i \in 0 .. n : Sums(f)[i] \in Nat
<1> DEFINE S == {k \in Nat : k <= n => Sums(f)[k] \in Nat}
<1>1. 0 \in S
  BY SumsAre
<1>2. ASSUME NEW k \in Nat, k \in S PROVE k + 1 \in S
  <2>1. SUFFICES ASSUME k + 1 <= n PROVE Sums(f)[k + 1] \in Nat
    BY DEF Nums
  <2>2. k + 1 \in 1 .. n /\ (k + 1) - 1 = k /\ Sums(f)[k] \in Nat
    BY <1>2, <2>1 DEF Nums
  <2> HIDE DEF S
  <2>3. Sums(f)[k + 1] = Sums(f)[k] + f[k + 1]
    BY <2>2, SumsAre
  <2> QED BY <2>2, <2>3 DEF Nums
<1> HIDE DEF S
<1>3. Nat \subseteq S
  BY <1>1, <1>2, SetInduction
<1> QED BY <1>3 DEF S

(* A total is a number.                                                    *)
LEMMA TotalNat == \A n \in Nat : \A f \in Nums(n) : Total[f] \in Nat
<1> SUFFICES ASSUME NEW n \in Nat, NEW f \in Nums(n) PROVE Total[f] \in Nat
  BY DEF Nums
<1>1. n \in 0 .. n
  BY DEF Nums
<1> QED BY <1>1, SumsAre, SumsNat

(* Nothing but zeros sums to zero.                                         *)
LEMMA TotalZero ==
  ASSUME NEW n \in Nat, NEW f \in Nums(n), \A i \in 1 .. n : f[i] = 0
  PROVE  Total[f] = 0
<1> DEFINE U == [i \in 0 .. n |-> 0]
<1>1. U[0] = 0 /\ U[n] = 0 /\ \A i \in 1 .. n : U[i] = U[i - 1] + f[i]
  BY DEF Nums
<1> HIDE DEF U
<1> QED BY <1>1, TotalUnique

(* The total of termwise sums is the sum of the totals.                    *)
LEMMA TotalAdd ==
  ASSUME NEW n \in Nat, NEW f \in Nums(n), NEW g \in Nums(n),
         NEW h \in Nums(n), \A i \in 1 .. n : h[i] = f[i] + g[i]
  PROVE  Total[h] = Total[f] + Total[g]
<1> DEFINE U == [i \in 0 .. n |-> Sums(f)[i] + Sums(g)[i]]
<1>1. U[0] = 0
  BY SumsAre
<1>2. ASSUME NEW i \in 1 .. n PROVE U[i] = U[i - 1] + h[i]
  <2>1. i \in 0 .. n /\ i - 1 \in 0 .. n
    BY DEF Nums
  <2>2. U[i] = Sums(f)[i] + Sums(g)[i] /\ U[i - 1] = Sums(f)[i - 1] + Sums(g)[i - 1]
    BY <2>1 DEF Nums
  <2>3. Sums(f)[i] = Sums(f)[i - 1] + f[i] /\ Sums(g)[i] = Sums(g)[i - 1] + g[i]
    BY SumsAre
  <2>4. Sums(f)[i - 1] \in Nat /\ Sums(g)[i - 1] \in Nat
    BY <2>1, SumsNat
  <2>5. f[i] \in Nat /\ g[i] \in Nat /\ h[i] = f[i] + g[i]
    BY DEF Nums
  <2>6. (Sums(f)[i - 1] + f[i]) + (Sums(g)[i - 1] + g[i])
          = (Sums(f)[i - 1] + Sums(g)[i - 1]) + (f[i] + g[i])
    <3>1. \A a, b, c, d \in Nat : (a + b) + (c + d) = (a + c) + (b + d)
      BY DEF Nums
    <3> QED BY SMTT(30), <2>4, <2>5, <3>1 DEF Nums
  <2> HIDE DEF U
  <2> QED BY <2>2, <2>3, <2>5, <2>6 DEF Nums
<1>3. U[n] = Sums(f)[n] + Sums(g)[n]
  BY DEF Nums
<1> HIDE DEF U
<1>4. Total[h] = U[n]
  BY <1>1, <1>2, TotalUnique
<1> QED BY <1>3, <1>4, SumsAre

(* The total of two parts, one after the other.                            *)
LEMMA TotalConcat ==
  ASSUME NEW m \in Nat, NEW n \in Nat, NEW f \in Nums(m), NEW g \in Nums(n),
         NEW h \in Nums(m + n),
         \A i \in 1 .. m : h[i] = f[i],
         \A i \in 1 .. n : h[m + i] = g[i]
  PROVE  Total[h] = Total[f] + Total[g]
<1> DEFINE U == [i \in 0 .. m + n |-> IF i <= m THEN Sums(f)[i] ELSE Total[f] + Sums(g)[i - m]]
<1>0. Total[f] \in Nat /\ Total[g] \in Nat
  BY TotalNat
<1>1. U[0] = 0
  BY SumsAre
<1>2. ASSUME NEW i \in 1 .. m + n PROVE U[i] = U[i - 1] + h[i]
  <2>1. i \in 0 .. m + n /\ i - 1 \in 0 .. m + n
    BY DEF Nums
  <2>2. CASE i <= m
    <3>1. U[i] = Sums(f)[i] /\ U[i - 1] = Sums(f)[i - 1] /\ i \in 1 .. m
      BY <2>1, <2>2 DEF Nums
    <3> HIDE DEF U
    <3> QED BY <3>1, SumsAre
  <2>3. CASE i > m
    <3> DEFINE j == i - m
    <3>1. j \in 1 .. n /\ m + j = i
      BY <2>3 DEF Nums
    <3>2. U[i] = Total[f] + Sums(g)[j]
      BY <2>1, <2>3 DEF Nums
    <3>3. U[i - 1] = Total[f] + Sums(g)[j - 1]
      <4>1. CASE i - 1 <= m
        <5>1. i - 1 = m /\ j - 1 = 0
          BY <2>3, <4>1 DEF Nums
        <5>2. U[i - 1] = Sums(f)[m]
          BY <2>1, <4>1, <5>1 DEF Nums
        <5> HIDE DEF U
        <5>3. Total[f] = Total[f] + Sums(g)[0]
          BY <1>0, SumsAre
        <5> QED BY <5>1, <5>2, <5>3, SumsAre
      <4>2. CASE i - 1 > m
        <5>1. (i - 1) - m = j - 1
          BY DEF Nums
        <5> QED BY <2>1, <4>2, <5>1 DEF Nums
      <4> QED BY <4>1, <4>2 DEF Nums
    <3>4. Sums(g)[j] = Sums(g)[j - 1] + g[j]
      BY <3>1, SumsAre
    <3>5. Sums(g)[j - 1] \in Nat /\ g[j] \in Nat
      <4>1. j - 1 \in 0 .. n
        BY <3>1 DEF Nums
      <4> HIDE DEF j
      <4>2. g[j] \in Nat
        BY <3>1 DEF Nums
      <4> QED BY <4>1, <4>2, SumsNat
    <3>6. Total[f] + (Sums(g)[j - 1] + g[j]) = (Total[f] + Sums(g)[j - 1]) + g[j]
      BY <1>0, <3>5 DEF Nums
    <3>7. h[i] = g[j]
      BY <3>1 DEF Nums
    <3> HIDE DEF U, j
    <3> QED BY <3>2, <3>3, <3>4, <3>6, <3>7 DEF Nums
  <2> QED BY <2>2, <2>3 DEF Nums
<1>3. U[m + n] = Total[f] + Total[g]
  <2>1. CASE n = 0
    <3>1. Total[g] = 0
      BY <2>1, SumsAre
    <3> QED BY <1>0, <2>1, <3>1, SumsAre
  <2>2. CASE n > 0
    <3>1. (m + n) - m = n /\ ~(m + n <= m)
      BY <2>2 DEF Nums
    <3> QED BY <3>1, SumsAre
  <2> QED BY <2>1, <2>2 DEF Nums
<1> HIDE DEF U
<1>4. Total[h] = U[m + n]
  BY <1>1, <1>2, TotalUnique
<1> QED BY <1>3, <1>4 DEF Nums

(* One element set apart.                                                  *)
LEMMA TotalSplit ==
  ASSUME NEW n \in Nat, NEW f \in Nums(n), NEW k \in 1 .. n, NEW r \in Nums(n),
         r[k] = 0, \A i \in 1 .. n : i # k => r[i] = f[i]
  PROVE  Total[f] = f[k] + Total[r]
<1> DEFINE p == [i \in 1 .. n |-> IF i = k THEN f[k] ELSE 0]
           U == [i \in 0 .. n |-> IF i < k THEN 0 ELSE f[k]]
<1>2. p \in Nums(n)
  BY DEF Nums
<1>3. U[0] = 0 /\ U[n] = f[k] /\ \A i \in 1 .. n : U[i] = U[i - 1] + p[i]
  BY DEF Nums
<1>4. \A i \in 1 .. n : f[i] = p[i] + r[i]
  BY DEF Nums
<1> HIDE DEF U, p
<1>5. Total[p] = f[k]
  BY <1>2, <1>3, TotalUnique
<1>6. Total[f] = Total[p] + Total[r]
  BY <1>2, <1>4, TotalAdd
<1> QED BY <1>5, <1>6 DEF Nums

(* The same numbers with one of them replaced by zero.                     *)
LEMMA WithoutOne ==
  ASSUME NEW n \in Nat, NEW f \in Nums(n), NEW k \in 1 .. n
  PROVE  \E r \in Nums(n) : r[k] = 0 /\ \A i \in 1 .. n : i # k => r[i] = f[i]
<1> DEFINE r == [i \in 1 .. n |-> IF i = k THEN 0 ELSE f[i]]
<1>1. r \in Nums(n)
  BY DEF Nums
<1>2. r[k] = 0 /\ \A i \in 1 .. n : i # k => r[i] = f[i]
  BY DEF Nums
<1> HIDE DEF r
<1> QED BY <1>1, <1>2 DEF Nums

(* A single number among zeros.                                            *)
LEMMA TotalPoint ==
  ASSUME NEW n \in Nat, NEW f \in Nums(n), NEW k \in 1 .. n,
         \A i \in 1 .. n : i # k => f[i] = 0
  PROVE  Total[f] = f[k]
<1>1. PICK r \in Nums(n) : r[k] = 0 /\ \A i \in 1 .. n : i # k => r[i] = f[i]
  BY WithoutOne
<1>2. Total[f] = f[k] + Total[r]
  BY <1>1, TotalSplit
<1>3. Total[r] = 0
  BY <1>1, TotalZero
<1> QED BY <1>2, <1>3 DEF Nums

(* Two rows of numbers that differ at one place.                           *)
LEMMA TotalChange ==
  ASSUME NEW n \in Nat, NEW f \in Nums(n), NEW g \in Nums(n), NEW k \in 1 .. n,
         \A i \in 1 .. n : i # k => f[i] = g[i]
  PROVE  Total[f] + g[k] = Total[g] + f[k]
<1>1. PICK r \in Nums(n) : r[k] = 0 /\ \A i \in 1 .. n : i # k => r[i] = f[i]
  BY WithoutOne
<1>2. Total[f] = f[k] + Total[r]
  BY <1>1, TotalSplit
<1>3. Total[g] = g[k] + Total[r]
  BY <1>1, TotalSplit
<1>4. Total[r] \in Nat /\ f[k] \in Nat /\ g[k] \in Nat
  <2>1. Total[r] \in Nat
    BY <1>1, TotalNat
  <2>2. f[k] \in Nat /\ g[k] \in Nat
    BY DEF Nums
  <2> QED BY <2>1, <2>2
<1> QED BY <1>2, <1>3, <1>4 DEF Nums

(* A table summed by rows and by columns.                                  *)
Exchanged(R, C, m, n, r, c) ==
  /\ R \in [1 .. m -> Nums(n)]
  /\ C \in [1 .. n -> Nums(m)]
  /\ \A i \in 1 .. m, j \in 1 .. n : R[i][j] = C[j][i]
  /\ r \in Nums(m) /\ \A i \in 1 .. m : r[i] = Total[R[i]]
  /\ c \in Nums(n) /\ \A j \in 1 .. n : c[j] = Total[C[j]]

(* Summed by rows or by columns, a table comes to the same.                *)
LEMMA TotalExchange ==
  ASSUME NEW m \in Nat, NEW n \in Nat, NEW R, NEW C, NEW r, NEW c, Exchanged(R, C, m, n, r, c)
  PROVE  Total[r] = Total[c]
<1> USE DEF Exchanged
<1> DEFINE upto(i) == [j \in 1 .. n |-> Sums(C[j])[i]]
           U == [i \in 0 .. m |-> Total[upto(i)]]
<1>1. ASSUME NEW i \in 0 .. m PROVE upto(i) \in Nums(n)
  <2>1. \A j \in 1 .. n : C[j] \in Nums(m)
    OBVIOUS
  <2>2. \A j \in 1 .. n : Sums(C[j])[i] \in Nat
    BY <2>1, SumsNat
  <2> QED BY <2>2 DEF Nums
<1>2. U[0] = 0
  <2>1. \A j \in 1 .. n : upto(0)[j] = 0
    BY SumsAre
  <2>2. U[0] = Total[upto(0)] /\ upto(0) \in Nums(n)
    BY <1>1 DEF Nums
  <2> HIDE DEF upto, U
  <2> QED BY <2>1, <2>2, TotalZero
<1>3. ASSUME NEW i \in 1 .. m PROVE U[i] = U[i - 1] + r[i]
  <2>1. i \in 0 .. m /\ i - 1 \in 0 .. m
    BY DEF Nums
  <2>2. U[i] = Total[upto(i)] /\ U[i - 1] = Total[upto(i - 1)]
    BY <2>1 DEF Nums
  <2>3. \A j \in 1 .. n : upto(i)[j] = upto(i - 1)[j] + R[i][j]
    <3> SUFFICES ASSUME NEW j \in 1 .. n PROVE upto(i)[j] = upto(i - 1)[j] + R[i][j]
      BY DEF Nums
    <3>1. upto(i)[j] = Sums(C[j])[i] /\ upto(i - 1)[j] = Sums(C[j])[i - 1]
      BY DEF Nums
    <3>2. R[i][j] = C[j][i] /\ C[j] \in Nums(m)
      BY DEF Nums
    <3> HIDE DEF upto
    <3>3. Sums(C[j])[i] = Sums(C[j])[i - 1] + C[j][i]
      BY <3>2, SumsAre
    <3> QED BY <3>1, <3>2, <3>3 DEF Nums
  <2> HIDE DEF U, upto
  <2>4. Total[upto(i)] = Total[upto(i - 1)] + Total[R[i]]
    <3>1. upto(i) \in Nums(n) /\ upto(i - 1) \in Nums(n) /\ R[i] \in Nums(n)
      BY <1>1, <2>1 DEF Nums
    <3> QED BY <2>3, <3>1, TotalAdd
  <2> QED BY <2>2, <2>4 DEF Nums
<1>4. Total[r] = U[m]
  <2> HIDE DEF U
  <2> QED BY <1>2, <1>3, TotalUnique
<1>5. U[m] = Total[c]
  <2>1. \A j \in 1 .. n : upto(m)[j] = c[j]
    <3> SUFFICES ASSUME NEW j \in 1 .. n PROVE upto(m)[j] = c[j]
      BY DEF Nums
    <3>1. upto(m)[j] = Sums(C[j])[m]
      BY DEF Nums
    <3> HIDE DEF upto
    <3>2. C[j] \in Nums(m) /\ c[j] = Total[C[j]]
      BY DEF Nums
    <3> QED BY <3>1, <3>2, SumsAre
  <2>2. U[m] = Total[upto(m)] /\ upto(m) \in Nums(n)
    BY <1>1 DEF Nums
  <2> HIDE DEF upto
  <2>4. upto(m) = c
    BY <2>1, <2>2 DEF Nums
  <2> QED BY <2>2, <2>4 DEF Nums
<1> QED BY <1>4, <1>5 DEF Nums

(* What the positions of s that hold v weigh.                              *)
Weights(s, v, d) == [j \in DOMAIN s |-> IF s[j] = v THEN d[j] ELSE 0]
Weighed(s, v, d) == Total[Weights(s, v, d)]

(* d gives a number to each of n positions.                                *)
Counts(d, n) == \A j \in 1 .. n : d[j] \in Nat

(* What the weights are, position by position.                             *)
LEMMA WeightsAre ==
  ASSUME NEW n \in Nat, NEW s, DOMAIN s = 1 .. n, NEW v, NEW d, Counts(d, n)
  PROVE  /\ Weights(s, v, d) \in Nums(n)
         /\ \A j \in 1 .. n : Weights(s, v, d)[j] = IF s[j] = v THEN d[j] ELSE 0
BY DEF Nums, Weights, Counts

(* What a wire weighs is a number.                                         *)
LEMMA WeighedNat ==
  ASSUME NEW n \in Nat, NEW s, DOMAIN s = 1 .. n, NEW v, NEW d, Counts(d, n)
  PROVE  Weighed(s, v, d) \in Nat
BY WeightsAre, TotalNat DEF Weighed

(* The weight in two parts, one after the other.                           *)
LEMMA WeighedConcat ==
  ASSUME NEW m \in Nat, NEW n \in Nat, NEW s, DOMAIN s = 1 .. m, NEW u, DOMAIN u = 1 .. n,
         NEW su, DOMAIN su = 1 .. m + n,
         \A j \in 1 .. m : su[j] = s[j], \A j \in 1 .. n : su[m + j] = u[j],
         NEW v, NEW d, Counts(d, m + n), NEW e, \A j \in 1 .. n : e[j] = d[m + j]
  PROVE  Weighed(su, v, d) = Weighed(s, v, d) + Weighed(u, v, e)
<1> DEFINE a == Weights(s, v, d)
           b == Weights(u, v, e)
           c == Weights(su, v, d)
<1>1. m + n \in Nat /\ Counts(d, m) /\ Counts(e, n)
  <2>1. \A j \in 1 .. n : m + j \in 1 .. m + n
    OBVIOUS
  <2> QED BY <2>1 DEF Counts
<1>2. a \in Nums(m) /\ \A j \in 1 .. m : a[j] = IF s[j] = v THEN d[j] ELSE 0
  BY <1>1, WeightsAre
<1>3. b \in Nums(n) /\ \A j \in 1 .. n : b[j] = IF u[j] = v THEN e[j] ELSE 0
  BY <1>1, WeightsAre
<1>4. c \in Nums(m + n) /\ \A j \in 1 .. m + n : c[j] = IF su[j] = v THEN d[j] ELSE 0
  BY <1>1, WeightsAre
<1> HIDE DEF a, b, c
<1>5. \A j \in 1 .. m : c[j] = a[j]
  BY <1>2, <1>4
<1>6. \A j \in 1 .. n : c[m + j] = b[j]
  <2> SUFFICES ASSUME NEW j \in 1 .. n PROVE c[m + j] = b[j]
    OBVIOUS
  <2>1. m + j \in 1 .. m + n /\ su[m + j] = u[j] /\ e[j] = d[m + j]
    OBVIOUS
  <2> QED BY <1>3, <1>4, <2>1
<1>7. Total[c] = Total[a] + Total[b]
  BY <1>2, <1>3, <1>4, <1>5, <1>6, TotalConcat
<1> QED BY <1>7 DEF Weighed, a, b, c

(* The length of a sequence of one.                                        *)
One == 1

(* The only position of one position.                                      *)
LEMMA OneIs == One \in Nat /\ One \in 1 .. One /\ \A j \in 1 .. One : j = One
BY DEF One

(* The weight in a sequence of one.                                        *)
LEMMA WeighedOne ==
  ASSUME NEW s, DOMAIN s = 1 .. One, NEW v, NEW e, e[One] \in Nat
  PROVE  Weighed(s, v, e) = IF s[One] = v THEN e[One] ELSE 0
<1> DEFINE f == Weights(s, v, e)
<1>1. Counts(e, One)
  BY OneIs DEF Counts
<1>2. f \in Nums(One) /\ \A j \in 1 .. One : f[j] = IF s[j] = v THEN e[j] ELSE 0
  BY <1>1, OneIs, WeightsAre
<1> HIDE DEF f
<1>3. \A j \in 1 .. One : j # One => f[j] = 0
  BY OneIs
<1>4. Total[f] = f[One]
  BY <1>2, <1>3, OneIs, TotalPoint
<1> QED BY <1>2, <1>4, OneIs DEF Weighed, f

(* Counts added up weigh the sum of what they weigh.                       *)
LEMMA WeighedAdd ==
  ASSUME NEW n \in Nat, NEW s, DOMAIN s = 1 .. n, NEW v, NEW d, NEW e, NEW f,
         Counts(d, n), Counts(e, n), \A j \in 1 .. n : f[j] = d[j] + e[j]
  PROVE  Weighed(s, v, f) = Weighed(s, v, d) + Weighed(s, v, e)
<1> DEFINE a == Weights(s, v, d)
           b == Weights(s, v, e)
           c == Weights(s, v, f)
<1>1. Counts(f, n)
  BY DEF Counts
<1>2. a \in Nums(n) /\ \A j \in 1 .. n : a[j] = IF s[j] = v THEN d[j] ELSE 0
  BY WeightsAre
<1>3. b \in Nums(n) /\ \A j \in 1 .. n : b[j] = IF s[j] = v THEN e[j] ELSE 0
  BY WeightsAre
<1>4. c \in Nums(n) /\ \A j \in 1 .. n : c[j] = IF s[j] = v THEN f[j] ELSE 0
  BY <1>1, WeightsAre
<1> HIDE DEF a, b, c
<1>5. \A j \in 1 .. n : c[j] = a[j] + b[j]
  BY <1>2, <1>3, <1>4
<1>6. Total[c] = Total[a] + Total[b]
  BY <1>2, <1>3, <1>4, <1>5, TotalAdd
<1> QED BY <1>6 DEF Weighed, a, b, c

(* Weights that agree where it matters.                                    *)
LEMMA WeighedSame ==
  ASSUME NEW s, NEW v, NEW d, NEW e, \A j \in DOMAIN s : s[j] = v => d[j] = e[j]
  PROVE  Weighed(s, v, d) = Weighed(s, v, e)
<1>1. \A j \in DOMAIN s : (IF s[j] = v THEN d[j] ELSE 0) = (IF s[j] = v THEN e[j] ELSE 0)
  OBVIOUS
<1>2. Weights(s, v, d) = Weights(s, v, e)
  BY <1>1 DEF Weights
<1> QED BY <1>2 DEF Weighed

(* What is not there, or there for nothing, weighs nothing.                *)
LEMMA WeighedNone ==
  ASSUME NEW n \in Nat, NEW s, DOMAIN s = 1 .. n, NEW v, NEW d,
         \A j \in 1 .. n : s[j] # v \/ d[j] = 0
  PROVE  Weighed(s, v, d) = 0
<1> DEFINE f == Weights(s, v, d)
<1>1. f \in Nums(n) /\ \A j \in 1 .. n : f[j] = 0
  BY DEF Weights, Nums
<1> HIDE DEF f
<1>2. Total[f] = 0
  BY <1>1, TotalZero
<1> QED BY <1>2 DEF Weighed, f

(* What the wires behind names weigh is what the names do.                 *)
LEMMA RealsWeigh ==
  ASSUME NEW m \in Nat, NEW n \in Nat, NEW env, DOMAIN env = 1 .. m, NEW ns, DOMAIN ns = 1 .. n,
         \A j \in 1 .. n : ns[j] \in 0 .. m + 1,
         NEW d, Counts(d, n), NEW t, NEW w \in Keys,
         \A i \in 1 .. m : t[i] = Weighed(ns, i + 1, d)
  PROVE  /\ Weighed(env, w, t) = Weighed(Reals(env, ns), w, d)
         /\ Counts(t, m)
<1> DEFINE at(i, j) == IF env[i] = w /\ ns[j] = i + 1 THEN d[j] ELSE 0
           rs == Reals(env, ns)
           R == [i \in 1 .. m |-> [j \in 1 .. n |-> at(i, j)]]
           C == [j \in 1 .. n |-> [i \in 1 .. m |-> at(i, j)]]
           r == Weights(env, w, t)
           c == Weights(rs, w, d)
<1>0. Counts(t, m)
  BY WeighedNat DEF Counts
<1>1. \A i \in 1 .. m, j \in 1 .. n : at(i, j) \in Nat
  BY DEF Counts
<1>2. /\ R \in [1 .. m -> Nums(n)] /\ C \in [1 .. n -> Nums(m)]
      /\ \A i \in 1 .. m, j \in 1 .. n : R[i][j] = at(i, j) /\ C[j][i] = at(i, j)
  <2> HIDE DEF at
  <2> QED BY <1>1 DEF Nums
<1>3. /\ DOMAIN rs = 1 .. n
      /\ \A j \in 1 .. n : rs[j] = IF ns[j] \in {0, 1} THEN ns[j] ELSE env[ns[j] - 1]
  <2>1. \A j \in 1 .. n : ns[j] - FirstMock + 1 = ns[j] - 1
    BY DEF FirstMock
  <2> QED BY <2>1 DEF Reals, Real, Constants, FALSE_WIRE, TRUE_WIRE
<1>4. w # 0 /\ w # 1
  BY StorageAssumption DEF Keys, IndexOffset
<1>5. r \in Nums(m) /\ \A i \in 1 .. m : r[i] = IF env[i] = w THEN t[i] ELSE 0
  BY <1>0, WeightsAre
<1>6. c \in Nums(n) /\ \A j \in 1 .. n : c[j] = IF rs[j] = w THEN d[j] ELSE 0
  <2> HIDE DEF rs
  <2> QED BY <1>3, WeightsAre
<1> HIDE DEF R, C, rs, r, c
<1>7. ASSUME NEW i \in 1 .. m PROVE r[i] = Total[R[i]]
  <2>1. R[i] \in Nums(n) /\ \A j \in 1 .. n : R[i][j] = at(i, j)
    BY <1>2
  <2>2. CASE env[i] = w
    <3> DEFINE x == Weights(ns, i + 1, d)
    <3>1. x \in Nums(n) /\ \A j \in 1 .. n : x[j] = IF ns[j] = i + 1 THEN d[j] ELSE 0
      BY WeightsAre
    <3>2. t[i] = Total[x]
      BY DEF Weighed
    <3> HIDE DEF x
    <3>3. R[i] = x
      <4>1. \A j \in 1 .. n : R[i][j] = x[j]
        BY <2>1, <2>2, <3>1
      <4> HIDE DEF at
      <4> DEFINE z == R[i]
      <4>2. z \in Nums(n) /\ \A j \in 1 .. n : z[j] = x[j]
        BY <2>1, <4>1
      <4> HIDE DEF z
      <4>3. z = x
        BY <3>1, <4>2, SameNumbers
      <4> QED BY <4>3 DEF z
    <3> QED BY <1>5, <2>2, <3>2, <3>3
  <2>3. CASE env[i] # w
    <3>1. \A j \in 1 .. n : R[i][j] = 0
      BY <2>1, <2>3
    <3>2. Total[R[i]] = 0
      BY <2>1, <3>1, TotalZero
    <3> QED BY <1>5, <2>3, <3>2
  <2> QED BY <2>2, <2>3
<1>8. ASSUME NEW j \in 1 .. n PROVE c[j] = Total[C[j]]
  <2> DEFINE y == C[j]
  <2>1. y \in Nums(m) /\ \A i \in 1 .. m : y[i] = IF env[i] = w /\ ns[j] = i + 1 THEN d[j] ELSE 0
    BY <1>2
  <2> HIDE DEF y, at
  <2>2. CASE ns[j] \in {0, 1}
    <3>1. \A i \in 1 .. m : y[i] = 0
      BY <2>1, <2>2
    <3>2. Total[y] = 0
      BY <2>1, <3>1, TotalZero
    <3>3. rs[j] # w
      BY <1>3, <1>4, <2>2
    <3> QED BY <1>6, <3>2, <3>3 DEF y
  <2>3. CASE ns[j] \notin {0, 1}
    <3> DEFINE k == ns[j] - 1
    <3>1. k \in 1 .. m /\ ns[j] = k + 1 /\ \A i \in 1 .. m : i # k => ns[j] # i + 1
      BY <2>3
    <3>2. rs[j] = env[k]
      BY <1>3, <2>3
    <3> HIDE DEF k
    <3>3. \A i \in 1 .. m : i # k => y[i] = 0
      BY <2>1, <3>1
    <3>4. Total[y] = y[k]
      BY <2>1, <3>1, <3>3, TotalPoint
    <3>5. y[k] = IF env[k] = w THEN d[j] ELSE 0
      BY <2>1, <3>1
    <3>6. c[j] = IF rs[j] = w THEN d[j] ELSE 0
      BY <1>6
    <3> QED BY <3>2, <3>4, <3>5, <3>6 DEF y
  <2> QED BY <2>2, <2>3
<1>9. \A i \in 1 .. m, j \in 1 .. n : R[i][j] = C[j][i]
  BY <1>2
<1>10. Total[r] = Total[c]
  <2> HIDE DEF at
  <2>1. Exchanged(R, C, m, n, r, c)
    BY <1>2, <1>5, <1>6, <1>7, <1>8, <1>9 DEF Exchanged
  <2> QED BY <2>1, TotalExchange
<1> QED BY <1>0, <1>10 DEF Weighed, r, c, rs

(* The sum of f from position pc on.                                       *)
RestOf(f, n, pc) == [i \in 1 .. n |-> IF i >= pc THEN f[i] ELSE 0]
Rest(f, n, pc) == Total[RestOf(f, n, pc)]

(* The rest of a sum, unfolded by its first number.                        *)
LEMMA RestIs ==
  ASSUME NEW n \in Nat, NEW f \in Nums(n)
  PROVE  /\ \A pc \in Nat : Rest(f, n, pc) \in Nat
         /\ \A pc \in Nat : pc > n => Rest(f, n, pc) = 0
         /\ \A pc \in 1 .. n : Rest(f, n, pc) = f[pc] + Rest(f, n, pc + 1)
<1>1. \A pc \in Nat : RestOf(f, n, pc) \in Nums(n)
  BY DEF RestOf, Nums
<1>2. \A pc \in Nat : Rest(f, n, pc) \in Nat
  BY <1>1, TotalNat DEF Rest
<1>3. ASSUME NEW pc \in Nat, pc > n PROVE Rest(f, n, pc) = 0
  <2>1. \A i \in 1 .. n : RestOf(f, n, pc)[i] = 0
    BY <1>3 DEF RestOf
  <2> QED BY <1>1, <2>1, TotalZero DEF Rest
<1>4. ASSUME NEW pc \in 1 .. n PROVE Rest(f, n, pc) = f[pc] + Rest(f, n, pc + 1)
  <2> DEFINE a == RestOf(f, n, pc)
             b == RestOf(f, n, pc + 1)
  <2>1. a \in Nums(n) /\ b \in Nums(n)
    BY <1>1
  <2>2. a[pc] = f[pc] /\ b[pc] = 0 /\ \A i \in 1 .. n : i # pc => b[i] = a[i]
    BY DEF RestOf
  <2> HIDE DEF a, b
  <2>3. Total[a] = a[pc] + Total[b]
    BY <2>1, <2>2, TotalSplit
  <2> QED BY <2>2, <2>3 DEF Rest, a, b
<1> QED BY <1>2, <1>3, <1>4

(* Every position counts once.                                             *)
AllOne == [j \in Nat |-> 1]

(* Ones are counts.                                                        *)
LEMMA OnesCount == \A n \in Nat : Counts(AllOne, n)
BY DEF Counts, AllOne

(* How often w occurs is what it weighs when every position counts once.   *)
LEMMA OccurrencesIs ==
  ASSUME NEW n \in Nat, NEW s, DOMAIN s = 1 .. n, NEW w
  PROVE  Occurrences(s, w) = Weighed(s, w, AllOne) /\ Occurrences(s, w) \in Nat
<1>1. [j \in DOMAIN s |-> IF s[j] = w THEN 1 ELSE 0] = Weights(s, w, AllOne)
  BY DEF Weights, AllOne
<1>2. Occurrences(s, w) = Weighed(s, w, AllOne)
  BY <1>1 DEF Occurrences, Weighed
<1> QED BY <1>2, OnesCount, WeighedNat

(* What is not in a sequence occurs in it no time.                         *)
LEMMA OccursNot ==
  ASSUME NEW n \in Nat, NEW s, DOMAIN s = 1 .. n, NEW w, \A j \in 1 .. n : s[j] # w
  PROVE  Occurrences(s, w) = 0
BY OccurrencesIs, WeighedNone

(* What the assumption says of a component.                                *)
NameSeq(s, n) == n \in Nat /\ DOMAIN s = 1 .. n /\ Len(s) = n /\ \A j \in 1 .. n : s[j] \in Nat

(* The types of a circuit and of its components.                           *)
LEMMA ComponentIs ==
  ASSUME NEW crt \in Circuits
  PROVE  /\ Len(crt) \in Nat /\ Len(crt) > 0 /\ DOMAIN crt = 1 .. Len(crt)
         /\ \A c \in 1 .. Len(crt) :
              /\ WellFormed(crt, c)
              /\ crt[c].nin \in Nat
              /\ crt[c].body \in Seq(Instruction)
              /\ Len(crt[c].body) \in Nat
              /\ DOMAIN crt[c].body = 1 .. Len(crt[c].body)
              /\ NameSeq(crt[c].outs, Len(crt[c].outs))
<1> DEFINE C == [key : {crt[c].key : c \in DOMAIN crt}, nin : Nat,
                       body : Seq(Instruction), outs : Seq(Nat)]
<1>1. crt \in Seq(C) /\ crt # <<>> /\ \A c \in DOMAIN crt : WellFormed(crt, c)
  BY CircuitsAssumption
<1>2. \A x \in C : x.nin \in Nat /\ x.body \in Seq(Instruction) /\ x.outs \in Seq(Nat)
  OBVIOUS
<1> HIDE DEF C
<1>3. Len(crt) \in Nat /\ Len(crt) > 0 /\ DOMAIN crt = 1 .. Len(crt) /\ \A c \in DOMAIN crt : crt[c] \in C
  BY <1>1
<1> QED BY <1>1, <1>2, <1>3 DEF NameSeq

(* Operands are a sequence of names.                                       *)
LEMMA OperandsAre ==
  ASSUME NEW ins \in Instruction
  PROVE  NameSeq(Operands(ins), Len(Operands(ins)))
<1>1. CASE ins = Issue
  BY <1>1 DEF Operands, Issue, NameSeq
<1>2. CASE ins \in [op : {"gate"}, g : {"And", "Nimp", "Or", "Xor", "Not"}, a : Nat, b : Nat, c : Nat]
  <2>1. Operands(ins) = <<ins.a, ins.b>> /\ ins.a \in Nat /\ ins.b \in Nat
    BY <1>2 DEF Operands
  <2>2. <<ins.a, ins.b>> \in Seq(Nat)
    BY <2>1
  <2> QED BY <2>1, <2>2 DEF NameSeq
<1>3. CASE ins \in [op : {"call"}, comp : Nat, args : Seq(Nat)]
  BY <1>3 DEF Operands, NameSeq
<1> QED BY <1>1, <1>2, <1>3 DEF Instruction

(* The reads, and the wires created, instruction by instruction.           *)
ReadsAt(body, w) == [i \in 1 .. Len(body) |-> Occurrences(Operands(body[i]), w)]
CreatedAt(crt, body) == [i \in 1 .. Len(body) |-> Created(crt, body[i])]

(* The reads a closure still makes of a name: none at its end, and before  *)
(* that those of the next instruction and then the rest.                   *)
LEMMA ReadsAre ==
  ASSUME NEW crt \in Circuits, NEW c \in 1 .. Len(crt), NEW w
  PROVE  LET body == crt[c].body
         IN  /\ \A pc \in Nat : Reads(body, pc, w) \in Nat
             /\ \A pc \in Nat : pc > Len(body) => Reads(body, pc, w) = 0
             /\ \A pc \in 1 .. Len(body) :
                  Reads(body, pc, w) = Occurrences(Operands(body[pc]), w) + Reads(body, pc + 1, w)
<1> DEFINE body == crt[c].body
           n == Len(body)
           f == ReadsAt(body, w)
<1>1. n \in Nat /\ DOMAIN body = 1 .. n /\ \A i \in 1 .. n : body[i] \in Instruction
  BY ComponentIs
<1>2. \A i \in 1 .. n : Occurrences(Operands(body[i]), w) \in Nat
  BY <1>1, OperandsAre, OccurrencesIs DEF NameSeq
<1>3. f \in Nums(n) /\ \A i \in 1 .. n : f[i] = Occurrences(Operands(body[i]), w)
  BY <1>2 DEF ReadsAt, Nums
<1>4. \A pc : Reads(body, pc, w) = Rest(f, n, pc)
  BY <1>1, <1>3 DEF Reads, Rest, RestOf
<1> HIDE DEF f, n, body
<1>5. /\ \A pc \in Nat : Rest(f, n, pc) \in Nat
      /\ \A pc \in Nat : pc > n => Rest(f, n, pc) = 0
      /\ \A pc \in 1 .. n : Rest(f, n, pc) = f[pc] + Rest(f, n, pc + 1)
  BY <1>1, <1>3, RestIs
<1> QED BY <1>3, <1>4, <1>5 DEF body, n

(* The same for the wires a closure still creates.                         *)
LEMMA CreatedAre ==
  ASSUME NEW crt \in Circuits, NEW c \in 1 .. Len(crt)
  PROVE  LET body == crt[c].body
         IN  /\ \A pc \in Nat : CreatedBy(crt, body, pc) \in Nat
             /\ \A pc \in Nat : pc > Len(body) => CreatedBy(crt, body, pc) = 0
             /\ \A pc \in 1 .. Len(body) :
                  CreatedBy(crt, body, pc) = Created(crt, body[pc]) + CreatedBy(crt, body, pc + 1)
<1> DEFINE body == crt[c].body
           n == Len(body)
           f == CreatedAt(crt, body)
<1>1. /\ n \in Nat /\ DOMAIN body = 1 .. n
      /\ \A i \in 1 .. n : body[i] \in Instruction
      /\ \A i \in 1 .. n : body[i].op = "call" => body[i].comp \in 1 .. Len(crt)
  BY ComponentIs DEF WellFormed
<1>2. \A i \in 1 .. n : Created(crt, body[i]) \in Nat
  <2> SUFFICES ASSUME NEW i \in 1 .. n PROVE Created(crt, body[i]) \in Nat
    OBVIOUS
  <2>1. CASE body[i].op = "call"
    <3>1. Len(crt[body[i].comp].outs) \in Nat
      BY <1>1, <2>1, ComponentIs DEF NameSeq
    <3> QED BY <2>1, <3>1 DEF Created
  <2>2. CASE body[i].op # "call"
    BY <2>2 DEF Created
  <2> QED BY <2>1, <2>2
<1>3. f \in Nums(n) /\ \A i \in 1 .. n : f[i] = Created(crt, body[i])
  BY <1>2 DEF CreatedAt, Nums
<1>4. \A pc : CreatedBy(crt, body, pc) = Rest(f, n, pc)
  BY <1>1, <1>3 DEF CreatedBy, Rest, RestOf
<1> HIDE DEF f, n, body
<1>5. /\ \A pc \in Nat : Rest(f, n, pc) \in Nat
      /\ \A pc \in Nat : pc > n => Rest(f, n, pc) = 0
      /\ \A pc \in 1 .. n : Rest(f, n, pc) = f[pc] + Rest(f, n, pc + 1)
  BY <1>1, <1>3, RestIs
<1> QED BY <1>3, <1>4, <1>5 DEF body, n

(* The recursion of Remaining: frame 0 and frame i, from the one under it. *)
Later(d) == [w \in Nat |-> IF w >= FirstMock + d THEN 1 ELSE 0]
LeftAt(crt, fs, i, t) ==
  [w \in Nat |->
     Reads(crt[fs[i].comp].body, fs[i].pc, w)
       + Total[[j \in DOMAIN crt[fs[i].comp].outs |->
                  IF crt[fs[i].comp].outs[j] = w THEN t[NextName(fs, i - 1) + j - 1] ELSE 0]]]
IsLeft(crt, fs, d, n, L) ==
  L = [i \in 0 .. n |-> IF i = 0 THEN Later(d) ELSE LeftAt(crt, fs, i, L[i - 1])]

(* The recursion of Remaining has a solution, of any depth.                *)
LEMMA LeftExists == ASSUME NEW crt, NEW fs, NEW d PROVE \A n \in Nat : \E L : IsLeft(crt, fs, d, n, L)
<1> DEFINE S == {n \in Nat : \E L : IsLeft(crt, fs, d, n, L)}
<1>1. 0 \in S
  <2> DEFINE L == [i \in 0 .. 0 |-> Later(d)]
  <2>1. IsLeft(crt, fs, d, 0, L)
    BY DEF IsLeft
  <2> QED BY <2>1
<1>2. ASSUME NEW n \in Nat, n \in S PROVE n + 1 \in S
  <2>1. PICK L : IsLeft(crt, fs, d, n, L)
    BY <1>2
  <2> DEFINE V == [i \in 0 .. n + 1 |-> IF i = 0 THEN Later(d) ELSE LeftAt(crt, fs, i, L[i - 1])]
  <2>2. \A i \in 0 .. n : V[i] = L[i]
    BY <2>1 DEF IsLeft
  <2>3. \A i \in 0 .. n + 1 : i # 0 => V[i - 1] = L[i - 1]
    <3>1. \A i \in 0 .. n + 1 : i # 0 => i - 1 \in 0 .. n
      OBVIOUS
    <3> HIDE DEF V
    <3> QED BY <2>2, <3>1
  <2>4. V = [i \in 0 .. n + 1 |-> IF i = 0 THEN Later(d) ELSE LeftAt(crt, fs, i, V[i - 1])]
    <3>1. \A i \in 0 .. n + 1 : V[i] = IF i = 0 THEN Later(d) ELSE LeftAt(crt, fs, i, V[i - 1])
      BY <2>3
    <3> HIDE DEF V
    <3>2. V = [i \in 0 .. n + 1 |-> V[i]]
      BY DEF V
    <3> QED BY <3>1, <3>2
  <2>5. IsLeft(crt, fs, d, n + 1, V)
    BY <2>4 DEF IsLeft
  <2> QED BY <2>5
<1> HIDE DEF S
<1>3. Nat \subseteq S
  BY <1>1, <1>2, SetInduction
<1> QED BY <1>3 DEF S

(* Remaining, unfolded by one frame.                                       *)
LEMMA RemainingIs ==
  ASSUME NEW crt, NEW fs, NEW d, Len(fs) \in Nat
  PROVE  /\ Remaining(crt, fs, d)[0] = Later(d)
         /\ \A i \in 1 .. Len(fs) :
              Remaining(crt, fs, d)[i] = LeftAt(crt, fs, i, Remaining(crt, fs, d)[i - 1])
<1> DEFINE n == Len(fs)
           L == Remaining(crt, fs, d)
<1>1. L = CHOOSE x : IsLeft(crt, fs, d, n, x)
  BY DEF Remaining, IsLeft, LeftAt, Later
<1>2. IsLeft(crt, fs, d, n, L)
  <2> HIDE DEF L, n
  <2>1. n \in Nat
    BY DEF n
  <2> QED BY <1>1, <2>1, LeftExists
<1> DEFINE e(i) == IF i = 0 THEN Later(d) ELSE LeftAt(crt, fs, i, L[i - 1])
<1>3. L = [i \in 0 .. n |-> e(i)]
  <2> HIDE DEF L
  <2> QED BY <1>2 DEF IsLeft
<1> HIDE DEF e
<1>4. \A i \in 0 .. n : L[i] = e(i)
  <2> HIDE DEF L
  <2> QED BY <1>3
<1> QED BY <1>4 DEF e

(* The frames of a run: what their types are.                              *)
Frame(crt) == [comp : 1 .. Len(crt), pc : Nat \ {0}, env : Seq(Wire), credits : Seq(0 .. MaxCredits)]

(* The numbers of t from the name b on, by position.                       *)
Shift(t, b) == [j \in Nat |-> t[b + j - 1]]

(* A sequence: its length, domain and elements.                            *)
LEMMA SeqIs ==
  ASSUME NEW T, NEW s \in Seq(T)
  PROVE  Len(s) \in Nat /\ DOMAIN s = 1 .. Len(s) /\ \A j \in 1 .. Len(s) : s[j] \in T
OBVIOUS

(* The types of a frame's fields.                                          *)
LEMMA FrameIs ==
  ASSUME NEW crt, NEW f \in Frame(crt)
  PROVE  /\ f.comp \in 1 .. Len(crt) /\ f.pc \in Nat /\ f.pc # 0
         /\ f.env \in Seq(Wire) /\ Len(f.env) \in Nat /\ DOMAIN f.env = 1 .. Len(f.env)
         /\ \A j \in 1 .. Len(f.env) : f.env[j] \in Wire
         /\ f.credits \in Seq(0 .. MaxCredits) /\ Len(f.credits) \in Nat
         /\ DOMAIN f.credits = 1 .. Len(f.credits)
         /\ \A j \in 1 .. Len(f.credits) : f.credits[j] \in 0 .. MaxCredits
<1>1. f.comp \in 1 .. Len(crt) /\ f.pc \in Nat \ {0} /\ f.env \in Seq(Wire)
      /\ f.credits \in Seq(0 .. MaxCredits)
  BY DEF Frame
<1> QED BY <1>1, SeqIs

(* The types of a stack of frames, and of the names they bind next.        *)
LEMMA FramesAre ==
  ASSUME NEW crt, NEW fs \in Seq(Frame(crt))
  PROVE  /\ Len(fs) \in Nat /\ DOMAIN fs = 1 .. Len(fs)
         /\ \A k \in 1 .. Len(fs) : fs[k] \in Frame(crt)
         /\ \A k \in 0 .. Len(fs) : NextName(fs, k) \in Nat /\ NextName(fs, k) >= FirstMock
<1>1. Len(fs) \in Nat /\ DOMAIN fs = 1 .. Len(fs) /\ \A k \in 1 .. Len(fs) : fs[k] \in Frame(crt)
  OBVIOUS
<1>2. \A k \in 1 .. Len(fs) : Len(fs[k].env) \in Nat
  BY <1>1, FrameIs
<1> QED BY <1>1, <1>2 DEF NextName, FirstMock

(* What is left to a frame's name: its own reads, and what the frame under *)
(* it is to read of the outputs of that name.                              *)
LEMMA LeftAtIs ==
  ASSUME NEW crt \in Circuits, NEW fs \in Seq(Frame(crt)), NEW i \in 1 .. Len(fs),
         NEW t \in [Nat -> Nat]
  PROVE  LET c == crt[fs[i].comp]
             s == Shift(t, NextName(fs, i - 1))
         IN  /\ LeftAt(crt, fs, i, t) \in [Nat -> Nat]
             /\ \A w \in Nat :
                  LeftAt(crt, fs, i, t)[w] = Reads(c.body, fs[i].pc, w) + Weighed(c.outs, w, s)
             /\ Counts(s, Len(c.outs))
             /\ \A w \in Nat : Weighed(c.outs, w, s) \in Nat
<1> DEFINE c == crt[fs[i].comp]
           b == NextName(fs, i - 1)
           s == Shift(t, b)
           n == Len(c.outs)
<1>1. fs[i].comp \in 1 .. Len(crt) /\ fs[i].pc \in Nat /\ b \in Nat /\ b >= FirstMock
  <2>1. i - 1 \in 0 .. Len(fs) /\ fs[i] \in Frame(crt)
    BY FramesAre
  <2> QED BY <2>1, FramesAre, FrameIs
<1>2. NameSeq(c.outs, n)
  BY <1>1, ComponentIs
<1>3. \A w \in Nat : Reads(c.body, fs[i].pc, w) \in Nat
  BY <1>1, ReadsAre
<1>4. Counts(s, n) /\ \A j \in 1 .. n : s[j] = t[b + j - 1]
  <2>1. \A j \in 1 .. n : b + j - 1 \in Nat
    <3>1. n \in Nat
      BY <1>2 DEF NameSeq
    <3>2. b \in Nat /\ b >= 2
      BY <1>1 DEF FirstMock
    <3> HIDE DEF b, n
    <3> QED BY <3>1, <3>2
  <2>2. \A j \in 1 .. n : j \in Nat
    OBVIOUS
  <2>3. \A j \in 1 .. n : s[j] = t[b + j - 1]
    <3> HIDE DEF b, n
    <3> QED BY <2>2 DEF Shift
  <2> HIDE DEF b, n, s
  <2> QED BY <2>1, <2>3 DEF Counts
<1> HIDE DEF s, b, n, c
<1>5. \A w \in Nat :
        [j \in DOMAIN c.outs |-> IF c.outs[j] = w THEN t[b + j - 1] ELSE 0] = Weights(c.outs, w, s)
  BY <1>2, <1>4 DEF Weights, NameSeq
<1>6. \A w \in Nat : Weighed(c.outs, w, s) \in Nat
  BY <1>2, <1>4, WeighedNat DEF NameSeq
<1>7. LeftAt(crt, fs, i, t) = [w \in Nat |-> Reads(c.body, fs[i].pc, w) + Weighed(c.outs, w, s)]
  BY <1>5 DEF LeftAt, Weighed, c, b
<1>8. \A w \in Nat : LeftAt(crt, fs, i, t)[w] = Reads(c.body, fs[i].pc, w) + Weighed(c.outs, w, s)
  BY <1>7
<1>9. LeftAt(crt, fs, i, t) \in [Nat -> Nat]
  <2>0. \A x, y \in Nat : x + y \in Nat
    OBVIOUS
  <2>1. \A w \in Nat : Reads(c.body, fs[i].pc, w) + Weighed(c.outs, w, s) \in Nat
    BY <1>3, <1>6, <2>0 DEF c
  <2> QED BY <1>7, <2>1
<1> QED BY <1>4, <1>6, <1>8, <1>9 DEF s, b, n, c

(* What the decoding still reads are numbers.                              *)
LEMMA LaterType == \A d \in Nat : Later(d) \in [Nat -> Nat]
BY DEF Later

(* What is left to a name is a number, in every frame.                     *)
LEMMA RemainingType ==
  ASSUME NEW crt \in Circuits, NEW fs \in Seq(Frame(crt)), NEW d \in Nat
  PROVE  \A i \in 0 .. Len(fs) : Remaining(crt, fs, d)[i] \in [Nat -> Nat]
<1> DEFINE L == Remaining(crt, fs, d)
           S == {n \in Nat : n <= Len(fs) => L[n] \in [Nat -> Nat]}
<1>0. Len(fs) \in Nat
  BY FramesAre
<1>1. 0 \in S
  <2>1. L[0] \in [Nat -> Nat]
    <3>1. L[0] = Later(d)
      BY <1>0, RemainingIs
    <3> HIDE DEF L
    <3> QED BY <3>1, LaterType
  <2> HIDE DEF L
  <2> QED BY <2>1
<1>2. ASSUME NEW n \in Nat, n \in S PROVE n + 1 \in S
  <2> HIDE DEF L
  <2>0. SUFFICES (n + 1 <= Len(fs)) => L[n + 1] \in [Nat -> Nat]
    <3>1. n + 1 \in Nat
      OBVIOUS
    <3> QED BY <3>1
  <2>1. SUFFICES ASSUME n + 1 <= Len(fs) PROVE L[n + 1] \in [Nat -> Nat]
    OBVIOUS
  <2> DEFINE i == n + 1
  <2>2. i \in 1 .. Len(fs) /\ i - 1 = n /\ n <= Len(fs)
    BY <1>0, <2>1
  <2>3. L[n] \in [Nat -> Nat]
    <3> HIDE DEF L
    <3> QED BY <1>2, <2>2
  <2> HIDE DEF i
  <2>4. L[i] = LeftAt(crt, fs, i, L[i - 1])
    BY <1>0, <2>2, RemainingIs DEF L
  <2> HIDE DEF S, L
  <2>5. LeftAt(crt, fs, i, L[i - 1]) \in [Nat -> Nat]
    <3>1. L[i - 1] \in [Nat -> Nat]
      BY <2>2, <2>3
    <3> QED BY <2>2, <3>1, LeftAtIs
  <2> QED BY <2>4, <2>5 DEF i
<1> HIDE DEF S
<1>3. Nat \subseteq S
  BY <1>1, <1>2, SetInduction
<1>4. \A i \in 0 .. Len(fs) : i \in Nat /\ i <= Len(fs)
  BY <1>0
<1> HIDE DEF L
<1> QED BY <1>3, <1>4 DEF S, L

(* What a frame has left depends on the frames up to it only.              *)
LEMMA RemainingSame ==
  ASSUME NEW crt, NEW fs, NEW gs, NEW d, NEW n \in Nat, Len(fs) \in Nat, Len(gs) \in Nat,
         n <= Len(fs), n <= Len(gs),
         \A i \in 1 .. n : fs[i].comp = gs[i].comp /\ fs[i].pc = gs[i].pc,
         \A i \in 1 .. n - 1 : Len(fs[i].env) = Len(gs[i].env)
  PROVE  \A i \in 0 .. n : Remaining(crt, fs, d)[i] = Remaining(crt, gs, d)[i]
<1> DEFINE L == Remaining(crt, fs, d)
           M == Remaining(crt, gs, d)
           S == {k \in Nat : k <= n => L[k] = M[k]}
<1>1. 0 \in S
  <2>1. L[0] = M[0]
    BY RemainingIs
  <2> HIDE DEF L, M
  <2> QED BY <2>1
<1>2. ASSUME NEW k \in Nat, k \in S PROVE k + 1 \in S
  <2>1. SUFFICES ASSUME k + 1 <= n PROVE L[k + 1] = M[k + 1]
    OBVIOUS
  <2> DEFINE i == k + 1
  <2>2. /\ i \in 1 .. Len(fs) /\ i \in 1 .. Len(gs) /\ i - 1 = k /\ i \in 1 .. n
        /\ i - 1 = 0 \/ i - 1 \in 1 .. n - 1
    BY <2>1
  <2>3. L[i - 1] = M[i - 1]
    BY <1>2, <2>1
  <2> HIDE DEF i, S
  <2>4. L[i] = LeftAt(crt, fs, i, L[i - 1]) /\ M[i] = LeftAt(crt, gs, i, M[i - 1])
    BY <2>2, RemainingIs
  <2>5. NextName(fs, i - 1) = NextName(gs, i - 1)
    BY <2>2 DEF NextName
  <2> HIDE DEF L, M
  <2>6. fs[i].comp = gs[i].comp /\ fs[i].pc = gs[i].pc
    BY <2>2
  <2>7. LeftAt(crt, fs, i, L[i - 1]) = LeftAt(crt, gs, i, L[i - 1])
    BY <2>5, <2>6 DEF LeftAt
  <2> QED BY <2>3, <2>4, <2>7 DEF i
<1> HIDE DEF S
<1>3. Nat \subseteq S
  BY <1>1, <1>2, SetInduction
<1> QED BY <1>3 DEF S

(* ns names r wires among the constants and m others; t is what the names  *)
(* ns, weighed by d, come to for each of those.                            *)
Within(ns, r, m) == DOMAIN ns = 1 .. r /\ \A j \in 1 .. r : ns[j] \in 0 .. m + 1
ComesTo(t, ns, d, m) == \A i \in 1 .. m : t[i] = Weighed(ns, i + 1, d)

(* The names ns read from an environment, counted there by d: its wires    *)
(* weigh as much by the counts that come to its names.                     *)
LEMMA NamesWeigh ==
  ASSUME NEW m \in Nat, NEW r \in Nat, NEW env, DOMAIN env = 1 .. m, NEW ns, Within(ns, r, m),
         NEW d, Counts(d, r), NEW t, ComesTo(t, ns, d, m), NEW w \in Keys
  PROVE  Weighed(env, w, t) = Weighed(Reals(env, ns), w, d) /\ Counts(t, m)
BY RealsWeigh DEF Within, ComesTo

(* A configuration of a run, as far as the reads to come depend on it: the *)
(* frames s.frames, how many outputs are decoded, the inputs to collect.   *)
Config(crt) == [frames : Seq(Frame(crt)), decoded : Nat, inputs : SUBSET Nat]

(* What is left to frame k for its names (0: to the decoding), with the    *)
(* inputs still to collect; by name, and by position in its environment;   *)
(* what it owes wire w by them, and what all frames owe it.                *)
Left(crt, s) == Remaining(crt, s.frames, s.decoded)
Coming(crt, s, k, l) ==
  Left(crt, s)[k][l] + (IF k = 1 /\ l - FirstMock + 1 \in s.inputs THEN 1 ELSE 0)
Names(crt, s, k) == [j \in Nat |-> Coming(crt, s, k, j + FirstMock - 1)]
Owed(crt, s, k, w) == Weighed(s.frames[k].env, w, Names(crt, s, k))
Owes(crt, s, w) == [k \in 1 .. Len(s.frames) |-> Owed(crt, s, k, w)]
Owing(crt, s, w) == Total[Owes(crt, s, w)]

(* The types of a configuration.                                           *)
LEMMA ConfigIs ==
  ASSUME NEW crt, NEW s \in Config(crt)
  PROVE  /\ s.frames \in Seq(Frame(crt)) /\ s.decoded \in Nat
         /\ Len(s.frames) \in Nat /\ DOMAIN s.frames = 1 .. Len(s.frames)
         /\ \A k \in 1 .. Len(s.frames) :
              /\ s.frames[k] \in Frame(crt)
              /\ s.frames[k].comp \in 1 .. Len(crt) /\ s.frames[k].pc \in Nat
              /\ Len(s.frames[k].env) \in Nat /\ DOMAIN s.frames[k].env = 1 .. Len(s.frames[k].env)
              /\ \A j \in 1 .. Len(s.frames[k].env) : s.frames[k].env[j] \in Wire
<1>1. s.frames \in Seq(Frame(crt)) /\ s.decoded \in Nat
  BY DEF Config
<1>2. Len(s.frames) \in Nat /\ DOMAIN s.frames = 1 .. Len(s.frames)
      /\ \A k \in 1 .. Len(s.frames) : s.frames[k] \in Frame(crt)
  BY <1>1, FramesAre
<1> QED BY <1>1, <1>2, FrameIs

(* The reads to come of a name are a number.                               *)
LEMMA ComingNat ==
  ASSUME NEW crt \in Circuits, NEW s \in Config(crt), NEW k \in 1 .. Len(s.frames)
  PROVE  /\ \A l \in Nat : Coming(crt, s, k, l) \in Nat
         /\ \A j \in Nat : Names(crt, s, k)[j] = Coming(crt, s, k, j + 1)
         /\ \A n \in Nat : Counts(Names(crt, s, k), n)
<1>1. \A l \in Nat : Coming(crt, s, k, l) \in Nat
  <2>1. Left(crt, s)[k] \in [Nat -> Nat]
    <3>1. k \in 0 .. Len(s.frames) /\ s.frames \in Seq(Frame(crt)) /\ s.decoded \in Nat
      BY ConfigIs
    <3> QED BY <3>1, RemainingType DEF Left
  <2>2. \A l \in Nat : Left(crt, s)[k][l] \in Nat
    BY <2>1
  <2>3. \A x \in Nat : x + 1 \in Nat /\ x + 0 \in Nat
    OBVIOUS
  <2> QED BY <2>2, <2>3 DEF Coming
<1>2. \A j \in Nat : Names(crt, s, k)[j] = Coming(crt, s, k, j + 1)
  <2>1. \A j \in Nat : j + FirstMock - 1 = j + 1
    BY DEF FirstMock
  <2> QED BY <2>1 DEF Names
<1>3. \A n \in Nat : Counts(Names(crt, s, k), n)
  <2>1. \A j \in Nat : Names(crt, s, k)[j] \in Nat
    <3>1. \A j \in Nat : j + 1 \in Nat
      OBVIOUS
    <3> QED BY <1>1, <1>2, <3>1
  <2>2. \A n \in Nat : \A j \in 1 .. n : j \in Nat
    OBVIOUS
  <2> QED BY <2>1, <2>2 DEF Counts
<1> QED BY <1>1, <1>2, <1>3

(* What a frame, and what all frames, owe a wire is a number.              *)
LEMMA OwedNat ==
  ASSUME NEW crt \in Circuits, NEW s \in Config(crt), NEW w
  PROVE  /\ Owes(crt, s, w) \in Nums(Len(s.frames))
         /\ \A k \in 1 .. Len(s.frames) :
              /\ Owes(crt, s, w)[k] = Owed(crt, s, k, w)
              /\ Owed(crt, s, k, w) \in Nat
         /\ Owing(crt, s, w) \in Nat
<1>1. \A k \in 1 .. Len(s.frames) : Owed(crt, s, k, w) \in Nat
  <2> SUFFICES ASSUME NEW k \in 1 .. Len(s.frames) PROVE Owed(crt, s, k, w) \in Nat
    OBVIOUS
  <2> DEFINE m == Len(s.frames[k].env)
  <2>1. m \in Nat /\ DOMAIN s.frames[k].env = 1 .. m
    BY ConfigIs
  <2>2. Counts(Names(crt, s, k), m)
    BY <2>1, ComingNat
  <2> HIDE DEF m
  <2> QED BY <2>1, <2>2, WeighedNat DEF Owed
<1>2. Owes(crt, s, w) \in Nums(Len(s.frames))
  BY <1>1 DEF Owes, Nums
<1>3. \A k \in 1 .. Len(s.frames) : Owes(crt, s, w)[k] = Owed(crt, s, k, w)
  BY DEF Owes
<1>4. Len(s.frames) \in Nat
  BY ConfigIs
<1> QED BY <1>1, <1>2, <1>3, <1>4, TotalNat DEF Owing

(* Frame k of s and of t have the same reads to come.                      *)
Alike(crt, s, t, k) == \A l \in Nat : Coming(crt, s, k, l) = Coming(crt, t, k, l)

(* What the first n frames read depends on those n frames only.            *)
LEMMA AlikeBelow ==
  ASSUME NEW crt \in Circuits, NEW s \in Config(crt), NEW t \in Config(crt),
         s.decoded = t.decoded, s.inputs = t.inputs,
         NEW n \in Nat, n <= Len(s.frames), n <= Len(t.frames),
         \A i \in 1 .. n :
           s.frames[i].comp = t.frames[i].comp /\ s.frames[i].pc = t.frames[i].pc,
         \A i \in 1 .. n - 1 : Len(s.frames[i].env) = Len(t.frames[i].env)
  PROVE  \A k \in 1 .. n : Alike(crt, s, t, k)
<1>1. \A k \in 0 .. n : Left(crt, s)[k] = Left(crt, t)[k]
  <2> DEFINE fs == s.frames
             gs == t.frames
  <2>1. Len(fs) \in Nat /\ Len(gs) \in Nat
    BY ConfigIs
  <2>2. n \in Nat /\ n <= Len(fs) /\ n <= Len(gs)
    OBVIOUS
  <2>3. /\ \A i \in 1 .. n : fs[i].comp = gs[i].comp /\ fs[i].pc = gs[i].pc
        /\ \A i \in 1 .. n - 1 : Len(fs[i].env) = Len(gs[i].env)
    OBVIOUS
  <2> HIDE DEF fs, gs
  <2>4. \A k \in 0 .. n : Remaining(crt, fs, s.decoded)[k] = Remaining(crt, gs, s.decoded)[k]
    BY ONLY <2>1, <2>2, <2>3, RemainingSame
  <2> QED BY <2>4 DEF Left, fs, gs
<1>2. \A k \in 1 .. n : k \in 0 .. n
  OBVIOUS
<1> QED BY <1>1, <1>2 DEF Alike, Coming

(* Frames with the same wires and the same reads to come owe the same.     *)
LEMMA AlikeOwed ==
  ASSUME NEW crt \in Circuits, NEW s \in Config(crt), NEW t \in Config(crt),
         NEW k \in 1 .. Len(s.frames), NEW h \in 1 .. Len(t.frames), h = k,
         Alike(crt, s, t, k), s.frames[k].env = t.frames[k].env, NEW w
  PROVE  Owed(crt, s, k, w) = Owed(crt, t, k, w)
<1>1. Names(crt, s, k) = Names(crt, t, k)
  <2>1. \A j \in Nat : j + FirstMock - 1 \in Nat
    BY DEF FirstMock
  <2> QED BY <2>1 DEF Names, Alike
<1> QED BY <1>1 DEF Owed

(* A step that changes the top frame only.                                 *)
LEMMA TopChanges ==
  ASSUME NEW crt \in Circuits, NEW s \in Config(crt), NEW t \in Config(crt),
         NEW n \in Nat \ {0}, Len(s.frames) = n, Len(t.frames) = n,
         \A k \in 1 .. n : k # n => Alike(crt, s, t, k) /\ s.frames[k].env = t.frames[k].env,
         NEW w
  PROVE  Owing(crt, s, w) + Owed(crt, t, n, w) = Owing(crt, t, w) + Owed(crt, s, n, w)
<1>1. n \in 1 .. n
  OBVIOUS
<1>2. /\ Owes(crt, s, w) \in Nums(n) /\ Owes(crt, t, w) \in Nums(n)
      /\ \A k \in 1 .. n : Owes(crt, s, w)[k] = Owed(crt, s, k, w)
      /\ \A k \in 1 .. n : Owes(crt, t, w)[k] = Owed(crt, t, k, w)
  BY OwedNat
<1>3. \A k \in 1 .. n : k # n => Owes(crt, s, w)[k] = Owes(crt, t, w)[k]
  BY <1>2, AlikeOwed
<1>4. Total[Owes(crt, s, w)] + Owes(crt, t, w)[n] = Total[Owes(crt, t, w)] + Owes(crt, s, w)[n]
  BY <1>1, <1>2, <1>3, TotalChange
<1> QED BY <1>1, <1>2, <1>4 DEF Owing

(* From s to t the names ns of the top frame are read, and no more.        *)
ReadOff(crt, s, t, n, ns, r) ==
  /\ n \in Nat \ {0} /\ Len(s.frames) = n /\ Len(t.frames) = n
  /\ \A k \in 1 .. n : k # n => t.frames[k] = s.frames[k] /\ Alike(crt, s, t, k)
  /\ t.frames[n].comp = s.frames[n].comp /\ t.frames[n].env = s.frames[n].env
  /\ r \in Nat /\ Within(ns, r, Len(s.frames[n].env))
  /\ \A l \in Nat : Coming(crt, s, n, l) = Coming(crt, t, n, l) + Occurrences(ns, l)

(* Names of the top frame that are read: what is owed falls by them.       *)
LEMMA TopReads ==
  ASSUME NEW crt \in Circuits, NEW s \in Config(crt), NEW t \in Config(crt),
         NEW n, NEW ns, NEW r, ReadOff(crt, s, t, n, ns, r), NEW w \in Keys
  PROVE  /\ Owing(crt, s, w) = Owing(crt, t, w) + Occurrences(Reals(s.frames[n].env, ns), w)
         /\ Occurrences(Reals(s.frames[n].env, ns), w) \in Nat
<1> DEFINE m == Len(s.frames[n].env)
<1>a. /\ n \in Nat \ {0} /\ Len(s.frames) = n /\ Len(t.frames) = n
      /\ \A k \in 1 .. n : k # n => Alike(crt, s, t, k) /\ s.frames[k].env = t.frames[k].env
      /\ s.frames[n].env = t.frames[n].env
      /\ r \in Nat /\ DOMAIN ns = 1 .. r /\ \A j \in 1 .. r : ns[j] \in 0 .. m + 1
      /\ \A l \in Nat : Coming(crt, s, n, l) = Coming(crt, t, n, l) + Occurrences(ns, l)
  BY DEF ReadOff, Within
<1>b. m \in Nat
  <2>1. n \in 1 .. Len(s.frames)
    BY <1>a
  <2> QED BY <2>1, ConfigIs
<1>c. \A i \in 1 .. m : Coming(crt, s, n, i + 1) = Coming(crt, t, n, i + 1) + Occurrences(ns, i + 1)
  <2>1. \A i \in 1 .. m : i + 1 \in Nat
    BY <1>b
  <2> QED BY <1>a, <2>1
<1>d. m = Len(s.frames[n].env)
  OBVIOUS
<1> HIDE DEF m
<1> USE <1>a, <1>b, <1>c, <1>d
<1> DEFINE env == s.frames[n].env
           d == Names(crt, s, n)
           e == Names(crt, t, n)
           u == [i \in Nat |-> Occurrences(ns, i + 1)]
<1>0. n \in 1 .. n
  OBVIOUS
<1>1. DOMAIN env = 1 .. m
  BY <1>0, ConfigIs
<1>2. /\ Counts(d, m) /\ Counts(e, m)
      /\ \A j \in Nat : d[j] = Coming(crt, s, n, j + 1) /\ e[j] = Coming(crt, t, n, j + 1)
  BY ZenonT(30), <1>0, ComingNat
<1>3. \A i \in 1 .. m : d[i] = e[i] + u[i]
  <2>1. \A i \in 1 .. m : i \in Nat
    OBVIOUS
  <2> HIDE DEF d, e
  <2> QED BY <1>2, <2>1
<1>4. Counts(AllOne, r)
  BY OnesCount
<1>5. ComesTo(u, ns, AllOne, m)
  <2>1. \A i \in 1 .. m : u[i] = Occurrences(ns, i + 1)
    OBVIOUS
  <2> HIDE DEF u
  <2> QED BY <2>1, OccurrencesIs DEF ComesTo
<1>6. Weighed(env, w, u) = Weighed(Reals(env, ns), w, AllOne) /\ Counts(u, m)
  <2>1. /\ m \in Nat /\ r \in Nat /\ w \in Keys /\ DOMAIN ns = 1 .. r
        /\ Within(ns, r, m)
    BY DEF Within
  <2> HIDE DEF u, env
  <2> QED BY ONLY <2>1, <1>1, <1>4, <1>5, NamesWeigh
<1>7. Weighed(env, w, d) = Weighed(env, w, e) + Weighed(env, w, u)
  <2>1. m \in Nat /\ Counts(e, m) /\ Counts(u, m)
    BY <1>2, <1>6
  <2> HIDE DEF u, d, e, env
  <2> QED BY ONLY <2>1, <1>1, <1>3, WeighedAdd
<1>8. Occurrences(Reals(env, ns), w) = Weighed(Reals(env, ns), w, AllOne)
      /\ Occurrences(Reals(env, ns), w) \in Nat
  <2>1. DOMAIN Reals(env, ns) = 1 .. r
    BY DEF Reals
  <2> QED BY <2>1, OccurrencesIs
<1>9. Owed(crt, s, n, w) = Owed(crt, t, n, w) + Occurrences(Reals(env, ns), w)
  BY <1>6, <1>7, <1>8 DEF Owed
<1>10. Owing(crt, s, w) + Owed(crt, t, n, w) = Owing(crt, t, w) + Owed(crt, s, n, w)
  BY TopChanges
<1>11. /\ Owing(crt, s, w) \in Nat /\ Owing(crt, t, w) \in Nat
       /\ Owed(crt, s, n, w) \in Nat /\ Owed(crt, t, n, w) \in Nat
  BY <1>0, OwedNat
<1> DEFINE a == Owing(crt, s, w)
           b == Owing(crt, t, w)
           c == Occurrences(Reals(env, ns), w)
           f == Owed(crt, s, n, w)
           g == Owed(crt, t, n, w)
<1>12. a \in Nat /\ b \in Nat /\ c \in Nat /\ f \in Nat /\ g \in Nat /\ f = g + c /\ a + g = b + f
  BY <1>8, <1>9, <1>10, <1>11
<1>13. a = b + c
  <2> HIDE DEF a, b, c, f, g
  <2> QED BY ONLY <1>12
<1> QED BY <1>8, <1>13

(* The top frame learns the wires xs.                                      *)
Learnt(crt, s, t, n, xs, r, e) ==
  LET m == Len(s.frames[n].env)
  IN  /\ n \in Nat \ {0} /\ Len(s.frames) = n /\ Len(t.frames) = n
      /\ \A k \in 1 .. n : Alike(crt, s, t, k)
      /\ \A k \in 1 .. n : k # n => s.frames[k].env = t.frames[k].env
      /\ r \in Nat /\ DOMAIN xs = 1 .. r /\ Len(t.frames[n].env) = m + r
      /\ \A j \in 1 .. m : t.frames[n].env[j] = s.frames[n].env[j]
      /\ \A j \in 1 .. r : t.frames[n].env[m + j] = xs[j]
      /\ \A j \in 1 .. r : e[j] = Coming(crt, s, n, m + j + 1)

(* Wires the top frame learns: what is owed grows by the reads they get.   *)
LEMMA TopLearns ==
  ASSUME NEW crt \in Circuits, NEW s \in Config(crt), NEW t \in Config(crt),
         NEW n, NEW xs, NEW r, NEW e, Learnt(crt, s, t, n, xs, r, e), NEW w
  PROVE  /\ Owing(crt, t, w) = Owing(crt, s, w) + Weighed(xs, w, e)
         /\ Counts(e, r) /\ Weighed(xs, w, e) \in Nat
<1> DEFINE m == Len(s.frames[n].env)
<1>a. /\ n \in Nat \ {0} /\ Len(s.frames) = n /\ Len(t.frames) = n
      /\ \A k \in 1 .. n : Alike(crt, s, t, k)
      /\ \A k \in 1 .. n : k # n => s.frames[k].env = t.frames[k].env
      /\ r \in Nat /\ DOMAIN xs = 1 .. r /\ Len(t.frames[n].env) = m + r
      /\ \A j \in 1 .. m : t.frames[n].env[j] = s.frames[n].env[j]
      /\ \A j \in 1 .. r : t.frames[n].env[m + j] = xs[j]
      /\ \A j \in 1 .. r : e[j] = Coming(crt, s, n, m + j + 1)
  BY DEF Learnt
<1>b. m \in Nat
  <2>1. n \in 1 .. Len(s.frames)
    BY <1>a
  <2> QED BY <2>1, ConfigIs
<1>c. m = Len(s.frames[n].env)
  OBVIOUS
<1> HIDE DEF m
<1> USE <1>a, <1>b, <1>c
<1> DEFINE d == Names(crt, s, n)
<1>0. n \in 1 .. n
  OBVIOUS
<1>1. DOMAIN s.frames[n].env = 1 .. m /\ DOMAIN t.frames[n].env = 1 .. m + r
  BY <1>0, ConfigIs
<1>2. Counts(d, m + r) /\ \A j \in Nat : d[j] = Coming(crt, s, n, j + 1)
  <2>1. m + r \in Nat
    OBVIOUS
  <2> QED BY ZenonT(60), <1>0, <2>1, ComingNat
<1>3. \A j \in 1 .. r : e[j] = d[m + j]
  <2>1. \A j \in 1 .. r : m + j \in Nat
    OBVIOUS
  <2> HIDE DEF d
  <2> QED BY <1>2, <2>1
<1>4. Names(crt, t, n) = d
  <2>1. \A j \in Nat : j + FirstMock - 1 \in Nat
    BY DEF FirstMock
  <2> QED BY <1>0, <2>1 DEF Names, Alike
<1>5. Weighed(t.frames[n].env, w, d) = Weighed(s.frames[n].env, w, d) + Weighed(xs, w, e)
  <2> DEFINE env == s.frames[n].env
             new == t.frames[n].env
  <2>1. /\ m \in Nat /\ r \in Nat /\ DOMAIN env = 1 .. m /\ DOMAIN xs = 1 .. r
        /\ DOMAIN new = 1 .. m + r
        /\ \A j \in 1 .. m : new[j] = env[j]
        /\ \A j \in 1 .. r : new[m + j] = xs[j]
        /\ Counts(d, m + r)
    BY <1>1, <1>2
  <2> HIDE DEF d, env, new
  <2>2. Weighed(new, w, d) = Weighed(env, w, d) + Weighed(xs, w, e)
    BY ONLY SMTT(30), <2>1, <1>3, WeighedConcat
  <2> QED BY <2>2 DEF env, new
<1>6. Owed(crt, t, n, w) = Owed(crt, s, n, w) + Weighed(xs, w, e)
  BY <1>4, <1>5 DEF Owed
<1>7. Counts(e, r)
  <2>1. \A j \in 1 .. r : m + j \in 1 .. m + r
    OBVIOUS
  <2> HIDE DEF d
  <2> QED BY <1>2, <1>3, <2>1 DEF Counts
<1>8. Weighed(xs, w, e) \in Nat
  BY <1>7, WeighedNat
<1>9. Owing(crt, s, w) + Owed(crt, t, n, w) = Owing(crt, t, w) + Owed(crt, s, n, w)
  BY ZenonT(60), TopChanges
<1>10. /\ Owing(crt, s, w) \in Nat /\ Owing(crt, t, w) \in Nat
       /\ Owed(crt, s, n, w) \in Nat /\ Owed(crt, t, n, w) \in Nat
  BY <1>0, OwedNat
<1> DEFINE a == Owing(crt, s, w)
           b == Owing(crt, t, w)
           c == Weighed(xs, w, e)
           f == Owed(crt, s, n, w)
           g == Owed(crt, t, n, w)
<1>11. a \in Nat /\ b \in Nat /\ c \in Nat /\ f \in Nat /\ g \in Nat /\ g = f + c /\ a + g = b + f
  BY <1>6, <1>8, <1>9, <1>10
<1>12. b = a + c
  <2> HIDE DEF a, b, c, f, g
  <2> QED BY ONLY <1>11
<1> QED BY <1>7, <1>8, <1>12

(* t is s with one more frame on top.                                      *)
Pushed(s, t, n) ==
  /\ n \in Nat /\ Len(s.frames) = n /\ Len(t.frames) = n + 1
  /\ s.decoded = t.decoded /\ s.inputs = t.inputs
  /\ \A k \in 1 .. n : s.frames[k] = t.frames[k]

(* A frame put on top adds what it owes itself; the frames under it do not *)
(* change.                                                                 *)
LEMMA FramePushed ==
  ASSUME NEW crt \in Circuits, NEW s \in Config(crt), NEW t \in Config(crt),
         NEW n, Pushed(s, t, n), NEW w
  PROVE  /\ Owing(crt, t, w) = Owing(crt, s, w) + Owed(crt, t, n + 1, w)
         /\ \A k \in 1 .. n : Alike(crt, s, t, k)
<1> USE DEF Pushed
<1>1. n <= n + 1 /\ n <= n /\ \A i \in 1 .. n - 1 : i \in 1 .. n
  OBVIOUS
<1>2. \A k \in 1 .. n : Alike(crt, s, t, k)
  BY <1>1, AlikeBelow
<1>3. n + 1 \in 1 .. n + 1 /\ \A k \in 1 .. n : k \in 1 .. n + 1
  OBVIOUS
<1>4. \A k \in 1 .. n : Owed(crt, s, k, w) = Owed(crt, t, k, w)
  BY <1>2, <1>3, AlikeOwed
<1> DEFINE g == [k \in 1 .. One |-> Owed(crt, t, n + 1, w)]
<1>5. /\ Owes(crt, s, w) \in Nums(n)
      /\ \A k \in 1 .. n : Owes(crt, s, w)[k] = Owed(crt, s, k, w)
  BY OwedNat
<1>6. /\ Owes(crt, t, w) \in Nums(n + 1)
      /\ \A k \in 1 .. n + 1 : Owes(crt, t, w)[k] = Owed(crt, t, k, w) /\ Owed(crt, t, k, w) \in Nat
  BY OwedNat
<1>7. g \in Nums(One) /\ g[One] = Owed(crt, t, n + 1, w)
  BY <1>3, <1>6, OneIs DEF Nums
<1>8. Total[g] = Owed(crt, t, n + 1, w)
  <2> HIDE DEF g
  <2> QED BY <1>7, OneIs, TotalPoint
<1>9. n + 1 = n + One
  BY DEF One
<1>10. \A k \in 1 .. n : Owes(crt, t, w)[k] = Owes(crt, s, w)[k]
  BY <1>3, <1>4, <1>5, <1>6
<1>11. \A k \in 1 .. One : Owes(crt, t, w)[n + k] = g[k]
  <2> HIDE DEF g
  <2>1. Owes(crt, t, w)[n + One] = g[One]
    BY <1>3, <1>6, <1>7, <1>9
  <2> QED BY <2>1, OneIs
<1>12. Total[Owes(crt, t, w)] = Total[Owes(crt, s, w)] + Total[g]
  <2>1. Owes(crt, t, w) \in Nums(n + One)
    BY <1>6, <1>9
  <2> HIDE DEF g
  <2> QED BY <1>5, <1>7, <1>10, <1>11, <2>1, OneIs, TotalConcat
<1> QED BY <1>2, <1>8, <1>12 DEF Owing

(* The reads that storage s still allows wire k.                           *)
Credit(s, k) == s[ToIndex(k)].credits

(* Keys and slots correspond; a key is no constant.                        *)
LEMMA KeysAre ==
  /\ \A k \in Keys : ToIndex(k) \in Slots /\ k \notin Constants /\ k # UNREACHABLE
  /\ \A k, h \in Keys : ToIndex(k) = ToIndex(h) => k = h
  /\ \A i \in Slots : ToKey(i) \in Keys /\ ToIndex(ToKey(i)) = i
<1>1. Slots \subseteq Nat /\ UNREACHABLE \notin Nat
  BY StorageAssumption
<1>2. ASSUME NEW i \in Slots PROVE ToKey(i) \in Keys /\ ToIndex(ToKey(i)) = i
  BY <1>1 DEF Keys, ToIndex, ToKey, IndexOffset
<1>3. ASSUME NEW k \in Keys
      PROVE  /\ ToIndex(k) \in Slots /\ k = ToIndex(k) + 2
             /\ k \notin Constants /\ k # UNREACHABLE
  <2>1. PICK i \in Slots : k = i + 2
    BY DEF Keys, IndexOffset
  <2>2. ToIndex(k) = i /\ k \in Nat /\ k # 0 /\ k # 1
    BY <1>1, <2>1 DEF ToIndex, IndexOffset
  <2> QED BY <1>1, <2>1, <2>2 DEF Constants, FALSE_WIRE, TRUE_WIRE
<1> QED BY <1>2, <1>3

(* The types of an entry.                                                  *)
LEMMA EntryIs ==
  ASSUME NEW e \in Entry
  PROVE  e.credits \in 0 .. MaxCredits /\ e.credits \in Nat /\ e.data \in Data \cup {NoData}
BY StorageAssumption DEF Entry

(* Storage::get takes one credit of its wire.                              *)
LEMMA GetIs ==
  ASSUME NEW s \in [Slots -> Entry], NEW k \in Keys, Credit(s, k) > 0
  PROVE  /\ Get(s, k) \in [Slots -> Entry]
         /\ \A h \in Keys : Credit(Get(s, k), h) + (IF h = k THEN 1 ELSE 0) = Credit(s, h)
<1> DEFINE i == ToIndex(k)
           e == s[i]
<1>1. i \in Slots /\ e \in Entry /\ e.credits \in Nat /\ e.credits \in 0 .. MaxCredits /\ e.credits > 0
  BY KeysAre, EntryIs DEF Credit
<1>2. VacantEntry \in Entry /\ VacantEntry.credits = 0
  BY StorageAssumption DEF VacantEntry, Entry
<1>3. CASE e.credits = 1
  <2>1. Get(s, k) = [s EXCEPT ![i] = VacantEntry]
    BY <1>3 DEF Get
  <2>2. Get(s, k) \in [Slots -> Entry]
    BY <1>1, <1>2, <2>1
  <2>3. \A h \in Keys : h # k => Credit(Get(s, k), h) = Credit(s, h)
    BY <1>1, <2>1, KeysAre DEF Credit
  <2>4. Credit(Get(s, k), k) = 0
    BY <1>1, <1>2, <2>1 DEF Credit
  <2>5. \A h \in Keys : Credit(s, h) \in Nat
    BY KeysAre, EntryIs DEF Credit
  <2> QED BY <1>3, <2>2, <2>3, <2>4, <2>5 DEF Credit
<1>4. CASE e.credits # 1
  <2> DEFINE f == [e EXCEPT !.credits = @ - 1]
  <2>1. Get(s, k) = [s EXCEPT ![i] = f]
    BY <1>1, <1>4 DEF Get
  <2>2. f \in Entry /\ f.credits = e.credits - 1
    BY <1>1, <1>4, StorageAssumption DEF Entry
  <2> HIDE DEF f
  <2>3. Get(s, k) \in [Slots -> Entry]
    BY <1>1, <2>1, <2>2
  <2>4. \A h \in Keys : h # k => Credit(Get(s, k), h) = Credit(s, h)
    BY <1>1, <2>1, KeysAre DEF Credit
  <2>5. Credit(Get(s, k), k) = e.credits - 1 /\ Credit(s, k) = e.credits
    BY <1>1, <2>1, <2>2 DEF Credit
  <2>6. \A h \in Keys : Credit(s, h) \in Nat
    BY KeysAre, EntryIs DEF Credit
  <2> QED BY <1>1, <2>3, <2>4, <2>5, <2>6
<1> QED BY <1>3, <1>4

(* Storage::add_credits gives its wire the credits it is called with,      *)
(* unless they overflow.                                                   *)
LEMMA AddIs ==
  ASSUME NEW s \in [Slots -> Entry], NEW k \in Keys, NEW n \in Nat, ~Overflows(s, k, n)
  PROVE  /\ AddCredits(s, k, n) \in [Slots -> Entry]
         /\ \A h \in Keys : Credit(AddCredits(s, k, n), h) = Credit(s, h) + (IF h = k THEN n ELSE 0)
<1> DEFINE i == ToIndex(k)
           e == s[i]
           f == [e EXCEPT !.credits = @ + n]
<1>1. i \in Slots /\ e \in Entry /\ e.credits \in Nat /\ e.credits + n <= MaxCredits
  <2>1. i \in Slots /\ e \in Entry
    BY KeysAre
  <2>2. e.credits \in Nat
    BY <2>1, EntryIs
  <2>3. MaxCredits \in Nat /\ ~(e.credits + n > MaxCredits)
    BY StorageAssumption DEF Overflows
  <2> HIDE DEF e
  <2>4. e.credits + n <= MaxCredits
    BY <2>2, <2>3
  <2> QED BY <2>1, <2>2, <2>4
<1>2. AddCredits(s, k, n) = [s EXCEPT ![i] = f]
  BY DEF AddCredits
<1>3. f \in Entry /\ f.credits = e.credits + n
  BY <1>1, StorageAssumption DEF Entry
<1> HIDE DEF f
<1>4. AddCredits(s, k, n) \in [Slots -> Entry]
  BY <1>1, <1>2, <1>3
<1>5. \A h \in Keys : h # k => Credit(AddCredits(s, k, n), h) = Credit(s, h)
  BY <1>1, <1>2, KeysAre DEF Credit
<1>6. Credit(AddCredits(s, k, n), k) = e.credits + n /\ Credit(s, k) = e.credits
  BY <1>1, <1>2, <1>3 DEF Credit
<1>7. \A h \in Keys : Credit(s, h) \in Nat
  BY KeysAre, EntryIs DEF Credit
<1> QED BY <1>4, <1>5, <1>6, <1>7

(* Storage::set changes no credits.                                        *)
LEMMA SetIs ==
  ASSUME NEW s \in [Slots -> Entry], NEW k \in Keys, NEW d \in Data
  PROVE  /\ Set(s, k, d) \in [Slots -> Entry]
         /\ \A h \in Keys : Credit(Set(s, k, d), h) = Credit(s, h)
<1> DEFINE i == ToIndex(k)
           e == s[i]
           f == [e EXCEPT !.data = d]
<1>1. i \in Slots /\ e \in Entry
  BY KeysAre
<1>2. Set(s, k, d) = [s EXCEPT ![i] = f]
  BY DEF Set
<1>3. f \in Entry /\ f.credits = e.credits
  BY <1>1 DEF Entry
<1> HIDE DEF f
<1>4. Set(s, k, d) \in [Slots -> Entry]
  BY <1>1, <1>2, <1>3
<1>5. \A h \in Keys : h # k => Credit(Set(s, k, d), h) = Credit(s, h)
  BY <1>1, <1>2, KeysAre DEF Credit
<1>6. Credit(Set(s, k, d), k) = Credit(s, k)
  BY <1>1, <1>2, <1>3 DEF Credit
<1> QED BY <1>4, <1>5, <1>6

(* The types of a machine.                                                 *)
LEMMA MachineIs ==
  ASSUME NEW m \in Machine
  PROVE  /\ m.store \in [Slots -> Entry] /\ m.ok \in BOOLEAN
         /\ \A h \in Keys : Credit(m.store, h) \in Nat
<1>1. m.store \in [Slots -> Entry] /\ m.ok \in BOOLEAN
  BY DEF Machine
<1>2. \A h \in Keys : m.store[ToIndex(h)] \in Entry
  BY <1>1, KeysAre
<1> QED BY <1>1, <1>2, EntryIs DEF Credit

(* m2 is m1 after `uses` reads and `gains` new ones for wire w alone,      *)
(* unless it is a failure.                                                 *)
Accessed(m1, m2, w, uses, gains) ==
  /\ m2 \in Machine
  /\ m2.ok => /\ m1.ok
              /\ \A h \in Keys :
                   Credit(m2.store, h) + (IF h = w THEN uses ELSE 0)
                     = Credit(m1.store, h) + (IF h = w THEN gains ELSE 0)

(* A failed access says nothing of the credits.                            *)
LEMMA FailureIs ==
  ASSUME NEW m \in Machine, NEW w, NEW u, NEW g
  PROVE  Accessed(m, [m EXCEPT !.ok = FALSE], w, u, g)
BY DEF Accessed, Machine

(* An access to what is not in the storage changes no credits.             *)
LEMMA NothingIs ==
  ASSUME NEW m \in Machine, NEW w, w \notin Keys, NEW u, NEW g
  PROVE  Accessed(m, m, w, u, g)
<1>1. \A h \in Keys : Credit(m.store, h) \in Nat /\ h # w
  BY MachineIs
<1> QED BY <1>1 DEF Accessed

(* `lookup_wire` uses one read.                                            *)
LEMMA LookupIs ==
  ASSUME NEW m \in Machine, NEW w
  PROVE  Accessed(m, Lookup(m, w), w, 1, 0)
<1>1. CASE w \in Constants
  <2>1. Lookup(m, w) = m /\ w \notin Keys
    BY <1>1, KeysAre DEF Lookup
  <2> QED BY <2>1, NothingIs
<1>2. CASE w \notin Constants /\ Found(m.store, w) /\ Value(m.store, w) # NoData
  <2> DEFINE s == Get(m.store, w)
  <2>1. Lookup(m, w) = [m EXCEPT !.store = s]
    BY <1>2 DEF Lookup
  <2>2. m.store \in [Slots -> Entry] /\ w \in Keys /\ Credit(m.store, w) > 0
    BY <1>2, MachineIs DEF Found, Credit
  <2>3. /\ s \in [Slots -> Entry]
        /\ \A h \in Keys : Credit(s, h) + (IF h = w THEN 1 ELSE 0) = Credit(m.store, h)
    BY <2>2, GetIs
  <2>4. \A h \in Keys : Credit(m.store, h) \in Nat
    BY MachineIs
  <2> HIDE DEF s
  <2>5. Lookup(m, w) \in Machine /\ Lookup(m, w).store = s /\ Lookup(m, w).ok = m.ok
    BY <2>1, <2>3 DEF Machine
  <2>6. \A h \in Keys : Credit(m.store, h) + (IF h = w THEN 0 ELSE 0) = Credit(m.store, h)
    BY <2>4
  <2> QED BY <2>3, <2>5, <2>6 DEF Accessed
<1>3. CASE w \notin Constants /\ ~(Found(m.store, w) /\ Value(m.store, w) # NoData)
  <2>1. Lookup(m, w) = [m EXCEPT !.ok = FALSE]
    BY <1>3 DEF Lookup
  <2> QED BY <2>1, FailureIs
<1> QED BY <1>1, <1>2, <1>3

(* `add_credits` gains n reads.                                            *)
LEMMA GrantIs ==
  ASSUME NEW m \in Machine, NEW w, NEW n \in Nat
  PROVE  Accessed(m, Grant(m, w, n), w, 0, n)
<1>1. CASE w \in Constants
  <2>1. Grant(m, w, n) = m /\ w \notin Keys
    BY <1>1, KeysAre DEF Grant
  <2> QED BY <2>1, NothingIs
<1>2. CASE w \notin Constants /\ Found(m.store, w) /\ ~Overflows(m.store, w, n)
  <2> DEFINE s == AddCredits(m.store, w, n)
  <2>1. Grant(m, w, n) = [m EXCEPT !.store = s]
    BY <1>2 DEF Grant
  <2>2. m.store \in [Slots -> Entry] /\ w \in Keys
    BY <1>2, MachineIs DEF Found
  <2>3. /\ s \in [Slots -> Entry]
        /\ \A h \in Keys : Credit(s, h) = Credit(m.store, h) + (IF h = w THEN n ELSE 0)
    BY <1>2, <2>2, AddIs
  <2> HIDE DEF s
  <2>4. Grant(m, w, n) \in Machine /\ Grant(m, w, n).store = s /\ Grant(m, w, n).ok = m.ok
    BY <2>1, <2>3 DEF Machine
  <2>5. \A h \in Keys : Credit(s, h) + (IF h = w THEN 0 ELSE 0) = Credit(s, h)
    <3>1. \A h \in Keys : Credit(s, h) \in Nat
      BY <2>4, MachineIs
    <3> QED BY <3>1
  <2> QED BY <2>3, <2>4, <2>5 DEF Accessed
<1>3. CASE w \notin Constants /\ ~(Found(m.store, w) /\ ~Overflows(m.store, w, n))
  <2>1. Grant(m, w, n) = [m EXCEPT !.ok = FALSE]
    BY <1>3 DEF Grant
  <2> QED BY <2>1, FailureIs
<1> QED BY <1>1, <1>2, <1>3

(* `feed_wire` neither uses nor gains a read.                              *)
LEMMA FeedIs ==
  ASSUME NEW m \in Machine, NEW w, NEW d \in Data
  PROVE  Accessed(m, Feed(m, w, d), w, 0, 0)
<1>1. CASE w \in Constants \cup {UNREACHABLE}
  <2>1. Feed(m, w, d) = m /\ w \notin Keys
    BY <1>1, KeysAre DEF Feed
  <2> QED BY <2>1, NothingIs
<1>2. CASE w \notin Constants \cup {UNREACHABLE} /\ Found(m.store, w)
  <2> DEFINE s == Set(m.store, w, d)
  <2>1. Feed(m, w, d) = [m EXCEPT !.store = s]
    BY <1>2 DEF Feed
  <2>2. m.store \in [Slots -> Entry] /\ w \in Keys
    BY <1>2, MachineIs DEF Found
  <2>3. /\ s \in [Slots -> Entry]
        /\ \A h \in Keys : Credit(s, h) = Credit(m.store, h)
    BY <2>2, SetIs
  <2> HIDE DEF s
  <2>4. Feed(m, w, d) \in Machine /\ Feed(m, w, d).store = s /\ Feed(m, w, d).ok = m.ok
    BY <2>1, <2>3 DEF Machine
  <2> QED BY <2>3, <2>4 DEF Accessed
<1>3. CASE w \notin Constants \cup {UNREACHABLE} /\ ~Found(m.store, w)
  <2>1. Feed(m, w, d) = [m EXCEPT !.ok = FALSE]
    BY <1>3 DEF Feed
  <2> QED BY <2>1, FailureIs
<1> QED BY <1>1, <1>2, <1>3

(* One access: the reads it uses and those it gains.                       *)
Uses(a) == IF a[2] < 0 THEN 1 ELSE 0
Gains(a) == IF a[2] > 0 THEN a[2] ELSE 0

(* An access uses and gains what its number says.                          *)
LEMMA AccessIs ==
  ASSUME NEW m \in Machine, NEW a, a[2] \in Int
  PROVE  Accessed(m, Access(a)[m], a[1], Uses(a), Gains(a)) /\ Uses(a) \in Nat /\ Gains(a) \in Nat
<1>0. m.ok \in BOOLEAN
  BY MachineIs
<1>1. CASE m.ok /\ a[2] > 0
  <2>1. Access(a)[m] = Grant(m, a[1], a[2]) /\ a[2] \in Nat /\ Uses(a) = 0 /\ Gains(a) = a[2]
    BY <1>1 DEF Access, Uses, Gains
  <2> QED BY <2>1, GrantIs
<1>2. CASE m.ok /\ a[2] < 0
  <2>1. Access(a)[m] = Lookup(m, a[1]) /\ Uses(a) = 1 /\ Gains(a) = 0
    BY <1>2 DEF Access, Uses, Gains
  <2> QED BY <2>1, LookupIs
<1>3. CASE m.ok /\ a[2] = 0
  <2>1. Access(a)[m] = m /\ Uses(a) = 0 /\ Gains(a) = 0
    BY <1>3 DEF Access, Uses, Gains
  <2>2. Accessed(m, m, a[1], 0, 0)
    BY DEF Accessed
  <2> QED BY <2>1, <2>2
<1>4. CASE ~m.ok
  <2>1. Access(a)[m] = m
    BY <1>4 DEF Access
  <2>2. Uses(a) \in Nat /\ Gains(a) \in Nat
    BY DEF Uses, Gains
  <2> QED BY <1>4, <2>1, <2>2 DEF Accessed
<1> QED BY <1>0, <1>1, <1>2, <1>3, <1>4

(* The machines a sequence of accesses goes through.                       *)
IsCourse(acc, m, n, A) == A = [i \in 0 .. n |-> IF i = 0 THEN m ELSE Access(acc[i])[A[i - 1]]]

(* The recursion of a sequence of accesses has a solution.                 *)
LEMMA CourseExists == ASSUME NEW acc, NEW m PROVE \A n \in Nat : \E A : IsCourse(acc, m, n, A)
<1> DEFINE S == {n \in Nat : \E A : IsCourse(acc, m, n, A)}
<1>1. 0 \in S
  <2> DEFINE A == [i \in 0 .. 0 |-> m]
  <2>1. IsCourse(acc, m, 0, A)
    BY DEF IsCourse
  <2> QED BY <2>1
<1>2. ASSUME NEW n \in Nat, n \in S PROVE n + 1 \in S
  <2>1. PICK A : IsCourse(acc, m, n, A)
    BY <1>2
  <2> DEFINE V == [i \in 0 .. n + 1 |-> IF i = 0 THEN m ELSE Access(acc[i])[A[i - 1]]]
  <2>2. \A i \in 0 .. n : V[i] = A[i]
    BY <2>1 DEF IsCourse
  <2>3. \A i \in 0 .. n + 1 : i # 0 => V[i - 1] = A[i - 1]
    <3>1. \A i \in 0 .. n + 1 : i # 0 => i - 1 \in 0 .. n
      OBVIOUS
    <3> HIDE DEF V
    <3> QED BY <2>2, <3>1
  <2>4. V = [i \in 0 .. n + 1 |-> IF i = 0 THEN m ELSE Access(acc[i])[V[i - 1]]]
    <3>1. \A i \in 0 .. n + 1 : V[i] = IF i = 0 THEN m ELSE Access(acc[i])[V[i - 1]]
      BY <2>3
    <3> HIDE DEF V
    <3>2. V = [i \in 0 .. n + 1 |-> V[i]]
      BY DEF V
    <3> QED BY <3>1, <3>2
  <2>5. IsCourse(acc, m, n + 1, V)
    BY <2>4 DEF IsCourse
  <2> QED BY <2>5
<1> HIDE DEF S
<1>3. Nat \subseteq S
  BY <1>1, <1>2, SetInduction
<1> QED BY <1>3 DEF S

(* Perform is the end of that course.                                      *)
LEMMA PerformRuns ==
  ASSUME NEW acc \in Seq(Wire \X Int)
  PROVE  \E A : IsCourse(acc, Start, Len(acc), A) /\ Perform[acc] = A[Len(acc)]
<1> DEFINE n == Len(acc)
           A == CHOOSE x : IsCourse(acc, Start, n, x)
<1>1. Perform[acc] = A[n]
  BY DEF Perform, IsCourse
<1>2. IsCourse(acc, Start, n, A)
  <2>1. n \in Nat
    OBVIOUS
  <2> HIDE DEF n
  <2> QED BY <2>1, CourseExists
<1> HIDE DEF A
<1> QED BY <1>1, <1>2

(* acc has n accesses, to the wires ws, with these uses and gains.         *)
AccessesAre(acc, n, ws, u, g) ==
  /\ n \in Nat
  /\ acc \in Seq(Wire \X Int) /\ Len(acc) = n
  /\ DOMAIN ws = 1 .. n
  /\ \A j \in 1 .. n : acc[j][1] = ws[j] /\ u[j] = Uses(acc[j]) /\ g[j] = Gains(acc[j])

(* What a sequence of accesses does to the reads a wire is allowed.        *)
LEMMA PerformIs ==
  ASSUME store \in [Slots -> Entry], NEW acc, NEW n, NEW ws, NEW u, NEW g,
         AccessesAre(acc, n, ws, u, g)
  PROVE  /\ Perform[acc] \in Machine
         /\ Counts(u, n) /\ Counts(g, n)
         /\ Perform[acc].ok =>
              \A w \in Keys : Credit(Perform[acc].store, w) + Weighed(ws, w, u)
                                = Credit(store, w) + Weighed(ws, w, g)
<1>1. /\ n \in Nat /\ acc \in Seq(Wire \X Int) /\ Len(acc) = n /\ DOMAIN ws = 1 .. n
      /\ \A j \in 1 .. n : acc[j][1] = ws[j] /\ u[j] = Uses(acc[j]) /\ g[j] = Gains(acc[j])
  BY DEF AccessesAre
<1>2. PICK A : IsCourse(acc, Start, n, A) /\ Perform[acc] = A[n]
  BY <1>1, PerformRuns
<1>3. A[0] = Start /\ \A i \in 1 .. n : A[i] = Access(acc[i])[A[i - 1]]
  <2> DEFINE e(i) == IF i = 0 THEN Start ELSE Access(acc[i])[A[i - 1]]
  <2>1. A = [i \in 0 .. n |-> e(i)]
    BY <1>2 DEF IsCourse
  <2> HIDE DEF e
  <2>2. \A i \in 0 .. n : A[i] = e(i)
    BY <2>1
  <2>3. 0 \in 0 .. n /\ \A i \in 1 .. n : i \in 0 .. n /\ i # 0
    BY <1>1
  <2> QED BY <2>2, <2>3 DEF e
<1>4. \A j \in 1 .. n : acc[j][2] \in Int
  <2>1. \A j \in 1 .. n : acc[j] \in Wire \X Int
    BY <1>1
  <2> QED BY <2>1
<1>5. \A i \in 1 .. n : A[i - 1] \in Machine =>
        Accessed(A[i - 1], A[i], ws[i], u[i], g[i]) /\ u[i] \in Nat /\ g[i] \in Nat
  <2> SUFFICES ASSUME NEW i \in 1 .. n, A[i - 1] \in Machine
               PROVE Accessed(A[i - 1], A[i], ws[i], u[i], g[i]) /\ u[i] \in Nat /\ g[i] \in Nat
    OBVIOUS
  <2> DEFINE a == acc[i]
             m == A[i - 1]
  <2>1. a[2] \in Int /\ m \in Machine /\ A[i] = Access(a)[m]
        /\ a[1] = ws[i] /\ u[i] = Uses(a) /\ g[i] = Gains(a)
    BY <1>1, <1>3, <1>4
  <2> HIDE DEF a, m
  <2>2. Accessed(m, Access(a)[m], a[1], Uses(a), Gains(a)) /\ Uses(a) \in Nat /\ Gains(a) \in Nat
    BY ONLY <2>1, AccessIs
  <2> QED BY <2>1, <2>2 DEF m
<1>6. Counts(u, n) /\ Counts(g, n)
  BY <1>1, <1>4 DEF Counts, Uses, Gains
<1>7. Start \in Machine /\ Start.store = store
  BY DEF Start, Machine
<1> DEFINE U(w) == Sums(Weights(ws, w, u))
           G(w) == Sums(Weights(ws, w, g))
           Good(i) == /\ A[i] \in Machine
                      /\ A[i].ok => \A w \in Keys : Credit(A[i].store, w) + U(w)[i] = Credit(store, w) + G(w)[i]
           S == {i \in Nat : i <= n => Good(i)}
<1>8. \A w : /\ U(w)[0] = 0 /\ G(w)[0] = 0
             /\ \A i \in 0 .. n : U(w)[i] \in Nat /\ G(w)[i] \in Nat
             /\ \A i \in 1 .. n : U(w)[i] = U(w)[i - 1] + (IF ws[i] = w THEN u[i] ELSE 0)
             /\ \A i \in 1 .. n : G(w)[i] = G(w)[i - 1] + (IF ws[i] = w THEN g[i] ELSE 0)
             /\ Weighed(ws, w, u) = U(w)[n] /\ Weighed(ws, w, g) = G(w)[n]
  <2> SUFFICES ASSUME NEW w
               PROVE /\ U(w)[0] = 0 /\ G(w)[0] = 0
                     /\ \A i \in 0 .. n : U(w)[i] \in Nat /\ G(w)[i] \in Nat
                     /\ \A i \in 1 .. n : U(w)[i] = U(w)[i - 1] + (IF ws[i] = w THEN u[i] ELSE 0)
                     /\ \A i \in 1 .. n : G(w)[i] = G(w)[i - 1] + (IF ws[i] = w THEN g[i] ELSE 0)
                     /\ Weighed(ws, w, u) = U(w)[n] /\ Weighed(ws, w, g) = G(w)[n]
    OBVIOUS
  <2>1. /\ Weights(ws, w, u) \in Nums(n)
        /\ \A j \in 1 .. n : Weights(ws, w, u)[j] = IF ws[j] = w THEN u[j] ELSE 0
    BY <1>1, <1>6, WeightsAre
  <2>2. /\ Weights(ws, w, g) \in Nums(n)
        /\ \A j \in 1 .. n : Weights(ws, w, g)[j] = IF ws[j] = w THEN g[j] ELSE 0
    BY <1>1, <1>6, WeightsAre
  <2>3. /\ U(w)[0] = 0 /\ \A i \in 1 .. n : U(w)[i] = U(w)[i - 1] + Weights(ws, w, u)[i]
        /\ Weighed(ws, w, u) = U(w)[n]
    BY <1>1, <2>1, SumsAre DEF Weighed
  <2>4. /\ G(w)[0] = 0 /\ \A i \in 1 .. n : G(w)[i] = G(w)[i - 1] + Weights(ws, w, g)[i]
        /\ Weighed(ws, w, g) = G(w)[n]
    BY <1>1, <2>2, SumsAre DEF Weighed
  <2>5. \A i \in 0 .. n : U(w)[i] \in Nat /\ G(w)[i] \in Nat
    BY <1>1, <2>1, <2>2, SumsNat
  <2> HIDE DEF U, G
  <2> QED BY <2>1, <2>2, <2>3, <2>4, <2>5
<1> HIDE DEF U, G
<1>9. \A w \in Keys : Credit(store, w) \in Nat
  BY <1>7, MachineIs
<1>10. Good(0)
  BY <1>3, <1>7, <1>8, <1>9
<1>11. ASSUME NEW i \in Nat, i + 1 <= n, Good(i) PROVE Good(i + 1)
  <2> DEFINE k == i + 1
  <2>1. k \in 1 .. n /\ k - 1 = i /\ i \in 0 .. n /\ k \in 0 .. n
    BY <1>1, <1>11
  <2> HIDE DEF k
  <2>2. Accessed(A[i], A[k], ws[k], u[k], g[k]) /\ u[k] \in Nat /\ g[k] \in Nat
    BY <1>5, <1>11, <2>1
  <2>3. A[k] \in Machine
    BY <2>2 DEF Accessed
  <2>4. ASSUME A[k].ok, NEW w \in Keys
        PROVE  Credit(A[k].store, w) + U(w)[k] = Credit(store, w) + G(w)[k]
    <3>1. /\ Credit(A[i].store, w) + U(w)[i] = Credit(store, w) + G(w)[i]
          /\ Credit(A[k].store, w) + (IF w = ws[k] THEN u[k] ELSE 0)
               = Credit(A[i].store, w) + (IF w = ws[k] THEN g[k] ELSE 0)
      BY <1>11, <2>2, <2>4 DEF Accessed
    <3>2. /\ U(w)[k] = U(w)[i] + (IF ws[k] = w THEN u[k] ELSE 0)
          /\ G(w)[k] = G(w)[i] + (IF ws[k] = w THEN g[k] ELSE 0)
          /\ U(w)[i] \in Nat /\ G(w)[i] \in Nat
      BY <1>8, <2>1
    <3>3. Credit(A[i].store, w) \in Nat /\ Credit(A[k].store, w) \in Nat /\ Credit(store, w) \in Nat
      BY <1>9, <1>11, <2>3, MachineIs
    <3> QED BY ONLY <2>2, <3>1, <3>2, <3>3
  <2> QED BY <2>3, <2>4 DEF k
<1> HIDE DEF Good
<1>12. 0 \in S /\ \A i \in Nat : i \in S => i + 1 \in S
  <2>1. \A i \in Nat : i + 1 \in Nat /\ (i + 1 <= n => i <= n)
    BY <1>1
  <2> QED BY <1>10, <1>11, <2>1
<1> HIDE DEF S
<1>13. Nat \subseteq S
  BY <1>12, SetInduction
<1>14. Good(n)
  <2>1. n \in S /\ n <= n
    BY <1>1, <1>13
  <2> QED BY <2>1 DEF S
<1> QED BY <1>2, <1>6, <1>8, <1>14 DEF Good

(* Reading the wires ws, one after the other.                              *)
LEMMA ReadsPerform ==
  ASSUME store \in [Slots -> Entry], NEW n \in Nat, NEW ws, ws \in Seq(Wire), Len(ws) = n
  PROVE  /\ Perform[ReadsOf(ws)] \in Machine
         /\ Perform[ReadsOf(ws)].ok =>
              \A w \in Keys : Credit(Perform[ReadsOf(ws)].store, w) + Occurrences(ws, w)
                                = Credit(store, w)
<1> DEFINE acc == ReadsOf(ws)
           zeros == [j \in Nat |-> 0]
<1>1. DOMAIN ws = 1 .. n /\ \A j \in 1 .. n : ws[j] \in Wire
  OBVIOUS
<1>2. acc = [j \in 1 .. n |-> <<ws[j], -1>>]
  BY <1>1 DEF ReadsOf
<1>3. acc \in Seq(Wire \X Int) /\ Len(acc) = n
  BY <1>1, <1>2
<1>4. \A j \in 1 .. n : acc[j][1] = ws[j] /\ acc[j][2] = -1
  BY <1>2
<1>5. \A j \in 1 .. n : AllOne[j] = 1 /\ zeros[j] = 0
  <2>1. \A j \in 1 .. n : j \in Nat
    OBVIOUS
  <2> QED BY <2>1 DEF AllOne
<1> HIDE DEF acc, zeros
<1>6. AccessesAre(acc, n, ws, AllOne, zeros)
  BY <1>1, <1>3, <1>4, <1>5 DEF AccessesAre, Uses, Gains
<1>7. /\ Perform[acc] \in Machine
      /\ Counts(zeros, n)
      /\ Perform[acc].ok =>
           \A w \in Keys : Credit(Perform[acc].store, w) + Weighed(ws, w, AllOne)
                             = Credit(store, w) + Weighed(ws, w, zeros)
  BY <1>6, PerformIs
<1>8. \A w : Weighed(ws, w, zeros) = 0 /\ Occurrences(ws, w) = Weighed(ws, w, AllOne)
  BY <1>1, <1>5, <1>7, WeighedNone, OccurrencesIs
<1>9. \A w \in Keys : Credit(store, w) + 0 = Credit(store, w)
  <2>1. Start \in Machine /\ Start.store = store
    BY DEF Start, Machine
  <2>2. \A w \in Keys : Credit(store, w) \in Nat
    BY <2>1, MachineIs
  <2> QED BY <2>2
<1> QED BY <1>7, <1>8, <1>9 DEF acc

(* Counts that fit in `Credits` are kept as they are.                      *)
LEMMA AsCreditsIs ==
  /\ \A n \in Nat : AsCredits(n) \in 0 .. MaxCredits
  /\ \A n \in Nat : n <= MaxCredits => AsCredits(n) = n
<1>1. MaxCredits \in Nat
  BY StorageAssumption
<1>2. \A n, m \in Nat : n % (m + 1) \in 0 .. m
  OBVIOUS
<1>3. \A n, m \in Nat : n <= m => n % (m + 1) = n
  OBVIOUS
<1> QED BY <1>1, <1>2, <1>3 DEF AsCredits

(* Outputs are told apart by their types.                                  *)
LEMMA OutputTypeIs ==
  ASSUME NEW comp, comp.nin \in Nat, NEW w \in Nat
  PROVE  /\ OutputType(comp, w)[2] \in Nat
         /\ \A i \in Nat : i > 0 =>
              (OutputType(comp, w) = <<"Internal", i>> <=> w = i + comp.nin + 1)
         /\ \A p \in 1 .. comp.nin :
              (OutputType(comp, w)[1] = "Input" /\ OutputType(comp, w)[2] = p) <=> w = p + 1
         /\ OutputType(comp, w)[1] = "Input" => OutputType(comp, w)[2] \in 1 .. comp.nin
<1> USE DEF FirstMock, Constants, FALSE_WIRE, TRUE_WIRE
<1>1. CASE w \in Constants
  <2>1. OutputType(comp, w) = <<"Constant", 0>>
    BY <1>1 DEF OutputType
  <2>2. \A x : <<"Constant", 0>> # <<"Internal", x>>
    OBVIOUS
  <2> QED BY <1>1, <2>1, <2>2
<1>2. CASE w \notin Constants /\ w < FirstMock + comp.nin
  <2>1. OutputType(comp, w) = <<"Input", w - FirstMock + 1>>
    BY <1>2 DEF OutputType
  <2>2. \A x : <<"Input", w - FirstMock + 1>> # <<"Internal", x>>
    OBVIOUS
  <2> QED BY <1>2, <2>1, <2>2
<1>3. CASE w \notin Constants /\ ~(w < FirstMock + comp.nin)
  <2>1. OutputType(comp, w) = <<"Internal", w - FirstMock - comp.nin + 1>>
    BY <1>3 DEF OutputType
  <2>2. \A x, y : <<"Internal", x>> = <<"Internal", y>> <=> x = y
    OBVIOUS
  <2>3. \A i \in Nat : i > 0 => (w - FirstMock - comp.nin + 1 = i <=> w = i + comp.nin + 1)
    OBVIOUS
  <2>4. w - FirstMock - comp.nin + 1 \in Nat /\ \A p \in 1 .. comp.nin : w # p + 1
    BY <1>3
  <2> QED BY <2>1, <2>2, <2>3, <2>4
<1> QED BY <1>1, <1>2, <1>3

(* Which name an internal output has.                                      *)
LEMMA InternalIs ==
  ASSUME NEW comp, comp.nin \in Nat, NEW w \in Nat, NEW i \in Nat, i > 0
  PROVE  OutputType(comp, w) = <<"Internal", i>> <=> w = i + comp.nin + 1
BY OutputTypeIs

(* Which name an output has that is an input.                              *)
LEMMA InputTypeIs ==
  ASSUME NEW comp, comp.nin \in Nat, NEW w \in Nat
  PROVE  /\ OutputType(comp, w)[2] \in Nat
         /\ OutputType(comp, w)[1] = "Input" => OutputType(comp, w)[2] \in 1 .. comp.nin
         /\ \A p \in 1 .. comp.nin :
              (OutputType(comp, w)[1] = "Input" /\ OutputType(comp, w)[2] = p) <=> w = p + 1
BY OutputTypeIs

(* What a template holds: the reads of every name by the closure.          *)
LEMMA TemplateIs ==
  ASSUME NEW crt \in Circuits, NEW c \in 1 .. Len(crt)
  PROVE  LET comp == crt[c]
             tmpl == Template(crt, c)
             N == CreatedBy(crt, comp.body, 1)
         IN  /\ N \in Nat
             /\ DOMAIN tmpl.inputs = 1 .. comp.nin /\ Len(tmpl.inputs) = comp.nin
             /\ \A p \in 1 .. comp.nin : tmpl.inputs[p] = AsCredits(Reads(comp.body, 1, p + 1))
             /\ DOMAIN tmpl.internal = 1 .. N
             /\ \A i \in 1 .. N : tmpl.internal[i] = AsCredits(Reads(comp.body, 1, i + comp.nin + 1))
             /\ DOMAIN tmpl.outputs = 1 .. Len(comp.outs)
             /\ \A j \in 1 .. Len(comp.outs) :
                  tmpl.outputs[j] = OutputType(comp, comp.outs[j]) /\ comp.outs[j] \in Nat
<1> DEFINE comp == crt[c]
           tmpl == Template(crt, c)
           N == CreatedBy(crt, comp.body, 1)
<1>1. comp.nin \in Nat /\ NameSeq(comp.outs, Len(comp.outs))
  BY ComponentIs
<1>2. N \in Nat
  BY CreatedAre
<1>3. /\ tmpl.inputs = [p \in 1 .. comp.nin |-> AsCredits(Reads(comp.body, 1, p + FirstMock - 1))]
      /\ tmpl.internal = [i \in 1 .. N |-> AsCredits(Reads(comp.body, 1, i + comp.nin + FirstMock - 1))]
      /\ tmpl.outputs = [j \in DOMAIN comp.outs |-> OutputType(comp, comp.outs[j])]
  BY DEF Template
<1>4. (\A p \in 1 .. comp.nin : p + FirstMock - 1 = p + 1)
      /\ (\A i \in 1 .. N : i + comp.nin + FirstMock - 1 = i + comp.nin + 1)
  BY <1>1, <1>2 DEF FirstMock
<1> HIDE DEF tmpl, N, comp
<1>5. \A p \in 1 .. comp.nin : tmpl.inputs[p] = AsCredits(Reads(comp.body, 1, p + 1))
  BY <1>3, <1>4
<1>6. \A i \in 1 .. N : tmpl.internal[i] = AsCredits(Reads(comp.body, 1, i + comp.nin + 1))
  BY <1>3, <1>4
<1>7. /\ DOMAIN tmpl.outputs = 1 .. Len(comp.outs)
      /\ \A j \in 1 .. Len(comp.outs) :
           tmpl.outputs[j] = OutputType(comp, comp.outs[j]) /\ comp.outs[j] \in Nat
  BY <1>1, <1>3 DEF NameSeq
<1>8. DOMAIN tmpl.inputs = 1 .. comp.nin /\ Len(tmpl.inputs) = comp.nin
  BY <1>1, <1>3
<1>9. DOMAIN tmpl.internal = 1 .. N
  BY <1>3
<1> QED BY <1>2, <1>5, <1>6, <1>7, <1>8, <1>9 DEF tmpl, N, comp

(* The credits routed to an internal wire are the caller's reads of the    *)
(* outputs it is.                                                          *)
LEMMA RoutedIs ==
  ASSUME NEW crt \in Circuits, NEW c \in 1 .. Len(crt), NEW oc,
         NEW i \in Nat, i > 0
  PROVE  Routed(Template(crt, c), oc, <<"Internal", i>>)
           = Weighed(crt[c].outs, i + crt[c].nin + 1, oc)
<1> DEFINE comp == crt[c]
           tmpl == Template(crt, c)
           w == i + comp.nin + 1
<1>1. /\ DOMAIN tmpl.outputs = 1 .. Len(comp.outs)
      /\ \A j \in 1 .. Len(comp.outs) :
           tmpl.outputs[j] = OutputType(comp, comp.outs[j]) /\ comp.outs[j] \in Nat
  BY TemplateIs
<1>2. comp.nin \in Nat /\ DOMAIN comp.outs = 1 .. Len(comp.outs)
  BY ComponentIs DEF NameSeq
<1>3. \A j \in 1 .. Len(comp.outs) : tmpl.outputs[j] = <<"Internal", i>> <=> comp.outs[j] = w
  <2> SUFFICES ASSUME NEW j \in 1 .. Len(comp.outs)
               PROVE  tmpl.outputs[j] = <<"Internal", i>> <=> comp.outs[j] = w
    OBVIOUS
  <2>1. OutputType(comp, comp.outs[j]) = <<"Internal", i>> <=> comp.outs[j] = w
    <3> DEFINE v == comp.outs[j]
    <3>1. comp.nin \in Nat /\ v \in Nat /\ i \in Nat /\ i > 0
      BY <1>1, <1>2
    <3> HIDE DEF v, comp, tmpl
    <3>2. OutputType(comp, v) = <<"Internal", i>> <=> v = i + comp.nin + 1
      BY <3>1, InternalIs
    <3> QED BY <3>2 DEF v
  <2> QED BY <1>1, <2>1
<1> HIDE DEF tmpl, w, comp
<1>4. [j \in DOMAIN tmpl.outputs |-> IF tmpl.outputs[j] = <<"Internal", i>> THEN oc[j] ELSE 0]
        = Weights(comp.outs, w, oc)
  BY <1>1, <1>2, <1>3 DEF Weights
<1> QED BY <1>4 DEF Routed, Weighed, tmpl, w, comp

(* s has the n items of a sequence over T.                                 *)
Items(s, n, T) == n \in Nat /\ DOMAIN s = 1 .. n /\ \A j \in 1 .. n : s[j] \in T

(* A function on 1 .. n is a sequence.                                     *)
LEMMA FunctionSeq ==
  ASSUME NEW T, NEW n \in Nat, NEW s \in [1 .. n -> T]
  PROVE  s \in Seq(T)
OBVIOUS

(* A concatenation, position by position.                                  *)
LEMMA ConcatIs ==
  ASSUME NEW T, NEW s \in Seq(T), NEW t \in Seq(T), NEW m, m = Len(s), NEW n, n = Len(t)
  PROVE  /\ DOMAIN (s \o t) = 1 .. m + n /\ Len(s \o t) = m + n /\ s \o t \in Seq(T)
         /\ \A j \in 1 .. m : (s \o t)[j] = s[j]
         /\ \A j \in 1 .. n : (s \o t)[m + j] = t[j]
OBVIOUS

(* Reversed, a sequence has its items from the other end.                  *)
LEMMA ReverseIs ==
  ASSUME NEW s, NEW n, NEW T, Items(s, n, T)
  PROVE  /\ Reverse(s) \in Seq(T) /\ Len(Reverse(s)) = n
         /\ \A j \in 1 .. n : Reverse(s)[n - j + 1] = s[j] /\ Reverse(s)[j] = s[n - j + 1]
BY DEF Reverse, Items

(* A component c called for outputs that are still read oc[j] times: what  *)
(* is read of its wire l in all.                                           *)
ReadIn(crt, c, oc, l) == Reads(crt[c].body, 1, l) + Weighed(crt[c].outs, l, oc)

(* The reads of a name are a number, and at least those in the closure.    *)
LEMMA ReadInNat ==
  ASSUME NEW crt \in Circuits, NEW c \in 1 .. Len(crt), NEW oc, Counts(oc, Len(crt[c].outs)), NEW l
  PROVE  /\ Reads(crt[c].body, 1, l) \in Nat /\ Weighed(crt[c].outs, l, oc) \in Nat
         /\ ReadIn(crt, c, oc, l) \in Nat
         /\ Reads(crt[c].body, 1, l) <= ReadIn(crt, c, oc, l)
<1>1. Reads(crt[c].body, 1, l) \in Nat
  BY ReadsAre
<1>2. Weighed(crt[c].outs, l, oc) \in Nat
  <2> DEFINE outs == crt[c].outs
             n == Len(outs)
  <2>1. n \in Nat /\ DOMAIN outs = 1 .. n
    BY ComponentIs DEF NameSeq
  <2> HIDE DEF n
  <2> QED BY <2>1, WeighedNat DEF n
<1> QED BY <1>1, <1>2 DEF ReadIn

(* The stack of counters of an instance: the one on top, its last, is the  *)
(* count of reads of the wire the component creates first.                 *)
StackGood(crt, c, oc, N, s) ==
  /\ N \in Nat /\ s \in Seq(0 .. MaxCredits) /\ Len(s) = N
  /\ \A i \in 1 .. N :
       ReadIn(crt, c, oc, i + crt[c].nin + 1) <= MaxCredits =>
         s[N - i + 1] = ReadIn(crt, c, oc, i + crt[c].nin + 1)

(* `to_instance`: the counters it stacks are the reads of the wires the    *)
(* component will create.                                                  *)
LEMMA StackIs ==
  ASSUME NEW crt \in Circuits, NEW c \in 1 .. Len(crt), NEW oc, Counts(oc, Len(crt[c].outs))
  PROVE  StackGood(crt, c, oc, CreatedBy(crt, crt[c].body, 1), InstanceStack(Template(crt, c), oc))
<1> DEFINE N == CreatedBy(crt, crt[c].body, 1)
           s == InstanceStack(Template(crt, c), oc)
           comp == crt[c]
           tmpl == Template(crt, c)
           e(i) == AsCredits(tmpl.internal[i] + Routed(tmpl, oc, <<"Internal", i>>))
           f == [i \in DOMAIN tmpl.internal |-> e(i)]
           l(i) == i + comp.nin + 1
           R(i) == Reads(comp.body, 1, l(i))
           W(i) == Weighed(comp.outs, l(i), oc)
<1>1. /\ N \in Nat /\ DOMAIN tmpl.internal = 1 .. N
      /\ \A i \in 1 .. N : tmpl.internal[i] = AsCredits(R(i))
  BY TemplateIs
<1>2. s = Reverse(f)
  BY DEF InstanceStack
<1>3. \A i \in 1 .. N : Routed(tmpl, oc, <<"Internal", i>>) = W(i)
  <2> SUFFICES ASSUME NEW i \in 1 .. N PROVE Routed(tmpl, oc, <<"Internal", i>>) = W(i)
    OBVIOUS
  <2>1. i \in Nat /\ i > 0
    BY <1>1
  <2> HIDE DEF tmpl
  <2> QED BY <2>1, RoutedIs DEF tmpl
<1>4. \A i \in 1 .. N : R(i) \in Nat /\ W(i) \in Nat /\ R(i) <= ReadIn(crt, c, oc, l(i))
  BY ReadInNat
<1>5. \A i \in 1 .. N : e(i) = AsCredits(AsCredits(R(i)) + W(i))
  BY <1>1, <1>3
<1>6. \A i \in 1 .. N : ReadIn(crt, c, oc, l(i)) = R(i) + W(i)
  BY DEF ReadIn
<1> HIDE DEF e, l, R, W, tmpl, N, s
<1>7. \A i \in 1 .. N : e(i) \in 0 .. MaxCredits
  <2>1. \A i \in 1 .. N : AsCredits(R(i)) \in Nat
    BY <1>4, AsCreditsIs, StorageAssumption
  <2>2. \A i \in 1 .. N : AsCredits(R(i)) + W(i) \in Nat
    BY <1>4, <2>1
  <2> QED BY <1>5, <2>2, AsCreditsIs
<1>8. \A i \in 1 .. N : ReadIn(crt, c, oc, l(i)) <= MaxCredits => e(i) = ReadIn(crt, c, oc, l(i))
  <2> SUFFICES ASSUME NEW i \in 1 .. N, ReadIn(crt, c, oc, l(i)) <= MaxCredits
               PROVE  e(i) = ReadIn(crt, c, oc, l(i))
    OBVIOUS
  <2>1. R(i) \in Nat /\ W(i) \in Nat /\ R(i) + W(i) <= MaxCredits /\ MaxCredits \in Nat
    BY <1>4, <1>6, StorageAssumption
  <2>2. R(i) <= MaxCredits /\ R(i) + W(i) \in Nat
    BY <2>1
  <2> QED BY <1>5, <1>6, <2>1, <2>2, AsCreditsIs
<1>9. DOMAIN f = 1 .. N /\ \A i \in 1 .. N : f[i] = e(i)
  BY <1>1
<1> HIDE DEF f
<1>10. /\ s \in Seq(0 .. MaxCredits) /\ Len(s) = N
       /\ \A j \in 1 .. N : s[N - j + 1] = f[j]
  <2> DEFINE T == 0 .. MaxCredits
  <2>1. Items(f, N, T)
    BY <1>1, <1>7, <1>9 DEF Items
  <2> HIDE DEF T
  <2>2. /\ Reverse(f) \in Seq(T) /\ Len(Reverse(f)) = N
        /\ \A j \in 1 .. N : Reverse(f)[N - j + 1] = f[j]
    BY ONLY <2>1, ReverseIs
  <2> QED BY <1>2, <2>2 DEF T
<1>11. StackGood(crt, c, oc, N, s)
  BY <1>1, <1>8, <1>9, <1>10 DEF l, StackGood
<1> QED BY <1>11 DEF N, s

(* The grants, apart: to which position, and how many.                     *)
PositionsOf(grants) == [j \in DOMAIN grants |-> grants[j][1]]
NumbersOf(grants) == [j \in DOMAIN grants |-> grants[j][2]]

(* Grants for nin inputs and n outputs, in order.                          *)
GrantsSplit(crt, c, oc, grants, nin, n) ==
  /\ nin \in Nat /\ n \in Nat /\ DOMAIN grants = 1 .. nin + n
  /\ \A p \in 1 .. nin :
       /\ grants[p][1] = p
       /\ grants[p][2] = AsCredits(Reads(crt[c].body, 1, p + 1))
  /\ \A j \in 1 .. n :
       /\ grants[nin + j][1] = OutputType(crt[c], crt[c].outs[j])[2]
       /\ grants[nin + j][2] =
            IF OutputType(crt[c], crt[c].outs[j])[1] = "Input" THEN oc[j] ELSE 0

(* What the grants to the inputs are: the reads by the component, then     *)
(* those by the caller of outputs that are inputs.                         *)
LEMMA GrantsAre ==
  ASSUME NEW crt \in Circuits, NEW c \in 1 .. Len(crt),
         NEW oc, Counts(oc, Len(crt[c].outs))
  PROVE  GrantsSplit(crt, c, oc, InputGrants(Template(crt, c), oc), crt[c].nin, Len(crt[c].outs))
<1> DEFINE grants == InputGrants(Template(crt, c), oc)
           nin == crt[c].nin
           n == Len(crt[c].outs)
           comp == crt[c]
           tmpl == Template(crt, c)
           own == [p \in 1 .. Len(tmpl.inputs) |-> <<p, tmpl.inputs[p]>>]
           routed == [j \in DOMAIN tmpl.outputs |->
                        <<tmpl.outputs[j][2], IF tmpl.outputs[j][1] = "Input" THEN oc[j] ELSE 0>>]
<1>1. nin \in Nat /\ n \in Nat
  BY ComponentIs DEF NameSeq
<1>2. /\ Len(tmpl.inputs) = nin
      /\ \A p \in 1 .. nin : tmpl.inputs[p] = AsCredits(Reads(comp.body, 1, p + 1))
      /\ DOMAIN tmpl.outputs = 1 .. n
      /\ \A j \in 1 .. n : tmpl.outputs[j] = OutputType(comp, comp.outs[j])
  BY TemplateIs
<1>3. grants = own \o routed
  BY DEF InputGrants
<1> HIDE DEF tmpl, comp, grants, nin, n
<1>4. /\ DOMAIN own = 1 .. nin /\ Len(own) = nin
      /\ \A p \in 1 .. nin : own[p][1] = p /\ own[p][2] = AsCredits(Reads(comp.body, 1, p + 1))
  BY <1>1, <1>2
<1>5. /\ DOMAIN routed = 1 .. n /\ Len(routed) = n
      /\ \A j \in 1 .. n :
           /\ routed[j][1] = OutputType(comp, comp.outs[j])[2]
           /\ routed[j][2] = IF OutputType(comp, comp.outs[j])[1] = "Input" THEN oc[j] ELSE 0
  BY <1>1, <1>2
<1>a. own \in Seq(Nat \X Nat) /\ routed \in Seq(Nat \X Nat)
  <2>1. \A p \in 1 .. nin : own[p] \in Nat \X Nat
    <3>1. \A p \in 1 .. nin : p \in Nat /\ tmpl.inputs[p] \in Nat
      <4>1. \A p \in 1 .. nin : Reads(comp.body, 1, p + 1) \in Nat
        BY ReadInNat DEF comp
      <4>2. \A p \in 1 .. nin : tmpl.inputs[p] = AsCredits(Reads(comp.body, 1, p + 1)) /\ p \in Nat
        BY <1>1, <1>2
      <4> HIDE DEF comp, nin, tmpl
      <4>3. \A p \in 1 .. nin : AsCredits(Reads(comp.body, 1, p + 1)) \in Nat
        BY <4>1, AsCreditsIs, StorageAssumption
      <4> QED BY <4>2, <4>3
    <3> QED BY <1>2, <3>1
  <2>2. \A j \in 1 .. n : routed[j] \in Nat \X Nat
    <3>1. \A j \in 1 .. n : oc[j] \in Nat /\ comp.outs[j] \in Nat /\ comp.nin \in Nat
      BY <1>1, ComponentIs DEF Counts, comp, NameSeq, n
    <3>2. \A j \in 1 .. n : OutputType(comp, comp.outs[j])[2] \in Nat
      BY <3>1, InputTypeIs
    <3> QED BY <1>2, <3>1, <3>2
  <2>3. own \in [1 .. nin -> Nat \X Nat]
    BY <1>2, <2>1
  <2>4. routed \in [1 .. n -> Nat \X Nat]
    BY <1>2, <2>2
  <2> HIDE DEF own, routed
  <2> QED BY <1>1, <2>3, <2>4, FunctionSeq
<1> HIDE DEF own, routed
<1>6. /\ DOMAIN grants = 1 .. nin + n
      /\ \A p \in 1 .. nin : grants[p] = own[p]
      /\ \A j \in 1 .. n : grants[nin + j] = routed[j]
  <2> DEFINE T == Nat \X Nat
  <2>1. own \in Seq(T) /\ routed \in Seq(T) /\ nin = Len(own) /\ n = Len(routed)
    BY <1>4, <1>5, <1>a
  <2> HIDE DEF T
  <2>2. /\ DOMAIN (own \o routed) = 1 .. nin + n
        /\ \A p \in 1 .. nin : (own \o routed)[p] = own[p]
        /\ \A j \in 1 .. n : (own \o routed)[nin + j] = routed[j]
    BY ONLY <2>1, ConcatIs
  <2> QED BY <1>3, <2>2
<1> QED BY <1>1, <1>4, <1>5, <1>6 DEF comp, GrantsSplit, grants, nin, n

(* What an input of the component is granted: its own reads, and those the *)
(* caller makes of it as an output.                                        *)
LEMMA GrantedIs ==
  ASSUME NEW crt \in Circuits, NEW c \in 1 .. Len(crt),
         NEW oc, Counts(oc, Len(crt[c].outs)),
         NEW grants, grants = InputGrants(Template(crt, c), oc),
         NEW m, m = crt[c].nin + Len(crt[c].outs)
  PROVE  /\ m \in Nat /\ DOMAIN PositionsOf(grants) = 1 .. m
         /\ Counts(NumbersOf(grants), m)
         /\ \A j \in 1 .. m : NumbersOf(grants)[j] # 0 => PositionsOf(grants)[j] \in 1 .. crt[c].nin
         /\ \A p : Granted(grants, p) = Weighed(PositionsOf(grants), p, NumbersOf(grants))
         /\ \A p \in 1 .. crt[c].nin :
              ReadIn(crt, c, oc, p + 1) <= MaxCredits => Granted(grants, p) = ReadIn(crt, c, oc, p + 1)
<1> DEFINE comp == crt[c]
           nin == comp.nin
           n == Len(comp.outs)
           po == PositionsOf(grants)
           no == NumbersOf(grants)
           ty(j) == OutputType(comp, comp.outs[j])
           in(j) == IF ty(j)[1] = "Input" THEN oc[j] ELSE 0
<1>1. /\ nin \in Nat /\ n \in Nat /\ DOMAIN grants = 1 .. nin + n
      /\ \A p \in 1 .. nin :
           grants[p][1] = p /\ grants[p][2] = AsCredits(Reads(comp.body, 1, p + 1))
      /\ \A j \in 1 .. n : grants[nin + j][1] = ty(j)[2] /\ grants[nin + j][2] = in(j)
  <2>1. /\ nin \in Nat /\ n \in Nat /\ DOMAIN grants = 1 .. nin + n
        /\ \A p \in 1 .. nin :
             grants[p][1] = p /\ grants[p][2] = AsCredits(Reads(crt[c].body, 1, p + 1))
        /\ \A j \in 1 .. n :
             /\ grants[nin + j][1] = OutputType(crt[c], crt[c].outs[j])[2]
             /\ grants[nin + j][2] =
                  IF OutputType(crt[c], crt[c].outs[j])[1] = "Input" THEN oc[j] ELSE 0
    BY SMTT(30), GrantsAre DEF GrantsSplit
  <2> QED BY <2>1
<1>2. /\ DOMAIN po = 1 .. m /\ DOMAIN no = 1 .. m /\ m = nin + n
      /\ \A j \in 1 .. m : po[j] = grants[j][1] /\ no[j] = grants[j][2]
  BY <1>1 DEF PositionsOf, NumbersOf
<1>3. /\ \A p \in 1 .. nin : p \in 1 .. m
      /\ \A j \in 1 .. n : nin + j \in 1 .. m
      /\ \A k \in 1 .. m : k \in 1 .. nin \/ \E j \in 1 .. n : k = nin + j
  <2>1. \A k \in 1 .. m : k \in 1 .. nin \/ (k - nin \in 1 .. n /\ k = nin + (k - nin))
    BY <1>1, <1>2
  <2> QED BY <1>1, <1>2, <2>1
<1>4. \A j \in 1 .. n :
        /\ comp.outs[j] \in Nat
        /\ ty(j)[2] \in Nat
        /\ ty(j)[1] = "Input" => ty(j)[2] \in 1 .. nin
        /\ \A p \in 1 .. nin : (ty(j)[1] = "Input" /\ ty(j)[2] = p) <=> comp.outs[j] = p + 1
  <2>1. \A j \in 1 .. n : comp.outs[j] \in Nat
    BY ComponentIs DEF NameSeq
  <2>2. comp.nin \in Nat
    BY <1>1
  <2> HIDE DEF n, comp
  <2> QED BY <2>1, <2>2, InputTypeIs
<1>5. \A p \in 1 .. nin : Reads(comp.body, 1, p + 1) \in Nat
  BY ReadInNat
<1>6. \A p \in 1 .. nin : AsCredits(Reads(comp.body, 1, p + 1)) \in Nat
  BY <1>5, AsCreditsIs, StorageAssumption
<1>7. \A j \in 1 .. n : in(j) \in Nat
  <2>1. \A j \in 1 .. n : oc[j] \in Nat
    BY DEF Counts
  <2> QED BY <2>1
<1> HIDE DEF po, no, ty, in, nin, n
<1>8. Counts(no, m)
  <2>1. \A p \in 1 .. nin : no[p] \in Nat
    BY <1>1, <1>2, <1>3, <1>6
  <2>2. \A j \in 1 .. n : no[nin + j] \in Nat
    <3> SUFFICES ASSUME NEW j \in 1 .. n PROVE no[nin + j] \in Nat
      OBVIOUS
    <3>1. nin + j \in 1 .. m
      BY <1>3
    <3>2. no[nin + j] = in(j)
      BY <1>1, <1>2, <3>1
    <3> QED BY <1>7, <3>2
  <2> QED BY <1>3, <2>1, <2>2 DEF Counts
<1>9. \A j \in 1 .. m : no[j] # 0 => po[j] \in 1 .. nin
  <2>1. \A p \in 1 .. nin : po[p] \in 1 .. nin
    BY <1>1, <1>2, <1>3
  <2>2. \A j \in 1 .. n : no[nin + j] # 0 => po[nin + j] \in 1 .. nin
    <3> SUFFICES ASSUME NEW j \in 1 .. n, no[nin + j] # 0 PROVE po[nin + j] \in 1 .. nin
      OBVIOUS
    <3>1. no[nin + j] = in(j) /\ po[nin + j] = ty(j)[2]
      BY <1>1, <1>2, <1>3
    <3>2. ty(j)[1] = "Input"
      BY <3>1 DEF in
    <3> QED BY <1>4, <3>1, <3>2
  <2> QED BY <1>3, <2>1, <2>2
<1>10. \A p : Granted(grants, p) = Weighed(po, p, no)
  <2> SUFFICES ASSUME NEW p PROVE Granted(grants, p) = Weighed(po, p, no)
    OBVIOUS
  <2>1. [j \in DOMAIN grants |-> IF grants[j][1] = p THEN grants[j][2] ELSE 0] = Weights(po, p, no)
    BY <1>1, <1>2 DEF Weights
  <2> QED BY <2>1 DEF Granted, Weighed
<1>11. ASSUME NEW p \in 1 .. nin, ReadIn(crt, c, oc, p + 1) <= MaxCredits
       PROVE  Granted(grants, p) = ReadIn(crt, c, oc, p + 1)
  <2> DEFINE ps == [q \in 1 .. nin |-> q]
             ts == [j \in 1 .. n |-> ty(j)[2]]
             ins == [j \in 1 .. n |-> in(j)]
             l == p + 1
             R == Reads(comp.body, 1, l)
  <2>1. /\ DOMAIN ps = 1 .. nin /\ DOMAIN ts = 1 .. n
        /\ \A j \in 1 .. nin : po[j] = ps[j] /\ ps[j] = j
        /\ \A j \in 1 .. n : po[nin + j] = ts[j] /\ ts[j] = ty(j)[2]
        /\ \A j \in 1 .. n : ins[j] = no[nin + j] /\ ins[j] = in(j)
    BY <1>1, <1>2, <1>3
  <2> HIDE DEF ps, ts, ins
  <2>2. DOMAIN po = 1 .. nin + n /\ Counts(no, nin + n) /\ nin \in Nat /\ n \in Nat
    BY <1>1, <1>2, <1>8
  <2>3. Weighed(po, p, no) = Weighed(ps, p, no) + Weighed(ts, p, ins)
    BY ONLY SMTT(30), <2>1, <2>2, WeighedConcat
  <2>4. Weighed(ps, p, no) = AsCredits(R)
    <3>1. Counts(no, nin)
      BY <1>3, <1>8 DEF Counts
    <3>2. /\ Weights(ps, p, no) \in Nums(nin)
          /\ \A j \in 1 .. nin : Weights(ps, p, no)[j] = IF ps[j] = p THEN no[j] ELSE 0
      BY <2>1, <2>2, <3>1, WeightsAre
    <3>3. Weights(ps, p, no)[p] = no[p] /\ \A j \in 1 .. nin : j # p => Weights(ps, p, no)[j] = 0
      BY <2>1, <3>2
    <3>4. Total[Weights(ps, p, no)] = Weights(ps, p, no)[p]
      BY <2>2, <3>2, <3>3, TotalPoint
    <3>5. no[p] = AsCredits(R)
      BY <1>1, <1>2, <1>3
    <3> QED BY <3>3, <3>4, <3>5 DEF Weighed
  <2>5. Weighed(ts, p, ins) = Weighed(comp.outs, l, oc)
    <3>1. DOMAIN comp.outs = 1 .. n
      BY ComponentIs DEF NameSeq, n
    <3>2. Weights(ts, p, ins) = Weights(comp.outs, l, oc)
      BY <1>4, <2>1, <3>1 DEF Weights, in
    <3> QED BY <3>2 DEF Weighed
  <2>6. AsCredits(R) = R
    <3>1. R \in Nat /\ R <= ReadIn(crt, c, oc, l) /\ ReadIn(crt, c, oc, l) \in Nat /\ MaxCredits \in Nat
      BY ReadInNat, StorageAssumption
    <3>2. ReadIn(crt, c, oc, l) <= MaxCredits
      BY <1>11
    <3> HIDE DEF R, l
    <3>3. R <= MaxCredits
      BY ONLY <3>1, <3>2
    <3> QED BY <3>1, <3>3, AsCreditsIs
  <2> QED BY <1>10, <2>3, <2>4, <2>5, <2>6 DEF ReadIn
<1> QED BY <1>1, <1>2, <1>8, <1>9, <1>10, <1>11 DEF po, no, nin, n

(* su is s and then u; e is the part of d that belongs to u.               *)
Joined(su, s, m, u, n) ==
  /\ m \in Nat /\ n \in Nat /\ DOMAIN s = 1 .. m /\ DOMAIN u = 1 .. n /\ DOMAIN su = 1 .. m + n
  /\ \A j \in 1 .. m : su[j] = s[j]
  /\ \A j \in 1 .. n : su[m + j] = u[j]
Beyond(e, d, m, n) == \A j \in 1 .. n : e[j] = d[m + j]

(* The weight in two parts that are joined.                                *)
LEMMA WeighedJoin ==
  ASSUME NEW su, NEW s, NEW m, NEW u, NEW n, Joined(su, s, m, u, n),
         NEW d, Counts(d, m + n), NEW e, Beyond(e, d, m, n), NEW v
  PROVE  Weighed(su, v, d) = Weighed(s, v, d) + Weighed(u, v, e)
BY WeighedConcat DEF Joined, Beyond

(* The names, among those of the child, that the grants are for.           *)
NamesOf(grants) == [j \in DOMAIN grants |-> IF grants[j][2] = 0 THEN FALSE_WIRE ELSE grants[j][1] + 1]

(* t counts the reads of the inputs of c, and `Credits` can hold them.     *)
PromisedReads(crt, c, oc, t) ==
  \A p \in 1 .. crt[c].nin :
    t[p] = ReadIn(crt, c, oc, p + 1) /\ ReadIn(crt, c, oc, p + 1) <= MaxCredits

(* The partial sums of numbers never fall, and stay where only zeros come. *)
LEMMA SumsGrow ==
  ASSUME NEW n \in Nat, NEW f \in Nums(n)
  PROVE  \A j \in 0 .. n : \A i \in j .. n :
           /\ Sums(f)[j] <= Sums(f)[i]
           /\ (\A h \in j + 1 .. i : f[h] = 0) => Sums(f)[j] = Sums(f)[i]
<1> DEFINE X == Sums(f)
<1>1. /\ \A i \in 0 .. n : X[i] \in Nat
      /\ \A i \in 1 .. n : X[i] = X[i - 1] + f[i] /\ f[i] \in Nat
  BY SumsAre, SumsNat DEF Nums
<1> HIDE DEF X
<1> SUFFICES ASSUME NEW j \in 0 .. n
             PROVE  \A i \in j .. n : X[j] <= X[i] /\ ((\A h \in j + 1 .. i : f[h] = 0) => X[j] = X[i])
  BY DEF X
<1> DEFINE Good(i) == X[j] <= X[i] /\ ((\A h \in j + 1 .. i : f[h] = 0) => X[j] = X[i])
           S == {d \in Nat : j + d <= n => Good(j + d)}
<1>2. 0 \in S
  BY <1>1
<1>3. ASSUME NEW d \in Nat, d \in S PROVE d + 1 \in S
  <2> SUFFICES ASSUME j + (d + 1) <= n PROVE Good(j + (d + 1))
    OBVIOUS
  <2> DEFINE k == j + d
  <2>1. k \in 0 .. n /\ k + 1 \in 1 .. n /\ (k + 1) - 1 = k /\ j + (d + 1) = k + 1 /\ j <= k
    OBVIOUS
  <2>2. Good(k)
    BY <1>3, <2>1
  <2> HIDE DEF k
  <2>3. X[k + 1] = X[k] + f[k + 1] /\ X[k] \in Nat /\ f[k + 1] \in Nat /\ X[j] \in Nat
    BY <1>1, <2>1
  <2>4. X[j] <= X[k + 1]
    BY <2>2, <2>3
  <2>5. ASSUME \A h \in j + 1 .. k + 1 : f[h] = 0 PROVE X[j] = X[k + 1]
    <3>1. k + 1 \in j + 1 .. k + 1 /\ \A h \in j + 1 .. k : h \in j + 1 .. k + 1
      BY <2>1
    <3> QED BY <2>2, <2>3, <2>5, <3>1
  <2> QED BY <2>1, <2>4, <2>5
<1> HIDE DEF Good, S
<1>4. Nat \subseteq S
  BY <1>2, <1>3, SetInduction
<1>5. \A i \in j .. n : i - j \in Nat /\ j + (i - j) = i /\ i <= n
  OBVIOUS
<1>6. \A i \in j .. n : Good(i)
  BY <1>4, <1>5 DEF S
<1> QED BY <1>6 DEF Good

(* What is left in t has the value it had in s.                            *)
Kept(s, t) == \A h \in Keys : Credit(t, h) > 0 => Value(t, h) = Value(s, h)

(* A wire that can be read in s.                                           *)
Ready(s, w) == w \in Constants \/ (w \in Keys /\ Credit(s, w) > 0 /\ Value(s, w) # NoData)

(* Reading a wire changes no value but that of a wire it uses up.          *)
LEMMA GetKeeps ==
  ASSUME NEW s \in [Slots -> Entry], NEW k \in Keys, Credit(s, k) > 0
  PROVE  Kept(s, Get(s, k))
<1> DEFINE i == ToIndex(k)
<1>1. i \in Slots /\ \A h \in Keys : ToIndex(h) \in Slots /\ (h # k => ToIndex(h) # i)
  BY KeysAre
<1>2. VacantEntry.credits = 0
  BY DEF VacantEntry
<1>3. CASE s[i].credits = 1
  <2>1. Get(s, k) = [s EXCEPT ![i] = VacantEntry]
    BY <1>3 DEF Get
  <2>2. \A h \in Keys : h # k => Get(s, k)[ToIndex(h)] = s[ToIndex(h)]
    BY <1>1, <2>1
  <2>3. Credit(Get(s, k), k) = 0
    BY <1>1, <1>2, <2>1 DEF Credit
  <2> QED BY <2>2, <2>3 DEF Kept, Value
<1>4. CASE s[i].credits # 1
  <2> DEFINE f == [s[i] EXCEPT !.credits = @ - 1]
  <2>1. Get(s, k) = [s EXCEPT ![i] = f]
    BY <1>1, <1>4 DEF Get
  <2>2. f.data = s[i].data
    BY <1>1 DEF Entry
  <2> HIDE DEF f
  <2>3. \A h \in Keys : Get(s, k)[ToIndex(h)] = IF h = k THEN f ELSE s[ToIndex(h)]
    BY <1>1, <2>1
  <2> QED BY <2>2, <2>3 DEF Kept, Value
<1> QED BY <1>3, <1>4

(* Granting reads changes no value.                                        *)
LEMMA AddKeeps ==
  ASSUME NEW s \in [Slots -> Entry], NEW k \in Keys, NEW n
  PROVE  Kept(s, AddCredits(s, k, n))
<1> DEFINE i == ToIndex(k)
           f == [s[i] EXCEPT !.credits = @ + n]
<1>1. i \in Slots /\ \A h \in Keys : ToIndex(h) \in Slots /\ (h # k => ToIndex(h) # i)
  BY KeysAre
<1>2. AddCredits(s, k, n) = [s EXCEPT ![i] = f]
  BY DEF AddCredits
<1>3. f.data = s[i].data
  BY <1>1 DEF Entry
<1> HIDE DEF f
<1>4. \A h \in Keys : AddCredits(s, k, n)[ToIndex(h)] = IF h = k THEN f ELSE s[ToIndex(h)]
  BY <1>1, <1>2
<1> QED BY <1>3, <1>4 DEF Kept, Value

(* Feeding a wire changes its value and no other.                          *)
LEMMA SetValues ==
  ASSUME NEW s \in [Slots -> Entry], NEW k \in Keys, NEW d
  PROVE  /\ Value(Set(s, k, d), k) = d
         /\ \A h \in Keys : h # k => Value(Set(s, k, d), h) = Value(s, h)
<1> DEFINE i == ToIndex(k)
           f == [s[i] EXCEPT !.data = d]
<1>1. i \in Slots /\ \A h \in Keys : ToIndex(h) \in Slots /\ (h # k => ToIndex(h) # i)
  BY KeysAre
<1>2. Set(s, k, d) = [s EXCEPT ![i] = f]
  BY DEF Set
<1>3. f.data = d
  BY <1>1 DEF Entry
<1> HIDE DEF f
<1>4. \A h \in Keys : Set(s, k, d)[ToIndex(h)] = IF h = k THEN f ELSE s[ToIndex(h)]
  BY <1>1, <1>2
<1> QED BY <1>3, <1>4 DEF Value

(* What can be read is read, and the rest keeps its value.                 *)
LEMMA LookupGoes ==
  ASSUME NEW m \in Machine, m.ok, NEW w, Ready(m.store, w)
  PROVE  Lookup(m, w).ok /\ Kept(m.store, Lookup(m, w).store)
<1>1. CASE w \in Constants
  <2>1. Lookup(m, w) = m
    BY <1>1 DEF Lookup
  <2> QED BY <2>1 DEF Kept
<1>2. CASE w \notin Constants
  <2>1. w \in Keys /\ Credit(m.store, w) > 0 /\ Value(m.store, w) # NoData
    BY <1>2 DEF Ready
  <2>2. Lookup(m, w) = [m EXCEPT !.store = Get(m.store, w)]
    BY <1>2, <2>1 DEF Lookup, Found, Credit
  <2>3. Lookup(m, w).ok /\ Lookup(m, w).store = Get(m.store, w)
    BY <2>2 DEF Machine
  <2>4. m.store \in [Slots -> Entry]
    BY MachineIs
  <2> QED BY <2>1, <2>3, <2>4, GetKeeps
<1> QED BY <1>1, <1>2

(* Reads are granted to a wire that is there when they fit.                *)
LEMMA GrantGoes ==
  ASSUME NEW m \in Machine, m.ok, NEW w, Ready(m.store, w), NEW n \in Nat,
         w \in Keys => Credit(m.store, w) + n <= MaxCredits
  PROVE  Grant(m, w, n).ok /\ Kept(m.store, Grant(m, w, n).store)
<1>1. CASE w \in Constants
  <2>1. Grant(m, w, n) = m
    BY <1>1 DEF Grant
  <2> QED BY <2>1 DEF Kept
<1>2. CASE w \notin Constants
  <2>1. w \in Keys /\ Credit(m.store, w) > 0 /\ Credit(m.store, w) + n <= MaxCredits
    BY <1>2 DEF Ready
  <2>2. Credit(m.store, w) \in Nat /\ MaxCredits \in Nat
    BY <2>1, MachineIs, StorageAssumption
  <2>3. ~ (Credit(m.store, w) + n > MaxCredits)
    BY <2>1, <2>2
  <2>4. Grant(m, w, n) = [m EXCEPT !.store = AddCredits(m.store, w, n)]
    BY <1>2, <2>1, <2>3 DEF Grant, Found, Credit, Overflows
  <2>5. Grant(m, w, n).ok /\ Grant(m, w, n).store = AddCredits(m.store, w, n)
    BY <2>4 DEF Machine
  <2>6. m.store \in [Slots -> Entry]
    BY MachineIs
  <2> QED BY <2>1, <2>5, <2>6, AddKeeps
<1> QED BY <1>1, <1>2

(* A wire that is there is fed, and only that one; nothing is done to one  *)
(* that is not.                                                            *)
LEMMA FeedGoes ==
  ASSUME NEW m \in Machine, m.ok, NEW w, NEW d \in Data,
         w \in Constants \cup {UNREACHABLE} \/ (w \in Keys /\ Credit(m.store, w) > 0)
  PROVE  /\ Feed(m, w, d).ok
         /\ \A h \in Keys : Value(Feed(m, w, d).store, h) = IF h = w THEN d ELSE Value(m.store, h)
<1>1. CASE w \in Constants \cup {UNREACHABLE}
  <2>1. Feed(m, w, d) = m /\ w \notin Keys
    BY <1>1, KeysAre DEF Feed
  <2> QED BY <2>1
<1>2. CASE w \notin Constants \cup {UNREACHABLE}
  <2>1. w \in Keys /\ Credit(m.store, w) > 0
    BY <1>2
  <2>2. Feed(m, w, d) = [m EXCEPT !.store = Set(m.store, w, d)]
    BY <1>2, <2>1 DEF Feed, Found, Credit
  <2>3. Feed(m, w, d).ok /\ Feed(m, w, d).store = Set(m.store, w, d)
    BY <2>2 DEF Machine
  <2>4. m.store \in [Slots -> Entry]
    BY MachineIs
  <2> QED BY <2>1, <2>3, <2>4, SetValues
<1> QED BY <1>1, <1>2

(* The accesses acc grant m times, then use, wires of ws.                  *)
GrantsFirst(acc, n, m, xs, u, g, ws) ==
  /\ AccessesAre(acc, n, xs, u, g)
  /\ m \in 0 .. n
  /\ \A j \in 1 .. m : u[j] = 0
  /\ \A j \in m + 1 .. n : g[j] = 0
  /\ \A j \in 1 .. n : u[j] # 0 \/ g[j] # 0 => \E p \in DOMAIN ws : xs[j] = ws[p]

(* The credits st gives each wire cover its uses and have room for its     *)
(* gains.                                                                  *)
Covers(st, xs, u, g) ==
  \A w \in Keys : /\ Weighed(xs, w, u) <= Credit(st, w) + Weighed(xs, w, g)
                  /\ Credit(st, w) + Weighed(xs, w, g) <= MaxCredits

(* One access that the storage can serve: of a wire that is there, with    *)
(* room for the reads it gains.                                            *)
LEMMA AccessGoes ==
  ASSUME NEW m \in Machine, m.ok, NEW a, a[2] \in Int,
         a[2] # 0 => Ready(m.store, a[1]),
         a[1] \in Keys => Credit(m.store, a[1]) + Gains(a) <= MaxCredits
  PROVE  Access(a)[m].ok /\ Kept(m.store, Access(a)[m].store)
<1>1. CASE a[2] > 0
  <2>1. Access(a)[m] = Grant(m, a[1], a[2]) /\ a[2] \in Nat /\ Gains(a) = a[2] /\ Ready(m.store, a[1])
    BY <1>1 DEF Access, Gains
  <2> QED BY <2>1, GrantGoes
<1>2. CASE a[2] < 0
  <2>1. Access(a)[m] = Lookup(m, a[1]) /\ Ready(m.store, a[1])
    BY <1>2 DEF Access
  <2> QED BY <2>1, LookupGoes
<1>3. CASE a[2] = 0
  <2>1. Access(a)[m] = m
    BY <1>3 DEF Access
  <2> QED BY <2>1 DEF Kept
<1> QED BY <1>1, <1>2, <1>3

(* Accesses that grant first, to and of wires that are there, all succeed  *)
(* when the credits cover the uses and the grants fit; what they leave     *)
(* keeps its value.                                                        *)
LEMMA PerformGoes ==
  ASSUME store \in [Slots -> Entry], NEW acc, NEW n, NEW m, NEW xs, NEW u, NEW g, NEW ws,
         GrantsFirst(acc, n, m, xs, u, g, ws), \A p \in DOMAIN ws : Ready(store, ws[p]),
         Covers(store, xs, u, g)
  PROVE  Perform[acc].ok /\ Kept(store, Perform[acc].store)
<1>1. /\ n \in Nat /\ acc \in Seq(Wire \X Int) /\ Len(acc) = n /\ DOMAIN xs = 1 .. n
      /\ \A j \in 1 .. n : acc[j][1] = xs[j] /\ u[j] = Uses(acc[j]) /\ g[j] = Gains(acc[j])
      /\ m \in 0 .. n
      /\ \A j \in 1 .. m : u[j] = 0
      /\ \A j \in m + 1 .. n : g[j] = 0
      /\ \A j \in 1 .. n : u[j] # 0 \/ g[j] # 0 => \E p \in DOMAIN ws : xs[j] = ws[p]
  BY DEF AccessesAre, GrantsFirst
<1>2. PICK A : IsCourse(acc, Start, n, A) /\ Perform[acc] = A[n]
  BY <1>1, PerformRuns
<1>3. A[0] = Start /\ \A i \in 1 .. n : A[i] = Access(acc[i])[A[i - 1]]
  <2> DEFINE e(i) == IF i = 0 THEN Start ELSE Access(acc[i])[A[i - 1]]
  <2>1. A = [i \in 0 .. n |-> e(i)]
    BY <1>2 DEF IsCourse
  <2> HIDE DEF e
  <2>2. \A i \in 0 .. n : A[i] = e(i)
    BY <2>1
  <2>3. 0 \in 0 .. n /\ \A i \in 1 .. n : i \in 0 .. n /\ i # 0
    BY <1>1
  <2> QED BY <2>2, <2>3 DEF e
<1>4. \A j \in 1 .. n : acc[j][2] \in Int
  <2>1. \A j \in 1 .. n : acc[j] \in Wire \X Int
    BY <1>1
  <2> QED BY <2>1
<1>5. Start \in Machine /\ Start.store = store /\ Start.ok
  BY DEF Start, Machine
<1>6. Counts(u, n) /\ Counts(g, n)
  BY <1>1, <1>4 DEF Counts, Uses, Gains
<1> DEFINE U(w) == Sums(Weights(xs, w, u))
           G(w) == Sums(Weights(xs, w, g))
           Good(i) == /\ A[i] \in Machine /\ A[i].ok /\ Kept(store, A[i].store)
                      /\ \A w \in Keys : Credit(A[i].store, w) + U(w)[i] = Credit(store, w) + G(w)[i]
           S == {i \in Nat : i <= n => Good(i)}
<1>7. \A w : /\ U(w)[0] = 0 /\ G(w)[0] = 0
             /\ \A i \in 0 .. n : U(w)[i] \in Nat /\ G(w)[i] \in Nat
             /\ \A i \in 1 .. n : U(w)[i] = U(w)[i - 1] + (IF xs[i] = w THEN u[i] ELSE 0)
             /\ \A i \in 1 .. n : G(w)[i] = G(w)[i - 1] + (IF xs[i] = w THEN g[i] ELSE 0)
             /\ \A i \in 0 .. n : U(w)[i] <= Weighed(xs, w, u) /\ G(w)[i] <= Weighed(xs, w, g)
             /\ \A i \in 0 .. m : U(w)[i] = 0
             /\ \A i \in m .. n : G(w)[i] = Weighed(xs, w, g)
  <2> SUFFICES ASSUME NEW w
               PROVE /\ U(w)[0] = 0 /\ G(w)[0] = 0
                     /\ \A i \in 0 .. n : U(w)[i] \in Nat /\ G(w)[i] \in Nat
                     /\ \A i \in 1 .. n : U(w)[i] = U(w)[i - 1] + (IF xs[i] = w THEN u[i] ELSE 0)
                     /\ \A i \in 1 .. n : G(w)[i] = G(w)[i - 1] + (IF xs[i] = w THEN g[i] ELSE 0)
                     /\ \A i \in 0 .. n : U(w)[i] <= Weighed(xs, w, u) /\ G(w)[i] <= Weighed(xs, w, g)
                     /\ \A i \in 0 .. m : U(w)[i] = 0
                     /\ \A i \in m .. n : G(w)[i] = Weighed(xs, w, g)
    OBVIOUS
  <2> DEFINE uu == Weights(xs, w, u)
             gg == Weights(xs, w, g)
  <2>1. uu \in Nums(n) /\ \A j \in 1 .. n : uu[j] = IF xs[j] = w THEN u[j] ELSE 0
    BY <1>1, <1>6, WeightsAre
  <2>2. gg \in Nums(n) /\ \A j \in 1 .. n : gg[j] = IF xs[j] = w THEN g[j] ELSE 0
    BY <1>1, <1>6, WeightsAre
  <2>3. /\ U(w)[0] = 0 /\ \A i \in 1 .. n : U(w)[i] = U(w)[i - 1] + uu[i]
        /\ Weighed(xs, w, u) = U(w)[n]
    BY <1>1, <2>1, SumsAre DEF Weighed
  <2>4. /\ G(w)[0] = 0 /\ \A i \in 1 .. n : G(w)[i] = G(w)[i - 1] + gg[i]
        /\ Weighed(xs, w, g) = G(w)[n]
    BY <1>1, <2>2, SumsAre DEF Weighed
  <2>5. \A i \in 0 .. n : U(w)[i] \in Nat /\ G(w)[i] \in Nat
    BY <1>1, <2>1, <2>2, SumsNat
  <2>6. \A j \in 0 .. n : \A i \in j .. n :
          /\ U(w)[j] <= U(w)[i] /\ G(w)[j] <= G(w)[i]
          /\ (\A h \in j + 1 .. i : uu[h] = 0) => U(w)[j] = U(w)[i]
          /\ (\A h \in j + 1 .. i : gg[h] = 0) => G(w)[j] = G(w)[i]
    <3> HIDE DEF uu, gg
    <3>1. /\ \A j \in 0 .. n : \A i \in j .. n :
               /\ Sums(uu)[j] <= Sums(uu)[i]
               /\ (\A h \in j + 1 .. i : uu[h] = 0) => Sums(uu)[j] = Sums(uu)[i]
          /\ \A j \in 0 .. n : \A i \in j .. n :
               /\ Sums(gg)[j] <= Sums(gg)[i]
               /\ (\A h \in j + 1 .. i : gg[h] = 0) => Sums(gg)[j] = Sums(gg)[i]
      BY <1>1, <2>1, <2>2, SumsGrow
    <3>2. U(w) = Sums(uu) /\ G(w) = Sums(gg)
      BY DEF uu, gg
    <3> QED BY <3>1, <3>2
  <2> HIDE DEF U, G
  <2>7. \A i \in 0 .. n : n \in i .. n
    BY <1>1
  <2>8. \A i \in 0 .. m : i \in 0 .. n /\ i \in 0 .. i /\ 0 \in 0 .. n /\ i \in 0 .. n
                          /\ \A h \in 0 + 1 .. i : h \in 1 .. m /\ h \in 1 .. n
    BY <1>1
  <2>9. \A i \in m .. n : i \in 0 .. n /\ \A h \in i + 1 .. n : h \in m + 1 .. n /\ h \in 1 .. n
    BY <1>1
  <2>10. \A i \in 0 .. n : U(w)[i] <= Weighed(xs, w, u) /\ G(w)[i] <= Weighed(xs, w, g)
    BY <2>3, <2>4, <2>6, <2>7
  <2>11. \A i \in 0 .. m : U(w)[i] = 0
    <3> SUFFICES ASSUME NEW i \in 0 .. m PROVE U(w)[i] = 0
      OBVIOUS
    <3>1. \A h \in 0 + 1 .. i : uu[h] = 0
      BY <1>1, <2>1, <2>8
    <3>2. 0 \in 0 .. n /\ i \in 0 .. n
      BY <2>8
    <3> HIDE DEF uu
    <3> QED BY <2>3, <2>6, <3>1, <3>2
  <2>12. \A i \in m .. n : G(w)[i] = Weighed(xs, w, g)
    <3> SUFFICES ASSUME NEW i \in m .. n PROVE G(w)[i] = Weighed(xs, w, g)
      OBVIOUS
    <3>1. \A h \in i + 1 .. n : gg[h] = 0
      BY <1>1, <2>2, <2>9
    <3>2. i \in 0 .. n /\ n \in i .. n
      BY <2>7, <2>9
    <3> HIDE DEF gg
    <3> QED BY <2>4, <2>6, <3>1, <3>2
  <2> QED BY <2>1, <2>2, <2>3, <2>4, <2>5, <2>10, <2>11, <2>12
<1> HIDE DEF U, G
<1>8. \A w \in Keys : Credit(store, w) \in Nat
  BY <1>5, MachineIs
<1>9. Good(0)
  BY <1>3, <1>5, <1>7, <1>8 DEF Kept
<1>10. ASSUME NEW i \in Nat, i + 1 <= n, Good(i) PROVE Good(i + 1)
  <2> DEFINE k == i + 1
             a == acc[k]
             b == A[i]
             w == xs[k]
  <2>1. k \in 1 .. n /\ k - 1 = i /\ i \in 0 .. n /\ k \in 0 .. n
    BY <1>1, <1>10
  <2>2. b \in Machine /\ b.ok /\ Kept(store, b.store) /\ A[k] = Access(a)[b] /\ a[2] \in Int
        /\ a[1] = w /\ u[k] = Uses(a) /\ g[k] = Gains(a)
        /\ \A h \in Keys : Credit(b.store, h) + U(h)[i] = Credit(store, h) + G(h)[i]
    BY <1>1, <1>3, <1>4, <1>10, <2>1
  <2>3. \A h \in Keys : /\ Credit(b.store, h) \in Nat /\ Credit(store, h) \in Nat
                        /\ U(h)[i] \in Nat /\ G(h)[i] \in Nat /\ U(h)[k] \in Nat /\ G(h)[k] \in Nat
                        /\ U(h)[k] = U(h)[i] + (IF w = h THEN u[k] ELSE 0)
                        /\ G(h)[k] = G(h)[i] + (IF w = h THEN g[k] ELSE 0)
                        /\ U(h)[k] <= Weighed(xs, h, u) /\ G(h)[k] <= Weighed(xs, h, g)
                        /\ Weighed(xs, h, u) \in Nat /\ Weighed(xs, h, g) \in Nat
    <3> SUFFICES ASSUME NEW h \in Keys
                 PROVE /\ Credit(b.store, h) \in Nat /\ Credit(store, h) \in Nat
                       /\ U(h)[i] \in Nat /\ G(h)[i] \in Nat /\ U(h)[k] \in Nat /\ G(h)[k] \in Nat
                       /\ U(h)[k] = U(h)[i] + (IF w = h THEN u[k] ELSE 0)
                       /\ G(h)[k] = G(h)[i] + (IF w = h THEN g[k] ELSE 0)
                       /\ U(h)[k] <= Weighed(xs, h, u) /\ G(h)[k] <= Weighed(xs, h, g)
                       /\ Weighed(xs, h, u) \in Nat /\ Weighed(xs, h, g) \in Nat
      OBVIOUS
    <3>1. Credit(b.store, h) \in Nat /\ Credit(store, h) \in Nat
      BY <1>8, <2>2, MachineIs
    <3>2. Weighed(xs, h, u) \in Nat /\ Weighed(xs, h, g) \in Nat
      BY <1>1, <1>6, WeighedNat
    <3> HIDE DEF b, a
    <3> QED BY <1>7, <2>1, <3>1, <3>2
  <2>4. (u[k] = 0 /\ g[k] = 0) \/ (a[2] # 0 /\ (u[k] = 0 \/ g[k] = 0))
    BY <2>2 DEF Uses, Gains
  <2>5. Uses(a) \in Nat /\ Gains(a) \in Nat /\ (a[2] # 0 => Uses(a) > 0 \/ Gains(a) > 0)
        /\ (Uses(a) > 0 => Uses(a) = 1)
    BY <2>2 DEF Uses, Gains
  <2> HIDE DEF k, a, b, w
  <2>6. \A h \in Keys : Weighed(xs, h, u) <= Credit(store, h) + Weighed(xs, h, g)
                        /\ Credit(store, h) + Weighed(xs, h, g) <= MaxCredits
    BY DEF Covers
  <2>7. MaxCredits \in Nat
    BY StorageAssumption
  <2>8. w \in Keys => Credit(b.store, w) + Gains(a) <= MaxCredits
    <3> SUFFICES ASSUME w \in Keys PROVE Credit(b.store, w) + Gains(a) <= MaxCredits
      OBVIOUS
    <3>1. Credit(b.store, w) + U(w)[i] = Credit(store, w) + G(w)[i]
          /\ G(w)[k] = G(w)[i] + g[k] /\ G(w)[k] <= Weighed(xs, w, g)
          /\ Credit(store, w) + Weighed(xs, w, g) <= MaxCredits
      BY <2>2, <2>3, <2>6
    <3>2. /\ Credit(b.store, w) \in Nat /\ Credit(store, w) \in Nat
          /\ U(w)[i] \in Nat /\ G(w)[i] \in Nat /\ g[k] = Gains(a) /\ Gains(a) \in Nat
          /\ Weighed(xs, w, g) \in Nat
      BY <2>2, <2>3, <2>5
    <3> QED BY ONLY <2>7, <3>1, <3>2
  <2>9. a[2] # 0 => Ready(b.store, w)
    <3> SUFFICES ASSUME a[2] # 0 PROVE Ready(b.store, w)
      OBVIOUS
    <3>1. PICK p \in DOMAIN ws : w = ws[p]
      BY <1>1, <2>1, <2>2, <2>5 DEF w
    <3>2. w \in Constants \/ (w \in Keys /\ Credit(store, w) > 0 /\ Value(store, w) # NoData)
      BY <3>1 DEF Ready
    <3>3. CASE w \in Constants
      BY <3>3 DEF Ready
    <3>4. CASE w \in Keys /\ Credit(store, w) > 0 /\ Value(store, w) # NoData
      <4>1. Credit(b.store, w) > 0
        <5>1. CASE Uses(a) > 0
          <6>1. ~(k <= m)
            BY <1>1, <2>1, <2>2, <5>1
          <6>2. i \in m .. n
            BY <1>1, <2>1, <6>1
          <6>3. G(w)[i] = Weighed(xs, w, g) /\ U(w)[k] = U(w)[i] + 1
            BY <1>7, <2>2, <2>3, <2>5, <3>4, <5>1, <6>2
          <6>4. Credit(b.store, w) + U(w)[i] = Credit(store, w) + G(w)[i]
                /\ U(w)[k] <= Weighed(xs, w, u)
                /\ Weighed(xs, w, u) <= Credit(store, w) + Weighed(xs, w, g)
            BY <2>2, <2>3, <2>6, <3>4
          <6> QED BY ONLY <2>3, <3>4, <6>3, <6>4
        <5>2. CASE ~(Uses(a) > 0)
          <6>1. g[k] # 0
            BY <2>2, <2>5, <5>2
          <6>2. i \in 0 .. m
            BY <1>1, <2>1, <6>1
          <6>3. U(w)[i] = 0
            BY <1>7, <6>2
          <6>4. Credit(b.store, w) + U(w)[i] = Credit(store, w) + G(w)[i]
            BY <2>2, <3>4
          <6> QED BY ONLY <2>3, <3>4, <6>3, <6>4
        <5> QED BY <5>1, <5>2
      <4>2. Value(b.store, w) = Value(store, w)
        BY <2>2, <3>4, <4>1 DEF Kept
      <4> QED BY <3>4, <4>1, <4>2 DEF Ready
    <3> QED BY <3>2, <3>3, <3>4
  <2>10. Access(a)[b].ok /\ Kept(b.store, Access(a)[b].store)
    BY <2>2, <2>8, <2>9, AccessGoes
  <2>11. /\ A[k] \in Machine /\ A[k].ok /\ Kept(b.store, A[k].store)
         /\ \A h \in Keys : Credit(A[k].store, h) + (IF h = w THEN u[k] ELSE 0)
                              = Credit(b.store, h) + (IF h = w THEN g[k] ELSE 0)
    BY <2>2, <2>10, AccessIs DEF Accessed
  <2>12. \A h \in Keys : Credit(A[k].store, h) + U(h)[k] = Credit(store, h) + G(h)[k]
    <3> SUFFICES ASSUME NEW h \in Keys PROVE Credit(A[k].store, h) + U(h)[k] = Credit(store, h) + G(h)[k]
      OBVIOUS
    <3>1. Credit(A[k].store, h) \in Nat
      BY <2>11, MachineIs
    <3>2. Credit(b.store, h) + U(h)[i] = Credit(store, h) + G(h)[i]
      BY <2>2
    <3> QED BY ONLY <2>2, <2>3, <2>5, <2>11, <3>1, <3>2
  <2>13. Kept(store, A[k].store)
    <3> SUFFICES ASSUME NEW h \in Keys, Credit(A[k].store, h) > 0
                 PROVE  Value(A[k].store, h) = Value(store, h)
      BY DEF Kept
    <3>1. Value(A[k].store, h) = Value(b.store, h)
      BY <2>11 DEF Kept
    <3>2. CASE Credit(b.store, h) > 0
      BY <2>2, <3>1, <3>2 DEF Kept
    <3>3. CASE Credit(b.store, h) = 0
      <4>1. Credit(A[k].store, h) \in Nat
        BY <2>11, MachineIs
      <4>2. h = w /\ g[k] > 0
        <5>1. /\ u[k] \in Nat /\ g[k] \in Nat /\ Credit(A[k].store, h) > 0
              /\ Credit(A[k].store, h) + (IF h = w THEN u[k] ELSE 0)
                   = Credit(b.store, h) + (IF h = w THEN g[k] ELSE 0)
          BY <2>2, <2>5, <2>11
        <5> QED BY ONLY <3>3, <4>1, <5>1
      <4>3. a[2] # 0
        BY <2>2, <4>2 DEF Gains
      <4>4. Ready(b.store, w) /\ w \notin Constants
        BY <2>9, <4>2, <4>3, KeysAre
      <4> QED BY <3>3, <4>2, <4>4 DEF Ready
    <3> QED BY <2>3, <3>2, <3>3
  <2> QED BY <2>11, <2>12, <2>13 DEF k
<1> HIDE DEF Good
<1>11. 0 \in S /\ \A i \in Nat : i \in S => i + 1 \in S
  <2>1. \A i \in Nat : i + 1 \in Nat /\ (i + 1 <= n => i <= n)
    BY <1>1
  <2> QED BY <1>9, <1>10, <2>1
<1> HIDE DEF S
<1>12. Nat \subseteq S
  BY <1>11, SetInduction
<1>13. Good(n)
  <2>1. n \in S /\ n <= n
    BY <1>1, <1>12
  <2> QED BY <2>1 DEF S
<1> QED BY <1>2, <1>13 DEF Good

(* The accesses of a call: the grants come first; each wire is used once   *)
(* for every argument it is, and gains the reads the child promises.       *)
LEMMA CallCourse ==
  ASSUME NEW crt \in Circuits, NEW c \in 1 .. Len(crt),
         NEW oc, Counts(oc, Len(crt[c].outs)),
         NEW ws \in Seq(Wire), Len(ws) = crt[c].nin,
         NEW acc, acc = GrantThenUnpin(ws, InputGrants(Template(crt, c), oc))
  PROVE  \E n, m, xs, uses, gains :
           /\ GrantsFirst(acc, n, m, xs, uses, gains, ws)
           /\ \A w \in Keys :
                /\ Weighed(xs, w, uses) = Occurrences(ws, w) /\ Occurrences(ws, w) \in Nat
                /\ \A t : PromisedReads(crt, c, oc, t) =>
                     Weighed(xs, w, gains) = Weighed(ws, w, t) /\ Weighed(ws, w, t) \in Nat
<1> DEFINE nin == crt[c].nin
           grants == InputGrants(Template(crt, c), oc)
           m == nin + Len(crt[c].outs)
           po == PositionsOf(grants)
           no == NumbersOf(grants)
           ns == NamesOf(grants)
           gs == GrantsTo(ws, grants)
           us == Unpinned(ws)
           n == m + nin
           xs == [j \in 1 .. n |-> acc[j][1]]
           uses == [j \in 1 .. n |-> Uses(acc[j])]
           gains == [j \in 1 .. n |-> Gains(acc[j])]
           rs == Reals(ws, ns)
           vs == [j \in 1 .. nin |-> us[j][1]]
           vu == [j \in 1 .. nin |-> Uses(us[j])]
           vg == [j \in 1 .. nin |-> Gains(us[j])]
<1>1. /\ m \in Nat /\ DOMAIN po = 1 .. m /\ Counts(no, m)
      /\ \A j \in 1 .. m : no[j] # 0 => po[j] \in 1 .. nin
      /\ \A p : Granted(grants, p) = Weighed(po, p, no)
      /\ \A p \in 1 .. nin : ReadIn(crt, c, oc, p + 1) <= MaxCredits => Granted(grants, p) = ReadIn(crt, c, oc, p + 1)
  BY GrantedIs
<1>2. nin \in Nat /\ n \in Nat /\ DOMAIN ws = 1 .. nin /\ \A p \in 1 .. nin : ws[p] \in Wire
  <2>1. nin \in Nat
    BY ComponentIs
  <2> HIDE DEF nin, m
  <2>2. nin = Len(ws)
    BY DEF nin
  <2> QED BY <1>1, <2>1, <2>2
<1> HIDE DEF grants, nin, m
<1>3. /\ DOMAIN grants = 1 .. m
      /\ \A j \in 1 .. m : po[j] = grants[j][1] /\ no[j] = grants[j][2] /\ no[j] \in Nat
  BY <1>1 DEF PositionsOf, NumbersOf, Counts
<1>4. /\ DOMAIN ns = 1 .. m
      /\ \A j \in 1 .. m : ns[j] = IF no[j] = 0 THEN 0 ELSE po[j] + 1
  BY <1>3 DEF NamesOf, FALSE_WIRE
<1> HIDE DEF po, no, ns
<1>5. Within(ns, m, nin)
  <2>1. \A j \in 1 .. m : ns[j] \in 0 .. nin + 1
    BY SMTT(30), <1>1, <1>2, <1>4
  <2> QED BY <1>4, <2>1 DEF Within
<1>6. /\ DOMAIN rs = 1 .. m
      /\ \A j \in 1 .. m : rs[j] = IF no[j] = 0 THEN FALSE_WIRE ELSE ws[po[j]]
  <2>1. \A j \in 1 .. m : no[j] # 0 => po[j] + 1 \notin Constants /\ (po[j] + 1) - FirstMock + 1 = po[j]
    BY <1>1, <1>2 DEF Constants, FALSE_WIRE, TRUE_WIRE, FirstMock
  <2>2. 0 \in Constants /\ FALSE_WIRE = 0
    BY DEF Constants, FALSE_WIRE
  <2> QED BY <1>4, <2>1, <2>2 DEF Reals, Real
<1>7. gs = [j \in 1 .. m |-> <<rs[j], no[j]>>]
  <2>1. \A j \in 1 .. m : (IF grants[j][2] = 0 THEN NoAccess ELSE <<ws[grants[j][1]], grants[j][2]>>)
                            = <<rs[j], no[j]>>
    BY <1>3, <1>6 DEF NoAccess
  <2> QED BY <1>3, <2>1 DEF GrantsTo
<1>8. \A j \in 1 .. m : rs[j] \in Wire
  <2>1. FALSE_WIRE \in Wire
    BY DEF Wire, Constants
  <2> QED BY <1>1, <1>2, <1>6, <2>1
<1>9. gs \in Seq(Wire \X Int) /\ Len(gs) = m /\ \A j \in 1 .. m : gs[j][1] = rs[j] /\ gs[j][2] = no[j]
  <2>1. \A j \in 1 .. m : no[j] \in Int
    BY <1>3
  <2> HIDE DEF rs, gs
  <2>2. gs \in [1 .. m -> Wire \X Int]
    BY <1>7, <1>8, <2>1
  <2>3. gs \in Seq(Wire \X Int)
    BY <1>1, <2>2, FunctionSeq
  <2> QED BY <1>1, <1>7, <2>3
<1>10. /\ us \in Seq(Wire \X Int) /\ Len(us) = nin
       /\ \A j \in 1 .. nin : us[j] = IF ws[j] = UNREACHABLE THEN NoAccess ELSE <<ws[j], -1>>
  <2>1. us = [j \in 1 .. nin |-> IF ws[j] = UNREACHABLE THEN NoAccess ELSE <<ws[j], -1>>]
    BY <1>2 DEF Unpinned
  <2>2. NoAccess \in Wire \X Int
    BY DEF NoAccess, Wire, Constants, FALSE_WIRE
  <2>3. \A j \in 1 .. nin : <<ws[j], -1>> \in Wire \X Int
    BY <1>2
  <2> HIDE DEF us
  <2>4. us \in [1 .. nin -> Wire \X Int]
    BY <2>1, <2>2, <2>3
  <2>5. us \in Seq(Wire \X Int)
    BY <1>2, <2>4, FunctionSeq
  <2> QED BY <1>2, <2>1, <2>5
<1> HIDE DEF gs, us, rs
<1>11. /\ acc \in Seq(Wire \X Int) /\ Len(acc) = n
       /\ \A j \in 1 .. m : acc[j] = gs[j]
       /\ \A j \in 1 .. nin : acc[m + j] = us[j]
  <2> DEFINE T == Wire \X Int
  <2>1. gs \in Seq(T) /\ us \in Seq(T) /\ m = Len(gs) /\ nin = Len(us)
    BY <1>9, <1>10
  <2>2. acc = gs \o us
    BY DEF GrantThenUnpin, gs, us, grants
  <2> HIDE DEF T
  <2>3. /\ Len(gs \o us) = m + nin /\ gs \o us \in Seq(T)
        /\ \A j \in 1 .. m : (gs \o us)[j] = gs[j]
        /\ \A j \in 1 .. nin : (gs \o us)[m + j] = us[j]
    BY ONLY <2>1, ConcatIs
  <2> QED BY <2>2, <2>3 DEF T
<1>12. AccessesAre(acc, n, xs, uses, gains)
  BY <1>2, <1>11 DEF AccessesAre
<1>13. Counts(uses, n) /\ Counts(gains, n)
  <2>1. \A j \in 1 .. n : acc[j][2] \in Int
    <3>1. \A j \in 1 .. n : acc[j] \in Wire \X Int
      BY <1>11
    <3> QED BY <3>1
  <2> QED BY <2>1 DEF Counts, Uses, Gains
<1>14. ASSUME NEW w \in Keys
       PROVE  /\ Weighed(xs, w, uses) = Occurrences(ws, w) /\ Occurrences(ws, w) \in Nat
              /\ \A t : PromisedReads(crt, c, oc, t) =>
                   Weighed(xs, w, gains) = Weighed(ws, w, t) /\ Weighed(ws, w, t) \in Nat
  <2>1. \A j \in 1 .. m : j \in 1 .. n
    BY <1>1, <1>2
  <2>2. \A j \in 1 .. nin : m + j \in 1 .. n
    BY <1>1, <1>2
  <2>3. \A j \in 1 .. m : xs[j] = rs[j] /\ uses[j] = 0 /\ gains[j] = no[j]
    <3>1. \A j \in 1 .. m : Uses(gs[j]) = 0 /\ Gains(gs[j]) = no[j]
      BY <1>3, <1>9 DEF Uses, Gains
    <3> QED BY <1>9, <1>11, <2>1, <3>1
  <2>4. \A j \in 1 .. nin : vs[j] = xs[m + j] /\ vu[j] = uses[m + j] /\ vg[j] = gains[m + j]
    BY <1>11, <2>2
  <2>5. \A j \in 1 .. nin : /\ vg[j] = 0 /\ vu[j] \in Nat
                            /\ vs[j] = w <=> ws[j] = w
                            /\ ws[j] = w => vu[j] = 1
    <3>1. w # UNREACHABLE /\ w # FALSE_WIRE
      BY KeysAre DEF Constants
    <3>2. \A j \in 1 .. nin : ws[j] = UNREACHABLE => us[j][1] = FALSE_WIRE /\ us[j][2] = 0
      BY <1>10 DEF NoAccess
    <3>3. \A j \in 1 .. nin : ws[j] # UNREACHABLE => us[j][1] = ws[j] /\ us[j][2] = -1
      BY <1>10
    <3> QED BY <3>1, <3>2, <3>3 DEF Uses, Gains
  <2>6. DOMAIN xs = 1 .. m + nin /\ DOMAIN vs = 1 .. nin
    OBVIOUS
  <2> HIDE DEF xs, uses, gains, vs, vu, vg
  <2>7. /\ Counts(uses, m + nin) /\ Counts(gains, m + nin)
        /\ Joined(xs, rs, m, vs, nin) /\ Beyond(vu, uses, m, nin) /\ Beyond(vg, gains, m, nin)
    BY <1>1, <1>2, <1>6, <1>13, <2>3, <2>4, <2>6 DEF Joined, Beyond
  <2>8. Weighed(xs, w, gains) = Weighed(rs, w, gains) + Weighed(vs, w, vg)
    BY <2>7, WeighedJoin
  <2>9. Weighed(xs, w, uses) = Weighed(rs, w, uses) + Weighed(vs, w, vu)
    BY <2>7, WeighedJoin
  <2>10. Weighed(rs, w, uses) = 0
    BY <1>1, <1>6, <2>3, WeighedNone
  <2>11. Weighed(vs, w, vg) = 0
    BY <1>2, <2>5, <2>6, WeighedNone
  <2>12. Weighed(rs, w, gains) = Weighed(rs, w, no)
    <3>1. \A j \in DOMAIN rs : rs[j] = w => gains[j] = no[j]
      BY <1>6, <2>3
    <3> QED BY <3>1, WeighedSame
  <2>13. Weighed(vs, w, vu) = Occurrences(ws, w)
    <3>1. [j \in DOMAIN ws |-> IF ws[j] = w THEN 1 ELSE 0] = Weights(vs, w, vu)
      BY <1>2, <2>5, <2>6 DEF Weights
    <3> QED BY <3>1 DEF Occurrences, Weighed
  <2>14. ASSUME NEW t, PromisedReads(crt, c, oc, t)
         PROVE  Weighed(ws, w, t) = Weighed(rs, w, no) /\ Counts(t, nin)
    <3>1. ComesTo(t, ns, no, nin)
      <4> SUFFICES ASSUME NEW p \in 1 .. nin PROVE t[p] = Weighed(ns, p + 1, no)
        BY DEF ComesTo
      <4>1. t[p] = Weighed(po, p, no)
        BY <1>1, <2>14 DEF nin, PromisedReads
      <4>2. \A j \in 1 .. m : no[j] # 0 => (ns[j] = p + 1 <=> po[j] = p)
        BY <1>1, <1>2, <1>4
      <4>3. Weights(ns, p + 1, no) = Weights(po, p, no)
        <5>1. \A j \in 1 .. m : (IF ns[j] = p + 1 THEN no[j] ELSE 0) = (IF po[j] = p THEN no[j] ELSE 0)
          BY <4>2
        <5> QED BY <1>1, <1>4, <5>1 DEF Weights
      <4> QED BY <4>1, <4>3 DEF Weighed
    <3> QED BY <1>1, <1>2, <1>5, <3>1, NamesWeigh DEF rs
  <2>15. Occurrences(ws, w) \in Nat
    BY <1>2, OccurrencesIs
  <2>16. \A t : PromisedReads(crt, c, oc, t) => Weighed(ws, w, t) \in Nat
    BY <1>2, <2>14, WeighedNat
  <2>17. Weighed(xs, w, uses) = Occurrences(ws, w)
    BY <2>9, <2>10, <2>13, <2>15
  <2>18. \A t : PromisedReads(crt, c, oc, t) => Weighed(xs, w, gains) = Weighed(ws, w, t)
    BY <2>8, <2>11, <2>12, <2>14, <2>16
  <2> QED BY <2>15, <2>16, <2>17, <2>18
<1>15. GrantsFirst(acc, n, m, xs, uses, gains, ws)
  <2>1. m \in 0 .. n /\ \A j \in 1 .. n : j \in 1 .. m \/ (j \in m + 1 .. n /\ j - m \in 1 .. nin /\ m + (j - m) = j)
    BY <1>1, <1>2
  <2>2. \A j \in 1 .. m : /\ xs[j] = rs[j] /\ uses[j] = 0 /\ gains[j] = no[j]
    <3>1. \A j \in 1 .. m : Uses(gs[j]) = 0 /\ Gains(gs[j]) = no[j] /\ j \in 1 .. n
      BY <1>1, <1>2, <1>3, <1>9 DEF Uses, Gains
    <3> QED BY <1>9, <1>11, <3>1
  <2>3. \A i \in 1 .. nin : /\ m + i \in 1 .. n /\ gains[m + i] = 0
                            /\ uses[m + i] # 0 => xs[m + i] = ws[i]
    <3>1. \A i \in 1 .. nin : us[i][2] \in {0, -1} /\ (us[i][2] # 0 => us[i][1] = ws[i])
      BY <1>10 DEF NoAccess
    <3>2. \A i \in 1 .. nin : m + i \in 1 .. n
      BY <1>1, <1>2
    <3>3. \A i \in 1 .. nin : acc[m + i] = us[i]
      BY <1>11
    <3>4. \A i \in 1 .. nin : gains[m + i] = 0 /\ (uses[m + i] # 0 => us[i][2] # 0)
      BY <3>1, <3>2, <3>3 DEF Uses, Gains
    <3>5. \A i \in 1 .. nin : xs[m + i] = us[i][1]
      BY <3>2, <3>3
    <3> HIDE DEF xs, uses, gains
    <3> QED BY <3>1, <3>2, <3>4, <3>5
  <2> HIDE DEF xs, uses, gains
  <2>4. ASSUME NEW j \in 1 .. n, uses[j] # 0 \/ gains[j] # 0
        PROVE  \E p \in DOMAIN ws : xs[j] = ws[p]
    <3>1. CASE j \in 1 .. m
      <4>1. no[j] # 0 /\ xs[j] = rs[j]
        BY <2>2, <2>4, <3>1
      <4> QED BY <1>1, <1>2, <1>6, <3>1, <4>1
    <3>2. CASE j \in m + 1 .. n
      <4>1. j - m \in 1 .. nin /\ m + (j - m) = j
        BY <1>1, <1>2, <3>2
      <4>2. uses[j] # 0 => xs[j] = ws[j - m]
        BY <2>3, <4>1
      <4>3. gains[j] = 0
        BY <2>3, <4>1
      <4> QED BY <1>2, <2>4, <4>1, <4>2, <4>3
    <3> QED BY <2>1, <3>1, <3>2
  <2>5. \A j \in m + 1 .. n : gains[j] = 0
    <3>1. \A j \in m + 1 .. n : j - m \in 1 .. nin /\ m + (j - m) = j
      BY <1>1, <1>2
    <3> QED BY <2>3, <3>1
  <2> QED BY <1>12, <2>1, <2>2, <2>4, <2>5 DEF GrantsFirst
<1> HIDE DEF xs, uses, gains
<1>16. \A w \in Keys :
         /\ Weighed(xs, w, uses) = Occurrences(ws, w) /\ Occurrences(ws, w) \in Nat
         /\ \A t : PromisedReads(crt, c, oc, t) =>
              Weighed(xs, w, gains) = Weighed(ws, w, t) /\ Weighed(ws, w, t) \in Nat
  BY <1>14
<1> QED BY <1>15, <1>16

(* The accesses of a call: the wires lose the read by the call and gain    *)
(* those the child promises.                                               *)
LEMMA CallAccesses ==
  ASSUME store \in [Slots -> Entry], NEW crt \in Circuits, NEW c \in 1 .. Len(crt),
         NEW oc, Counts(oc, Len(crt[c].outs)),
         NEW ws \in Seq(Wire), Len(ws) = crt[c].nin,
         NEW m2, m2 = Perform[GrantThenUnpin(ws, InputGrants(Template(crt, c), oc))]
  PROVE  /\ m2 \in Machine
         /\ \A t : m2.ok /\ PromisedReads(crt, c, oc, t) =>
              \A w \in Keys :
                /\ Credit(m2.store, w) + Occurrences(ws, w) = Credit(store, w) + Weighed(ws, w, t)
                /\ Occurrences(ws, w) \in Nat /\ Weighed(ws, w, t) \in Nat
<1> DEFINE acc == GrantThenUnpin(ws, InputGrants(Template(crt, c), oc))
<1>1. PICK n, m, xs, u, g :
        /\ GrantsFirst(acc, n, m, xs, u, g, ws)
        /\ \A w \in Keys :
             /\ Weighed(xs, w, u) = Occurrences(ws, w) /\ Occurrences(ws, w) \in Nat
             /\ \A t : PromisedReads(crt, c, oc, t) =>
                  Weighed(xs, w, g) = Weighed(ws, w, t) /\ Weighed(ws, w, t) \in Nat
  BY CallCourse
<1> HIDE DEF acc
<1>2. /\ Perform[acc] \in Machine
      /\ Perform[acc].ok =>
           \A w \in Keys : Credit(Perform[acc].store, w) + Weighed(xs, w, u)
                             = Credit(store, w) + Weighed(xs, w, g)
  <2>1. AccessesAre(acc, n, xs, u, g)
    BY <1>1 DEF GrantsFirst
  <2> QED BY <2>1, PerformIs
<1>3. m2 = Perform[acc]
  BY DEF acc
<1> QED BY <1>1, <1>2, <1>3

(* A template of the pool is the one of every component with its key.      *)
PoolEntry(crt) ==
  {e \in [key : {crt[c].key : c \in DOMAIN crt} \cup {"root"},
          value : {Template(crt, c) : c \in DOMAIN crt}] :
     \A c \in DOMAIN crt : e.key = crt[c].key => e.value = Template(crt, c)}
Pool(crt) == {p \in Seq(PoolEntry(crt)) : Len(p) <= Capacity}

(* `with_capacity` asserts it.                                             *)
LEMMA CapacityIs == Capacity \in Nat \ {0}
BY CircuitsAssumption

(* Components with one key have one template.                              *)
LEMMA KeysAreDistinct ==
  ASSUME NEW crt \in Circuits
  PROVE  \A c \in DOMAIN crt :
           /\ crt[c].key # "root"
           /\ \A d \in DOMAIN crt : crt[c].key = crt[d].key => Template(crt, c) = Template(crt, d)
BY CircuitsAssumption DEF KeysDistinct

(* The pool after an insertion at its front.                               *)
LEMMA AddFirstIs ==
  ASSUME NEW T, NEW p \in Seq(T), Len(p) <= Capacity, NEW k, NEW v, [key |-> k, value |-> v] \in T
  PROVE  /\ AddFirst(p, k, v) \in Seq(T) /\ Len(AddFirst(p, k, v)) <= Capacity
         /\ Len(AddFirst(p, k, v)) > 0 /\ AddFirst(p, k, v)[1].key = k
<1>1. MakeRoom(p) \in Seq(T) /\ Len(MakeRoom(p)) + 1 <= Capacity /\ Len(MakeRoom(p)) \in Nat
  <2>1. CASE Len(p) >= Capacity
    <3>1. MakeRoom(p) = SubSeq(p, 1, Len(p) - 1) /\ Len(p) \in Nat /\ Len(p) = Capacity /\ Len(p) > 0
      BY <2>1, CapacityIs DEF MakeRoom, Front
    <3>2. SubSeq(p, 1, Len(p) - 1) \in Seq(T) /\ Len(SubSeq(p, 1, Len(p) - 1)) = Len(p) - 1
      BY <3>1
    <3> QED BY <3>1, <3>2
  <2>2. CASE ~(Len(p) >= Capacity)
    BY <2>2, CapacityIs DEF MakeRoom
  <2> QED BY <2>1, <2>2
<1> DEFINE e == [key |-> k, value |-> v]
<1>2. e.key = k
  OBVIOUS
<1> HIDE DEF e
<1>3. AddFirst(p, k, v) = <<e>> \o MakeRoom(p)
  BY DEF AddFirst, e
<1>4. <<e>> \in Seq(T) /\ Len(<<e>>) = 1 /\ <<e>>[1] = e
  BY DEF e
<1>5. /\ <<e>> \o MakeRoom(p) \in Seq(T) /\ Len(<<e>> \o MakeRoom(p)) = 1 + Len(MakeRoom(p))
      /\ (<<e>> \o MakeRoom(p))[1] = e
  BY <1>1, <1>4
<1> QED BY <1>1, <1>2, <1>3, <1>5

(* The pool after a hit.                                                   *)
LEMMA PromoteIs ==
  ASSUME NEW T, NEW p \in Seq(T), NEW k, Has(p, k)
  PROVE  /\ Promote(p, k) \in Seq(T) /\ Len(Promote(p, k)) = Len(p)
         /\ Promote(p, k)[1].key = k /\ Len(p) > 0
<1> DEFINE i == PositionOf(p, k)
           e == p[i]
           a == SubSeq(p, 1, i - 1)
           b == SubSeq(p, i + 1, Len(p))
<1>1. i \in 1 .. Len(p) /\ e.key = k /\ Len(p) \in Nat
  BY DEF Has, PositionOf
<1>2. Promote(p, k) = <<e>> \o (a \o b)
  BY DEF Promote, EntryOf, RemoveAt
<1> HIDE DEF i
<1>3. e \in T
  BY <1>1
<1>4. a \in Seq(T) /\ Len(a) = i - 1 /\ b \in Seq(T) /\ Len(b) = Len(p) - i
  BY <1>1
<1> HIDE DEF e, a, b
<1>5. a \o b \in Seq(T) /\ Len(a \o b) = Len(p) - 1
  BY <1>1, <1>4
<1>6. <<e>> \in Seq(T) /\ Len(<<e>>) = 1 /\ <<e>>[1] = e
  BY <1>3
<1> DEFINE c == a \o b
<1> HIDE DEF c
<1>7. /\ <<e>> \o c \in Seq(T) /\ Len(<<e>> \o c) = 1 + Len(c) /\ (<<e>> \o c)[1] = e
  BY <1>5, <1>6 DEF c
<1> QED BY <1>1, <1>2, <1>5, <1>7 DEF c

(* The front of the pool is found by its key.                              *)
LEMMA FirstHas ==
  ASSUME NEW T, NEW p \in Seq(T), NEW k, Len(p) > 0, p[1].key = k
  PROVE  EntryOf(p, k) \in T /\ EntryOf(p, k).key = k
<1>1. 1 \in DOMAIN p
  OBVIOUS
<1>2. PositionOf(p, k) \in DOMAIN p /\ p[PositionOf(p, k)].key = k
  BY <1>1 DEF PositionOf
<1> QED BY <1>2 DEF EntryOf

(* The pool always gives the component its own template.                   *)
LEMMA PoolGives ==
  ASSUME NEW crt \in Circuits, NEW p \in Pool(crt), NEW c \in 1 .. Len(crt),
         NEW q, q = GetOrInsert(p, crt[c].key, Template(crt, c))
  PROVE  q \in Pool(crt) /\ EntryOf(q, crt[c].key).value = Template(crt, c)
<1> DEFINE T == PoolEntry(crt)
           k == crt[c].key
           v == Template(crt, c)
<1>0. c \in DOMAIN crt
  BY ComponentIs
<1>1. p \in Seq(T) /\ Len(p) <= Capacity
  BY DEF Pool
<1>2. [key |-> k, value |-> v] \in T
  BY <1>0, KeysAreDistinct DEF PoolEntry
<1>3. \A e \in T : e.key = k => e.value = v
  BY <1>0 DEF PoolEntry
<1> HIDE DEF T, k, v
<1>4. q \in Seq(T) /\ Len(q) <= Capacity /\ Len(q) > 0 /\ q[1].key = k
  <2>1. CASE Has(p, k)
    <3>1. q = Promote(p, k)
      BY <2>1 DEF GetOrInsert, k, v
    <3> QED BY <1>1, <2>1, <3>1, PromoteIs
  <2>2. CASE ~Has(p, k)
    <3>1. q = AddFirst(p, k, v)
      BY <2>2 DEF GetOrInsert, k, v
    <3> QED BY <1>1, <1>2, <3>1, AddFirstIs
  <2> QED BY <2>1, <2>2
<1>5. EntryOf(q, k) \in T /\ EntryOf(q, k).key = k
  BY <1>4, FirstHas
<1> QED BY <1>3, <1>4, <1>5 DEF T, k, v, Pool

(* The pool the run starts with, and after the root's template is in.      *)
LEMMA PoolStarts ==
  ASSUME NEW crt \in Circuits, NEW c \in 1 .. Len(crt)
  PROVE  <<>> \in Pool(crt) /\ AddFirst(<<>>, "root", Template(crt, c)) \in Pool(crt)
<1> DEFINE T == PoolEntry(crt)
           v == Template(crt, c)
<1>0. c \in DOMAIN crt
  BY ComponentIs
<1>1. [key |-> "root", value |-> v] \in T
  BY <1>0, KeysAreDistinct DEF PoolEntry
<1>2. <<>> \in Seq(T) /\ Len(<<>>) <= Capacity
  BY CapacityIs
<1> HIDE DEF T, v
<1>3. AddFirst(<<>>, "root", v) \in Seq(T) /\ Len(AddFirst(<<>>, "root", v)) <= Capacity
  BY <1>1, <1>2, AddFirstIs
<1> QED BY <1>2, <1>3 DEF T, v, Pool

(* A gate gives a boolean.                                                 *)
LEMMA EvalGateIs == \A g \in {"And", "Nimp", "Or", "Xor", "Not"} : \A a, b : EvalGate(g, a, b) \in Data
BY CircuitsAssumption DEF EvalGate

(* A sequence with one more element.                                       *)
LEMMA AppendIs ==
  ASSUME NEW T, NEW s \in Seq(T), NEW x \in T, NEW n, n = Len(s)
  PROVE  /\ Append(s, x) \in Seq(T) /\ Len(Append(s, x)) = n + 1 /\ n \in Nat
         /\ Append(s, x)[n + 1] = x /\ \A k \in 1 .. n : Append(s, x)[k] = s[k]
OBVIOUS

(* A concatenation, position by position.                                  *)
LEMMA JoinIs ==
  ASSUME NEW T, NEW a \in Seq(T), NEW x \in Seq(T)
  PROVE  /\ Len(a \o x) = Len(a) + Len(x)
         /\ \A j \in 1 .. Len(a) : (a \o x)[j] = a[j]
         /\ \A j \in 1 .. Len(x) : (a \o x)[Len(a) + j] = x[j]
OBVIOUS

(* The recursion of Course, for a body of n instructions.                  *)
IsRun(body, does, in, n, A) ==
  A = [i \in 0 .. n |-> IF i = 0 THEN in ELSE Execute(body[i], A[i - 1], does)]

(* It has a solution, of any length.                                       *)
LEMMA RunExists == ASSUME NEW body, NEW does, NEW in PROVE \A n \in Nat : \E A : IsRun(body, does, in, n, A)
<1> DEFINE S == {n \in Nat : \E A : IsRun(body, does, in, n, A)}
<1>1. 0 \in S
  <2> DEFINE A == [i \in 0 .. 0 |-> in]
  <2>1. IsRun(body, does, in, 0, A)
    BY DEF IsRun
  <2> QED BY <2>1
<1>2. ASSUME NEW n \in Nat, n \in S PROVE n + 1 \in S
  <2>1. PICK A : IsRun(body, does, in, n, A)
    BY <1>2
  <2> DEFINE V == [i \in 0 .. n + 1 |-> IF i = 0 THEN in ELSE Execute(body[i], A[i - 1], does)]
  <2>2. \A i \in 0 .. n : V[i] = A[i]
    BY <2>1 DEF IsRun
  <2>3. \A i \in 0 .. n + 1 : i # 0 => V[i - 1] = A[i - 1]
    <3>1. \A i \in 0 .. n + 1 : i # 0 => i - 1 \in 0 .. n
      OBVIOUS
    <3> HIDE DEF V
    <3> QED BY <2>2, <3>1
  <2>4. V = [i \in 0 .. n + 1 |-> IF i = 0 THEN in ELSE Execute(body[i], V[i - 1], does)]
    <3>1. \A i \in 0 .. n + 1 : V[i] = IF i = 0 THEN in ELSE Execute(body[i], V[i - 1], does)
      BY <2>3
    <3> HIDE DEF V
    <3>2. V = [i \in 0 .. n + 1 |-> V[i]]
      BY DEF V
    <3> QED BY <3>1, <3>2
  <2>5. IsRun(body, does, in, n + 1, V)
    BY <2>4 DEF IsRun
  <2> QED BY <2>5
<1> HIDE DEF S
<1>3. Nat \subseteq S
  BY <1>1, <1>2, SetInduction
<1> QED BY <1>3 DEF S

(* A component starts with its inputs and goes on by its instructions.     *)
LEMMA CourseIs ==
  ASSUME NEW comp, Len(comp.body) \in Nat, NEW does, NEW in
  PROVE  /\ Course(comp, does, in)[0] = in
         /\ \A i \in 1 .. Len(comp.body) :
              Course(comp, does, in)[i] = Execute(comp.body[i], Course(comp, does, in)[i - 1], does)
<1> DEFINE n == Len(comp.body)
           A == CHOOSE x : IsRun(comp.body, does, in, n, x)
           e(i) == IF i = 0 THEN in ELSE Execute(comp.body[i], A[i - 1], does)
<1>1. Course(comp, does, in) = A
  BY DEF Course, IsRun
<1>2. IsRun(comp.body, does, in, n, A)
  <2> HIDE DEF n
  <2> QED BY RunExists DEF n
<1> HIDE DEF A
<1>3. A = [i \in 0 .. n |-> e(i)]
  BY <1>2 DEF IsRun
<1> HIDE DEF e
<1>4. \A i \in 0 .. n : A[i] = e(i)
  BY <1>3
<1>5. 0 \in 0 .. n /\ \A i \in 1 .. n : i \in 0 .. n /\ i # 0
  OBVIOUS
<1> QED BY <1>1, <1>4, <1>5 DEF e

(* Only what the called components compute matters.                        *)
LEMMA ExecuteSame ==
  ASSUME NEW ins, NEW v, NEW d, NEW e, ins.op \in {"issue", "gate", "call"},
         ins.op = "call" => d[ins.comp] = e[ins.comp]
  PROVE  Execute(ins, v, d) = Execute(ins, v, e)
<1>1. CASE ins.op = "issue"
  BY <1>1 DEF Execute
<1>2. CASE ins.op = "gate"
  BY <1>2 DEF Execute
<1>3. CASE ins.op = "call"
  BY <1>3 DEF Execute
<1> QED BY <1>1, <1>2, <1>3

(* So a run depends on what they compute only.                             *)
SameCalls(body, n, d, e) ==
  /\ n = Len(body) /\ n \in Nat
  /\ \A i \in 1 .. n : /\ body[i].op \in {"issue", "gate", "call"}
                       /\ body[i].op = "call" => d[body[i].comp] = e[body[i].comp]

(* A run depends on what the components it calls compute.                  *)
LEMMA CourseSame ==
  ASSUME NEW comp, NEW n, NEW d, NEW e, SameCalls(comp.body, n, d, e), NEW in
  PROVE  Course(comp, d, in)[n] = Course(comp, e, in)[n]
<1> DEFINE A == Course(comp, d, in)
           B == Course(comp, e, in)
           S == {i \in Nat : i <= n => A[i] = B[i]}
<1>0. n = Len(comp.body) /\ n \in Nat
      /\ \A i \in 1 .. n : /\ comp.body[i].op \in {"issue", "gate", "call"}
                           /\ comp.body[i].op = "call" => d[comp.body[i].comp] = e[comp.body[i].comp]
  BY DEF SameCalls
<1>1. A[0] = in /\ \A i \in 1 .. n : A[i] = Execute(comp.body[i], A[i - 1], d)
  BY <1>0, CourseIs
<1>2. B[0] = in /\ \A i \in 1 .. n : B[i] = Execute(comp.body[i], B[i - 1], e)
  BY <1>0, CourseIs
<1> HIDE DEF A, B
<1>3. 0 \in S
  BY <1>1, <1>2
<1>4. ASSUME NEW i \in Nat, i \in S PROVE i + 1 \in S
  <2> SUFFICES ASSUME i + 1 <= n PROVE A[i + 1] = B[i + 1]
    OBVIOUS
  <2> DEFINE k == i + 1
  <2>1. k \in 1 .. n /\ k - 1 = i /\ A[i] = B[i]
    BY <1>0, <1>4
  <2> HIDE DEF k
  <2>2. A[k] = Execute(comp.body[k], A[i], d) /\ B[k] = Execute(comp.body[k], A[i], e)
    BY <1>1, <1>2, <2>1
  <2>3. comp.body[k].op = "call" => d[comp.body[k].comp] = e[comp.body[k].comp]
    BY <1>0, <2>1
  <2>4. Execute(comp.body[k], A[i], d) = Execute(comp.body[k], A[i], e)
    BY <1>0, <2>1, <2>3, ExecuteSame
  <2> QED BY <2>2, <2>4 DEF k
<1> HIDE DEF S
<1>5. Nat \subseteq S
  BY <1>3, <1>4, SetInduction
<1>6. n \in S /\ n <= n
  BY <1>0, <1>5
<1> QED BY <1>6 DEF S, A, B

(* The recursion of Meaning, for the first n components.                   *)
Inputs(crt, c) == [1 .. crt[c].nin -> BOOLEAN]
What(crt, c, D) ==
  [in \in Inputs(crt, c) |-> ValsIn(Course(crt[c], D, in)[Len(crt[c].body)], crt[c].outs)]
IsMeaning(crt, n, D) == D = [c \in 1 .. n |-> What(crt, c, D)]

(* A component calls components before it.                                 *)
LEMMA CallsBefore ==
  ASSUME NEW crt \in Circuits, NEW c \in 1 .. Len(crt)
  PROVE  /\ Len(crt[c].body) \in Nat /\ c \in Nat
         /\ \A i \in 1 .. Len(crt[c].body) :
              crt[c].body[i] \in Instruction /\ crt[c].body[i].op \in {"issue", "gate", "call"}
         /\ \A i \in 1 .. Len(crt[c].body) : crt[c].body[i].op = "call" =>
              crt[c].body[i].comp \in 1 .. c - 1 /\ crt[c].body[i].comp \in 1 .. Len(crt)
<1>1. WellFormed(crt, c) /\ Len(crt[c].body) \in Nat /\ DOMAIN crt[c].body = 1 .. Len(crt[c].body)
      /\ Len(crt) \in Nat
  BY ComponentIs
<1>2. \A i \in 1 .. Len(crt[c].body) : crt[c].body[i].op = "call" => crt[c].body[i].comp \in 1 .. c - 1
  BY <1>1 DEF WellFormed
<1>3. \A d \in 1 .. c - 1 : d \in 1 .. Len(crt)
  BY <1>1
<1>4. \A i \in 1 .. Len(crt[c].body) : crt[c].body[i] \in Instruction
  BY <1>1 DEF WellFormed
<1>5. \A ins \in Instruction : ins.op \in {"issue", "gate", "call"}
  BY DEF Instruction, Issue
<1> QED BY <1>1, <1>2, <1>3, <1>4, <1>5

(* So what it computes depends on those only.                              *)
LEMMA WhatSame ==
  ASSUME NEW crt \in Circuits, NEW c \in 1 .. Len(crt), NEW D, NEW E, \A d \in 1 .. c - 1 : D[d] = E[d]
  PROVE  What(crt, c, D) = What(crt, c, E)
<1> DEFINE n == Len(crt[c].body)
<1>1. n \in Nat
      /\ \A i \in 1 .. n :
           /\ crt[c].body[i].op \in {"issue", "gate", "call"}
           /\ crt[c].body[i].op = "call" => D[crt[c].body[i].comp] = E[crt[c].body[i].comp]
  BY CallsBefore
<1>2. \A in : Course(crt[c], D, in)[n] = Course(crt[c], E, in)[n]
  <2>1. SameCalls(crt[c].body, n, D, E)
    BY <1>1 DEF SameCalls
  <2> HIDE DEF n
  <2> QED BY <2>1, CourseSame
<1> DEFINE X(in) == ValsIn(Course(crt[c], D, in)[n], crt[c].outs)
           Y(in) == ValsIn(Course(crt[c], E, in)[n], crt[c].outs)
<1>3. \A in \in Inputs(crt, c) : X(in) = Y(in)
  BY <1>2
<1>4. What(crt, c, D) = [in \in Inputs(crt, c) |-> X(in)] /\ What(crt, c, E) = [in \in Inputs(crt, c) |-> Y(in)]
  BY DEF What
<1> HIDE DEF X, Y
<1> QED BY <1>3, <1>4

(* The recursion of Meaning has a solution, for any number of components.  *)
LEMMA MeaningExists ==
  ASSUME NEW crt \in Circuits
  PROVE  \A n \in Nat : n <= Len(crt) => \E D : IsMeaning(crt, n, D)
<1> DEFINE S == {n \in Nat : n <= Len(crt) => \E D : IsMeaning(crt, n, D)}
<1>0. Len(crt) \in Nat
  BY ComponentIs
<1>1. 0 \in S
  <2> DEFINE D == [c \in 1 .. 0 |-> What(crt, c, crt)]
  <2>1. D = [c \in 1 .. 0 |-> What(crt, c, D)]
    <3>1. 1 .. 0 = {}
      OBVIOUS
    <3> QED BY <3>1
  <2>2. IsMeaning(crt, 0, D)
    BY <2>1 DEF IsMeaning
  <2> QED BY <2>2
<1>2. ASSUME NEW n \in Nat, n \in S PROVE n + 1 \in S
  <2> SUFFICES ASSUME n + 1 <= Len(crt) PROVE \E D : IsMeaning(crt, n + 1, D)
    OBVIOUS
  <2>1. PICK D : IsMeaning(crt, n, D)
    BY <1>0, <1>2
  <2> DEFINE V == [c \in 1 .. n + 1 |-> What(crt, c, D)]
  <2>2. \A c \in 1 .. n : V[c] = D[c]
    BY <2>1 DEF IsMeaning
  <2>3. ASSUME NEW c \in 1 .. n + 1 PROVE What(crt, c, D) = What(crt, c, V)
    <3>1. c \in 1 .. Len(crt) /\ \A d \in 1 .. c - 1 : d \in 1 .. n
      BY <1>0
    <3> HIDE DEF V
    <3> QED BY <2>2, <3>1, WhatSame
  <2>4. V = [c \in 1 .. n + 1 |-> What(crt, c, V)]
    <3> DEFINE W(c) == What(crt, c, V)
               X(c) == What(crt, c, D)
    <3>1. \A c \in 1 .. n + 1 : X(c) = W(c)
      BY <2>3
    <3>2. V = [c \in 1 .. n + 1 |-> X(c)]
      OBVIOUS
    <3> HIDE DEF V, W, X
    <3>3. V = [c \in 1 .. n + 1 |-> W(c)]
      BY <3>1, <3>2
    <3> QED BY <3>3 DEF W
  <2>5. IsMeaning(crt, n + 1, V)
    BY <2>4 DEF IsMeaning
  <2> QED BY <2>5
<1> HIDE DEF S
<1>3. Nat \subseteq S
  BY <1>1, <1>2, SetInduction
<1> QED BY <1>3 DEF S

(* What each component computes: the outputs of its run.                   *)
LEMMA MeaningIs ==
  ASSUME NEW crt \in Circuits
  PROVE  \A c \in 1 .. Len(crt) : Meaning(crt)[c] = What(crt, c, Meaning(crt))
<1> DEFINE n == Len(crt)
           D == CHOOSE x : IsMeaning(crt, n, x)
<1>1. Meaning(crt) = D
  BY DEF Meaning, IsMeaning, What, Inputs
<1>2. IsMeaning(crt, n, D)
  <2>1. n \in Nat /\ n <= n
    BY ComponentIs
  <2> HIDE DEF n
  <2> QED BY <2>1, MeaningExists DEF n
<1> HIDE DEF D
<1>3. \A c \in 1 .. n : D[c] = What(crt, c, D)
  <2> DEFINE W(c) == What(crt, c, D)
  <2>1. D = [c \in 1 .. n |-> W(c)]
    BY <1>2 DEF IsMeaning
  <2> HIDE DEF W
  <2>2. \A c \in 1 .. n : D[c] = W(c)
    BY <2>1
  <2> QED BY <2>2 DEF W
<1> QED BY <1>1, <1>3

(* The first names an instruction could bind, of a component's body.       *)
LEMMA NewNameIs ==
  ASSUME NEW crt \in Circuits, NEW c \in 1 .. Len(crt), NEW body, body = crt[c].body
  PROVE  /\ NewName(crt, c, 1) = crt[c].nin + 2
         /\ \A i \in 1 .. Len(body) : /\ Created(crt, body[i]) \in Nat
                                      /\ NewName(crt, c, i + 1) = NewName(crt, c, i) + Created(crt, body[i])
         /\ \A i \in 1 .. Len(body) + 1 : NewName(crt, c, i) \in Int
<1> DEFINE K(i) == CreatedBy(crt, body, i)
<1>0. Len(body) \in Nat /\ crt[c].nin \in Nat
  BY ComponentIs
<1>1. \A pc \in Nat : K(pc) \in Nat
  BY CreatedAre
<1>7. \A pc \in 1 .. Len(body) : K(pc) = Created(crt, body[pc]) + K(pc + 1)
  BY CreatedAre
<1>2. \A i \in 1 .. Len(body) : Created(crt, body[i]) \in Nat
  <2> SUFFICES ASSUME NEW i \in 1 .. Len(body) PROVE Created(crt, body[i]) \in Nat
    OBVIOUS
  <2>1. body[i].op = "call" => body[i].comp \in 1 .. Len(crt)
    BY CallsBefore
  <2>2. CASE body[i].op = "call"
    <3>1. Len(crt[body[i].comp].outs) \in Nat
      BY <2>1, <2>2, ComponentIs DEF NameSeq
    <3> QED BY <2>2, <3>1 DEF Created
  <2>3. CASE body[i].op # "call"
    BY <2>3 DEF Created
  <2> QED BY <2>2, <2>3
<1>3. \A i \in Nat : NewName(crt, c, i) = 2 + crt[c].nin + (K(1) - K(i))
  BY DEF NewName, FirstMock
<1> HIDE DEF K
<1>4. NewName(crt, c, 1) = crt[c].nin + 2
  <2>1. K(1) \in Nat
    BY <1>1
  <2>2. NewName(crt, c, 1) = 2 + crt[c].nin + (K(1) - K(1))
    BY <1>3
  <2> QED BY <1>0, <2>1, <2>2
<1>5. ASSUME NEW i \in 1 .. Len(body)
      PROVE  NewName(crt, c, i + 1) = NewName(crt, c, i) + Created(crt, body[i])
  <2>0. i \in Nat /\ i + 1 \in Nat /\ 1 \in Nat
    BY <1>0
  <2>1. K(1) \in Nat /\ K(i) \in Nat /\ K(i + 1) \in Nat
    BY <1>1, <2>0
  <2>2. K(i) = Created(crt, body[i]) + K(i + 1)
    BY <1>7
  <2>3. Created(crt, body[i]) \in Nat
    BY <1>2
  <2>4. NewName(crt, c, i) = 2 + crt[c].nin + (K(1) - K(i))
    BY <1>3, <2>0
  <2>5. NewName(crt, c, i + 1) = 2 + crt[c].nin + (K(1) - K(i + 1))
    BY <1>3, <2>0
  <2> QED BY <1>0, <2>1, <2>2, <2>3, <2>4, <2>5
<1>6. ASSUME NEW i \in 1 .. Len(body) + 1 PROVE NewName(crt, c, i) \in Int
  <2>0. i \in Nat /\ 1 \in Nat
    BY <1>0
  <2>1. K(1) \in Nat /\ K(i) \in Nat
    BY <1>1, <2>0
  <2>2. NewName(crt, c, i) = 2 + crt[c].nin + (K(1) - K(i))
    BY <1>3, <2>0
  <2> QED BY <1>0, <2>1, <2>2
<1> QED BY <1>2, <1>4, <1>5, <1>6

(* They only go up.                                                        *)
LEMMA NamesGrow ==
  ASSUME NEW crt \in Circuits, NEW c \in 1 .. Len(crt), NEW k \in 1 .. Len(crt[c].body) + 1
  PROVE  \A i \in 1 .. k : NewName(crt, c, i) <= NewName(crt, c, k)
<1> DEFINE n == Len(crt[c].body)
           N(i) == NewName(crt, c, i)
           S == {m \in Nat : m < k => N(k - m) <= N(k)}
<1>1. /\ n \in Nat
      /\ \A i \in 1 .. n : \E d \in Nat : N(i + 1) = N(i) + d
      /\ \A i \in 1 .. n + 1 : N(i) \in Int
  <2>1. n \in Nat
    BY ComponentIs
  <2> HIDE DEF n
  <2>2. \A body : body = crt[c].body =>
          /\ \A i \in 1 .. Len(body) : /\ Created(crt, body[i]) \in Nat
                                       /\ N(i + 1) = N(i) + Created(crt, body[i])
          /\ \A i \in 1 .. Len(body) + 1 : N(i) \in Int
    BY NewNameIs
  <2> HIDE DEF N
  <2>3. \A i \in 1 .. n : /\ Created(crt, crt[c].body[i]) \in Nat
                          /\ N(i + 1) = N(i) + Created(crt, crt[c].body[i])
    BY <2>2 DEF n
  <2>4. \A i \in 1 .. n + 1 : N(i) \in Int
    BY <2>2 DEF n
  <2> QED BY <2>1, <2>3, <2>4
<1> HIDE DEF N
<1>2. 0 \in S
  BY <1>1
<1>3. ASSUME NEW m \in Nat, m \in S PROVE m + 1 \in S
  <2> SUFFICES ASSUME m + 1 < k PROVE N(k - (m + 1)) <= N(k)
    OBVIOUS
  <2> DEFINE i == k - (m + 1)
  <2>1. i \in 1 .. n /\ i + 1 = k - m /\ N(k - m) <= N(k) /\ i \in 1 .. n + 1 /\ k - m \in 1 .. n + 1
    BY <1>1, <1>3
  <2> HIDE DEF i
  <2>2. PICK d \in Nat : N(i + 1) = N(i) + d
    BY <1>1, <2>1
  <2>3. N(i) \in Int /\ N(i + 1) \in Int /\ N(k) \in Int
    BY <1>1, <2>1
  <2>4. N(i) <= N(k)
    BY <2>1, <2>2, <2>3
  <2> QED BY <2>4 DEF i
<1> HIDE DEF S
<1>4. Nat \subseteq S
  BY <1>2, <1>3, SetInduction
<1>5. ASSUME NEW i \in 1 .. k PROVE N(i) <= N(k)
  <2> DEFINE m == k - i
  <2>1. m \in Nat /\ m < k /\ k - m = i
    BY <1>1
  <2> HIDE DEF m
  <2>2. m \in S
    BY <1>4, <2>1
  <2> QED BY <2>1, <2>2 DEF S
<1> QED BY <1>5 DEF N

(* The names a component has bound before an instruction.                  *)
BoundAt(crt, c, pc) == NewName(crt, c, pc) - 2

(* That number, from instruction to instruction.                           *)
LEMMA BoundIs ==
  ASSUME NEW crt \in Circuits, NEW c \in 1 .. Len(crt), NEW body, body = crt[c].body
  PROVE  /\ crt[c].nin \in Nat /\ BoundAt(crt, c, 1) = crt[c].nin
         /\ \A i \in 1 .. Len(body) + 1 : BoundAt(crt, c, i) \in Nat
         /\ \A i \in 1 .. Len(body) :
              /\ Created(crt, body[i]) \in Nat
              /\ BoundAt(crt, c, i + 1) = BoundAt(crt, c, i) + Created(crt, body[i])
<1>1. Len(body) \in Nat /\ crt[c].nin \in Nat
  BY ComponentIs
<1>2. NewName(crt, c, 1) = crt[c].nin + 2 /\ \A i \in 1 .. Len(body) + 1 : NewName(crt, c, i) \in Int
  BY NewNameIs
<1>3. \A i \in 1 .. Len(body) : /\ Created(crt, body[i]) \in Nat
                                /\ NewName(crt, c, i + 1) = NewName(crt, c, i) + Created(crt, body[i])
  BY NewNameIs
<1>4. ASSUME NEW i \in 1 .. Len(body) + 1 PROVE NewName(crt, c, 1) <= NewName(crt, c, i)
  <2>1. 1 \in 1 .. i
    OBVIOUS
  <2> QED BY <2>1, NamesGrow
<1>5. ASSUME NEW i \in 1 .. Len(body) + 1 PROVE BoundAt(crt, c, i) \in Nat
  BY <1>1, <1>2, <1>4 DEF BoundAt
<1>6. BoundAt(crt, c, 1) = crt[c].nin
  BY <1>1, <1>2 DEF BoundAt
<1>7. ASSUME NEW i \in 1 .. Len(body)
      PROVE  BoundAt(crt, c, i + 1) = BoundAt(crt, c, i) + Created(crt, body[i])
  <2>1. NewName(crt, c, i) \in Int /\ Created(crt, body[i]) \in Nat
        /\ NewName(crt, c, i + 1) = NewName(crt, c, i) + Created(crt, body[i])
    BY <1>1, <1>2, <1>3
  <2> QED BY <2>1 DEF BoundAt
<1> QED BY <1>1, <1>3, <1>5, <1>6, <1>7

(* The value of a name among those of n names.                             *)
Bits(n) == [1 .. n -> BOOLEAN]

(* It is a constant's or one of the n.                                     *)
LEMMA ValInIs ==
  ASSUME NEW n \in Nat, NEW v \in Bits(n), NEW l \in 0 .. n + 1
  PROVE  /\ ValIn(v, l) \in BOOLEAN
         /\ l \in Constants => ValIn(v, l) = (l = TRUE_WIRE)
         /\ l \notin Constants => l - 1 \in 1 .. n /\ ValIn(v, l) = v[l - 1]
<1>1. CASE l \in Constants
  BY <1>1 DEF ValIn
<1>2. CASE l \notin Constants
  <2>1. l - 1 \in 1 .. n /\ l - 2 + 1 = l - 1
    BY <1>2 DEF Constants, TRUE_WIRE, FALSE_WIRE
  <2>2. ValIn(v, l) = v[l - 1]
    BY <1>2, <2>1 DEF ValIn, FirstMock
  <2>3. v[l - 1] \in BOOLEAN
    BY <2>1 DEF Bits
  <2> QED BY <1>2, <2>1, <2>2, <2>3
<1> QED BY <1>1, <1>2

(* The values of names within bounds.                                      *)
LEMMA ValsInIs ==
  ASSUME NEW n \in Nat, NEW v \in Bits(n), NEW r \in Nat, NEW ns, Within(ns, r, n)
  PROVE  /\ ValsIn(v, ns) \in Bits(r)
         /\ \A j \in 1 .. r : ValsIn(v, ns)[j] = ValIn(v, ns[j])
<1>1. DOMAIN ns = 1 .. r /\ \A j \in 1 .. r : ns[j] \in 0 .. n + 1
  BY DEF Within
<1>2. \A j \in 1 .. r : ValIn(v, ns[j]) \in BOOLEAN
  BY <1>1, ValInIs
<1>3. ValsIn(v, ns) = [j \in 1 .. r |-> ValIn(v, ns[j])]
  BY <1>1 DEF ValsIn
<1> QED BY <1>2, <1>3 DEF Bits

(* The names an instruction mentions are bound.                            *)
LEMMA MentionsBound ==
  ASSUME NEW crt \in Circuits, NEW c \in 1 .. Len(crt), NEW body, body = crt[c].body,
         NEW pc \in 1 .. Len(body), NEW ins, ins = body[pc], NEW n, n = BoundAt(crt, c, pc)
  PROVE  /\ n \in Nat /\ ins \in Instruction
         /\ Within(Operands(ins), Len(Operands(ins)), n) /\ Len(Operands(ins)) \in Nat
         /\ ins.op = "gate" =>
              /\ ins.a \in 0 .. n + 1 /\ ins.b \in 0 .. n + 1 /\ ins.c \in 0 .. n + 1
              /\ ins.g \in {"And", "Nimp", "Or", "Xor", "Not"}
              /\ Operands(ins) = <<ins.a, ins.b>>
         /\ ins.op = "call" =>
              /\ ins.comp \in 1 .. c - 1 /\ ins.comp \in 1 .. Len(crt)
              /\ Within(ins.args, crt[ins.comp].nin, n) /\ crt[ins.comp].nin \in Nat
              /\ Operands(ins) = ins.args
<1>1. WellFormed(crt, c) /\ Len(body) \in Nat /\ DOMAIN body = 1 .. Len(body)
  BY ComponentIs
<1>2. n \in Nat /\ NewName(crt, c, pc) \in Int /\ NewName(crt, c, pc) - 1 = n + 1
  <2>1. pc \in 1 .. Len(body) + 1
    BY <1>1
  <2>2. n \in Nat /\ NewName(crt, c, pc) \in Int
    BY <2>1, BoundIs, NewNameIs
  <2> QED BY <2>2 DEF BoundAt
<1>3. Known(crt, c, pc) = 0 .. n + 1
  BY <1>2 DEF Known
<1>4. /\ ins \in Instruction /\ Operands(ins) \in Seq(Known(crt, c, pc))
      /\ ins.op = "gate" => ins.c \in Known(crt, c, pc)
      /\ ins.op = "call" => ins.comp \in 1 .. c - 1 /\ Len(ins.args) = crt[ins.comp].nin
  <2> DEFINE Fine(p, i) == /\ Operands(i) \in Seq(Known(crt, c, p))
                           /\ i.op = "gate" => i.c \in Known(crt, c, p)
                           /\ i.op = "call" => i.comp \in 1 .. c - 1 /\ Len(i.args) = crt[i.comp].nin
  <2>1. crt[c].body \in Seq(Instruction) /\ \A p \in DOMAIN crt[c].body : Fine(p, crt[c].body[p])
    BY <1>1 DEF WellFormed
  <2>2. ins \in Instruction
    BY <1>1, <2>1
  <2> HIDE DEF Fine
  <2>3. Fine(pc, ins)
    BY <1>1, <2>1
  <2> QED BY <2>2, <2>3 DEF Fine
<1>5. Within(Operands(ins), Len(Operands(ins)), n) /\ Len(Operands(ins)) \in Nat
  BY <1>3, <1>4, SeqIs DEF Within
<1>6. ASSUME ins.op = "gate"
      PROVE  /\ ins.a \in 0 .. n + 1 /\ ins.b \in 0 .. n + 1 /\ ins.c \in 0 .. n + 1
             /\ ins.g \in {"And", "Nimp", "Or", "Xor", "Not"}
             /\ Operands(ins) = <<ins.a, ins.b>>
  <2>1. Operands(ins) = <<ins.a, ins.b>>
    BY <1>6 DEF Operands
  <2>2. <<ins.a, ins.b>> \in Seq(0 .. n + 1)
    BY <1>3, <1>4, <2>1
  <2>3. ins.a \in 0 .. n + 1 /\ ins.b \in 0 .. n + 1
    <3> DEFINE s == <<ins.a, ins.b>>
    <3>1. Len(s) = 2 /\ s[1] = ins.a /\ s[2] = ins.b
      OBVIOUS
    <3> HIDE DEF s
    <3>2. s \in Seq(0 .. n + 1)
      BY <2>2 DEF s
    <3>3. \A j \in 1 .. 2 : s[j] \in 0 .. n + 1
      BY <3>1, <3>2, SeqIs
    <3> QED BY <3>1, <3>3
  <2>4. ins.g \in {"And", "Nimp", "Or", "Xor", "Not"}
    BY <1>4, <1>6 DEF Instruction, Issue
  <2> QED BY <1>3, <1>4, <1>6, <2>1, <2>3, <2>4
<1>7. ASSUME ins.op = "call"
      PROVE  /\ ins.comp \in 1 .. c - 1 /\ ins.comp \in 1 .. Len(crt)
             /\ Within(ins.args, crt[ins.comp].nin, n) /\ crt[ins.comp].nin \in Nat
             /\ Operands(ins) = ins.args
  <2>1. Operands(ins) = ins.args
    BY <1>7 DEF Operands
  <2>2. Len(ins.args) = crt[ins.comp].nin /\ ins.comp \in 1 .. c - 1
    BY <1>4, <1>7
  <2>3. ins.comp \in 1 .. Len(crt)
    BY <1>7, CallsBefore
  <2> QED BY <1>5, <2>1, <2>2, <2>3
<1> QED BY <1>2, <1>4, <1>5, <1>6, <1>7

(* So are those a component returns.                                       *)
LEMMA ReturnsBound ==
  ASSUME NEW crt \in Circuits, NEW c \in 1 .. Len(crt), NEW n, n = BoundAt(crt, c, Len(crt[c].body) + 1)
  PROVE  n \in Nat /\ Within(crt[c].outs, Len(crt[c].outs), n) /\ Len(crt[c].outs) \in Nat
<1> DEFINE pc == Len(crt[c].body) + 1
           outs == crt[c].outs
<1>1. WellFormed(crt, c) /\ Len(crt[c].body) \in Nat
  BY ComponentIs
<1>2. n \in Nat /\ NewName(crt, c, pc) \in Int /\ NewName(crt, c, pc) - 1 = n + 1
  <2>1. pc \in 1 .. Len(crt[c].body) + 1
    BY <1>1
  <2>2. n \in Nat /\ NewName(crt, c, pc) \in Int
    BY <2>1, BoundIs, NewNameIs
  <2> QED BY <2>2 DEF BoundAt
<1>3. Known(crt, c, pc) = 0 .. n + 1
  BY <1>2 DEF Known
<1>4. outs \in Seq(0 .. n + 1)
  BY <1>1, <1>3 DEF WellFormed
<1> HIDE DEF outs
<1>5. Within(outs, Len(outs), n) /\ Len(outs) \in Nat
  BY <1>4, SeqIs DEF Within
<1> QED BY <1>2, <1>5 DEF outs

(* Components compute outputs of their inputs.                             *)
Computes(crt, does, d) == does[d] \in [Inputs(crt, d) -> Bits(Len(crt[d].outs))]

(* What one instruction does to the values of the names.                   *)
Executed(crt, does, ins, v, n, u) ==
  /\ \A j \in 1 .. n : u[j] = IF ins.op = "gate" /\ ins.c = j + 1
                                THEN EvalGate(ins.g, ValIn(v, ins.a), ValIn(v, ins.b)) ELSE v[j]
  /\ ins.op = "call" =>
       /\ ValsIn(v, ins.args) \in Inputs(crt, ins.comp)
       /\ \A j \in 1 .. Len(crt[ins.comp].outs) : u[n + j] = does[ins.comp][ValsIn(v, ins.args)][j]

(* Values are a sequence.                                                  *)
LEMMA BitsSeq ==
  ASSUME NEW n \in Nat, NEW v
  PROVE  v \in Bits(n) <=> v \in Seq(BOOLEAN) /\ Len(v) = n
BY DEF Bits

(* One instruction keeps the values of the names, but the one a gate writes. *)
LEMMA ExecuteIs ==
  ASSUME NEW crt \in Circuits, NEW c \in 1 .. Len(crt), NEW pc \in 1 .. Len(crt[c].body),
         NEW does, NEW ins, ins = crt[c].body[pc], NEW n, n = BoundAt(crt, c, pc), NEW v \in Bits(n),
         ins.op = "call" => Computes(crt, does, ins.comp)
  PROVE  /\ Execute(ins, v, does) \in Bits(BoundAt(crt, c, pc + 1))
         /\ Executed(crt, does, ins, v, n, Execute(ins, v, does))
<1> DEFINE u == Execute(ins, v, does)
           m == BoundAt(crt, c, pc + 1)
<1>1. n \in Nat /\ ins \in Instruction /\ ins.op \in {"issue", "gate", "call"}
  BY MentionsBound, CallsBefore
<1>2. m = n + Created(crt, ins) /\ Created(crt, ins) \in Nat
  BY BoundIs
<1>3. v \in Seq(BOOLEAN) /\ Len(v) = n
  BY <1>1, BitsSeq
<1>4. CASE ins.op = "issue"
  <2>1. m = n + 1
    BY <1>2, <1>4 DEF Created
  <2> DEFINE no == FALSE
  <2>2. u = Append(v, no) /\ no \in BOOLEAN
    BY <1>4 DEF Execute
  <2> HIDE DEF u, m, no
  <2>3. u \in Seq(BOOLEAN) /\ Len(u) = n + 1 /\ \A j \in 1 .. n : u[j] = v[j]
    BY <1>3, <2>2, AppendIs
  <2>4. u \in Bits(m)
    BY <1>1, <2>1, <2>3, BitsSeq
  <2>5. Executed(crt, does, ins, v, n, u)
    BY <1>4, <2>3 DEF Executed
  <2> QED BY <2>4, <2>5 DEF u, m
<1>5. CASE ins.op = "gate"
  <2> DEFINE x == EvalGate(ins.g, ValIn(v, ins.a), ValIn(v, ins.b))
             k == ins.c - 1
  <2>1. m = n
    BY <1>1, <1>2, <1>5 DEF Created
  <2>2. u = [v EXCEPT ![k] = x]
    <3>1. \A y \in Nat : y - FirstMock + 1 = y - 1
      BY DEF FirstMock
    <3>2. ins.c \in Nat
      BY <1>1, <1>5, MentionsBound
    <3>3. ins.c - FirstMock + 1 = k
      BY <3>1, <3>2
    <3> QED BY <1>5, <3>3 DEF Execute
  <2>3. ins.g \in {"And", "Nimp", "Or", "Xor", "Not"} /\ ins.c \in 0 .. n + 1
    BY <1>5, MentionsBound
  <2>4. x \in BOOLEAN
    BY <2>3, EvalGateIs, CircuitsAssumption
  <2> HIDE DEF u, x, m
  <2>5. u \in Bits(n)
    BY <2>2, <2>4 DEF Bits
  <2>6. \A j \in 1 .. n : u[j] = IF j = k THEN x ELSE v[j]
    BY <2>2 DEF Bits
  <2>7. \A j \in 1 .. n : j = k <=> ins.c = j + 1
    BY SMTT(30), <1>1, <2>3
  <2>8. \A j \in 1 .. n : u[j] = IF ins.op = "gate" /\ ins.c = j + 1 THEN x ELSE v[j]
    BY <1>5, <2>6, <2>7
  <2>9. Executed(crt, does, ins, v, n, u)
    BY <1>5, <2>8 DEF Executed, x
  <2> QED BY <2>1, <2>5, <2>9 DEF u, m
<1>6. CASE ins.op = "call"
  <2> DEFINE d == ins.comp
             r == Len(crt[d].outs)
             y == ValsIn(v, ins.args)
             x == does[d][y]
  <2>1. m = n + r /\ r \in Nat
    BY <1>2, <1>6 DEF Created
  <2>2. u = v \o x
    BY <1>6 DEF Execute
  <2>3. Within(ins.args, crt[d].nin, n) /\ crt[d].nin \in Nat
    BY <1>6, MentionsBound
  <2>4. y \in Inputs(crt, d)
    BY <1>1, <2>3, ValsInIs DEF Inputs, Bits
  <2>5. x \in Bits(r)
    <3> HIDE DEF d, r, y
    <3>1. does[d] \in [Inputs(crt, d) -> Bits(r)]
      BY <1>6 DEF Computes, d, r
    <3> QED BY <2>4, <3>1
  <2> HIDE DEF u, x, m, r, y, d
  <2>6. x \in Seq(BOOLEAN) /\ Len(x) = r
    BY <2>1, <2>5, BitsSeq
  <2>7. u \in Seq(BOOLEAN) /\ Len(u) = n + r /\ \A j \in 1 .. n : u[j] = v[j]
    BY <1>3, <2>2, <2>6, ConcatIs
  <2>8. \A j \in 1 .. r : u[n + j] = x[j]
    <3>1. \A j \in 1 .. Len(x) : (v \o x)[Len(v) + j] = x[j]
      BY SMTT(30), <1>3, <2>6, JoinIs
    <3> QED BY <1>3, <2>2, <2>6, <3>1
  <2>9. u \in Bits(m)
    BY <1>1, <2>1, <2>7, BitsSeq
  <2>10. Executed(crt, does, ins, v, n, u)
    BY <1>6, <2>4, <2>7, <2>8 DEF Executed, x, r, y, d
  <2> QED BY <2>9, <2>10 DEF u, m
<1> QED BY <1>1, <1>4, <1>5, <1>6

(* A run of a component has a value for every name it has bound.           *)
LEMMA CourseTyped ==
  ASSUME NEW crt \in Circuits, NEW c \in 1 .. Len(crt), NEW does, NEW in \in Inputs(crt, c),
         \A d \in 1 .. c - 1 : Computes(crt, does, d)
  PROVE  \A i \in 0 .. Len(crt[c].body) : Course(crt[c], does, in)[i] \in Bits(BoundAt(crt, c, i + 1))
<1> DEFINE n == Len(crt[c].body)
           A == Course(crt[c], does, in)
           S == {i \in Nat : i <= n => A[i] \in Bits(BoundAt(crt, c, i + 1))}
<1>1. n \in Nat
  BY ComponentIs
<1>2. A[0] = in
  BY <1>1, CourseIs
<1>3. \A i \in 1 .. n : A[i] = Execute(crt[c].body[i], A[i - 1], does)
  BY <1>1, CourseIs
<1> HIDE DEF A
<1>4. 0 \in S
  <2>1. BoundAt(crt, c, 1) = crt[c].nin
    BY BoundIs
  <2>2. in \in Bits(BoundAt(crt, c, 1))
    BY <2>1 DEF Inputs, Bits
  <2> QED BY <1>2, <2>2
<1>5. ASSUME NEW i \in Nat, i \in S PROVE i + 1 \in S
  <2> SUFFICES ASSUME i + 1 <= n PROVE A[i + 1] \in Bits(BoundAt(crt, c, i + 1 + 1))
    OBVIOUS
  <2> DEFINE k == i + 1
             ins == crt[c].body[k]
             v == A[i]
  <2>1. k \in 1 .. n /\ k - 1 = i
    BY <1>1
  <2>2. v \in Bits(BoundAt(crt, c, k))
    BY <1>1, <1>5
  <2> HIDE DEF k, v
  <2>3. A[k] = Execute(ins, v, does)
    BY <1>3, <2>1 DEF v
  <2>4. ins.op = "call" => Computes(crt, does, ins.comp)
    <3>1. ins.op = "call" => ins.comp \in 1 .. c - 1
      BY <2>1, CallsBefore
    <3> QED BY <3>1
  <2> HIDE DEF ins
  <2>5. A[k] \in Bits(BoundAt(crt, c, k + 1))
    BY <2>1, <2>2, <2>3, <2>4, ExecuteIs DEF ins
  <2> QED BY <2>5 DEF k
<1> HIDE DEF S
<1>6. Nat \subseteq S
  BY <1>4, <1>5, SetInduction
<1>7. \A i \in 0 .. n : i \in S /\ i <= n
  BY <1>6
<1> QED BY <1>7 DEF S, A

(* Each component computes as many outputs as it declares.                 *)
LEMMA MeaningTyped ==
  ASSUME NEW crt \in Circuits
  PROVE  \A c \in 1 .. Len(crt) : Computes(crt, Meaning(crt), c)
<1> DEFINE D == Meaning(crt)
           S == {n \in Nat : \A c \in 1 .. n : c <= Len(crt) => Computes(crt, D, c)}
<1>0. Len(crt) \in Nat
  BY ComponentIs
<1>1. \A c \in 1 .. Len(crt) : D[c] = What(crt, c, D)
  BY MeaningIs
<1> HIDE DEF D
<1>2. 0 \in S
  OBVIOUS
<1>3. ASSUME NEW n \in Nat, n \in S PROVE n + 1 \in S
  <2>1. ASSUME n + 1 <= Len(crt) PROVE Computes(crt, D, n + 1)
    <3> DEFINE c == n + 1
               m == Len(crt[c].body)
               outs == crt[c].outs
               r == Len(outs)
               V(in) == Course(crt[c], D, in)[m]
    <3>1. c \in 1 .. Len(crt)
      BY <1>0, <2>1
    <3>2. \A d \in 1 .. c - 1 : Computes(crt, D, d)
      <4>1. \A d \in 1 .. c - 1 : d \in 1 .. n /\ d <= Len(crt)
        BY <1>0, <2>1
      <4> QED BY <1>3, <4>1
    <3> HIDE DEF c
    <3>3. m \in Nat /\ m \in 0 .. m
      BY <3>1, ComponentIs
    <3>4. \A in \in Inputs(crt, c) : V(in) \in Bits(BoundAt(crt, c, m + 1))
      BY <3>1, <3>2, <3>3, CourseTyped
    <3>5. BoundAt(crt, c, m + 1) \in Nat /\ Within(outs, r, BoundAt(crt, c, m + 1)) /\ r \in Nat
      BY <3>1, ReturnsBound
    <3> HIDE DEF outs, r, V, m
    <3>6. \A in \in Inputs(crt, c) : ValsIn(V(in), outs) \in Bits(r)
      BY <3>4, <3>5, ValsInIs
    <3>7. D[c] = [in \in Inputs(crt, c) |-> ValsIn(V(in), outs)]
      BY <1>1, <3>1 DEF What, V, outs, m
    <3>8. D[c] \in [Inputs(crt, c) -> Bits(r)]
      BY <3>6, <3>7
    <3>9. Computes(crt, D, c)
      BY <3>8 DEF Computes, r, outs
    <3> QED BY <3>9 DEF c
  <2>2. \A c \in 1 .. n + 1 : c \in 1 .. n \/ c = n + 1
    OBVIOUS
  <2> QED BY <1>3, <2>1, <2>2
<1> HIDE DEF S
<1>4. Nat \subseteq S
  BY <1>2, <1>3, SetInduction
<1>5. Len(crt) \in S /\ \A c \in 1 .. Len(crt) : c <= Len(crt)
  BY <1>0, <1>4
<1> QED BY <1>5 DEF S, D

(* The run of a component, and what it computes.                           *)
Goes(crt, c, in) == Course(crt[c], Meaning(crt), in)
DoneAt(crt, c) == Len(crt[c].body)

(* It starts with the inputs and ends with the outputs.                    *)
LEMMA RunIs ==
  ASSUME NEW crt \in Circuits, NEW c \in 1 .. Len(crt), NEW in \in Inputs(crt, c)
  PROVE  /\ DoneAt(crt, c) \in Nat
         /\ Goes(crt, c, in)[0] = in
         /\ \A i \in 0 .. DoneAt(crt, c) : Goes(crt, c, in)[i] \in Bits(BoundAt(crt, c, i + 1))
         /\ Meaning(crt)[c][in] = ValsIn(Goes(crt, c, in)[DoneAt(crt, c)], crt[c].outs)
         /\ Meaning(crt)[c][in] \in Bits(Len(crt[c].outs))
<1> DEFINE D == Meaning(crt)
<1>1. Len(crt[c].body) \in Nat /\ c \in Nat /\ Len(crt) \in Nat
  BY ComponentIs
<1>2. \A d \in 1 .. Len(crt) : Computes(crt, D, d)
  BY MeaningTyped
<1>3. D[c] = What(crt, c, D)
  BY MeaningIs
<1> HIDE DEF D
<1>4. Course(crt[c], D, in)[0] = in
  BY <1>1, CourseIs
<1>5. \A d \in 1 .. c - 1 : Computes(crt, D, d)
  BY <1>1, <1>2
<1>6. \A i \in 0 .. Len(crt[c].body) : Course(crt[c], D, in)[i] \in Bits(BoundAt(crt, c, i + 1))
  BY <1>5, CourseTyped
<1>7. D[c][in] = ValsIn(Course(crt[c], D, in)[Len(crt[c].body)], crt[c].outs)
  BY <1>3 DEF What
<1>8. D[c][in] \in Bits(Len(crt[c].outs))
  BY <1>2 DEF Computes
<1> QED BY <1>1, <1>4, <1>6, <1>7, <1>8 DEF Goes, DoneAt, D

(* Its instructions, one after the other.                                  *)
LEMMA RunGoes ==
  ASSUME NEW crt \in Circuits, NEW c \in 1 .. Len(crt), NEW in \in Inputs(crt, c),
         NEW pc \in 1 .. DoneAt(crt, c)
  PROVE  Executed(crt, Meaning(crt), crt[c].body[pc], Goes(crt, c, in)[pc - 1], BoundAt(crt, c, pc),
                  Goes(crt, c, in)[pc])
<1> DEFINE D == Meaning(crt)
           v == Course(crt[c], D, in)[pc - 1]
           u == Course(crt[c], D, in)[pc]
           ins == crt[c].body[pc]
<1>1. Len(crt[c].body) \in Nat /\ pc \in 1 .. Len(crt[c].body) /\ pc - 1 \in 0 .. DoneAt(crt, c) /\ pc - 1 + 1 = pc
  BY ComponentIs DEF DoneAt
<1>2. v \in Bits(BoundAt(crt, c, pc))
  <2>1. Goes(crt, c, in)[pc - 1] \in Bits(BoundAt(crt, c, pc - 1 + 1))
    BY <1>1, RunIs
  <2> QED BY <1>1, <2>1 DEF Goes
<1>3. u = Execute(ins, v, D)
  BY <1>1, CourseIs
<1>4. ins.op = "call" => Computes(crt, D, ins.comp)
  BY <1>1, CallsBefore, MeaningTyped
<1> HIDE DEF D, v, u
<1>5. Executed(crt, D, ins, v, BoundAt(crt, c, pc), u)
  BY <1>1, <1>2, <1>3, <1>4, ExecuteIs
<1> QED BY <1>5 DEF D, v, u, Goes

(* One more instruction.                                                   *)
LEMMA BeforeIs ==
  ASSUME NEW crt, NEW c, NEW pc \in Nat \ {0}
  PROVE  \A op, i : i \in Before(crt, c, pc + 1, op)
                       <=> i \in Before(crt, c, pc, op) \/ (i = pc /\ crt[c].body[pc].op = op)
<1>1. 1 .. pc + 1 - 1 = (1 .. pc - 1) \cup {pc}
  OBVIOUS
<1> QED BY <1>1 DEF Before

(* The names with a value, and those of wires of its own, when a component *)
(* starts.                                                                 *)
LEMMA NamesStart ==
  ASSUME NEW crt \in Circuits, NEW c \in 1 .. Len(crt)
  PROVE  /\ Written(crt, c, 1) = 0 .. crt[c].nin + 1
         /\ Own(crt, c, 1) = IF c = Len(crt) THEN 2 .. crt[c].nin + 1 ELSE {}
<1>1. \A op : Before(crt, c, 1, op) = {}
  BY DEF Before
<1>2. crt[c].nin \in Nat
  BY ComponentIs
<1>3. FirstMock + crt[c].nin - 1 = crt[c].nin + 1
  BY <1>2 DEF FirstMock
<1> QED BY <1>1, <1>3 DEF Written, Own, FirstMock

(* What an instruction adds to the names with a value.                     *)
LEMMA WrittenGrows ==
  ASSUME NEW crt \in Circuits, NEW c \in 1 .. Len(crt), NEW pc \in Nat \ {0},
         NEW ins, ins = crt[c].body[pc]
  PROVE  /\ ins.op = "issue" => Written(crt, c, pc + 1) = Written(crt, c, pc)
         /\ ins.op = "gate" => Written(crt, c, pc + 1) = Written(crt, c, pc) \cup {ins.c}
         /\ ins.op = "call" => Written(crt, c, pc + 1)
              = Written(crt, c, pc) \cup (NewName(crt, c, pc) .. NewName(crt, c, pc + 1) - 1)
<1> DEFINE G(p) == Before(crt, c, p, "gate")
           K(p) == Before(crt, c, p, "call")
           Z == 0 .. FirstMock + crt[c].nin - 1
           g(i) == crt[c].body[i].c
           k(i) == NewName(crt, c, i) .. NewName(crt, c, i + 1) - 1
           W(p) == Z \cup {g(i) : i \in G(p)} \cup UNION {k(i) : i \in K(p)}
<1>0. \A op, i : i \in Before(crt, c, pc + 1, op)
                    <=> i \in Before(crt, c, pc, op) \/ (i = pc /\ crt[c].body[pc].op = op)
  BY BeforeIs
<1>1. \A i : i \in G(pc + 1) <=> i \in G(pc) \/ (i = pc /\ ins.op = "gate")
  BY <1>0
<1>2. \A i : i \in K(pc + 1) <=> i \in K(pc) \/ (i = pc /\ ins.op = "call")
  BY <1>0
<1>3. \A p : Written(crt, c, p) = W(p)
  BY DEF Written
<1> HIDE DEF G, K, Z, k
<1>4. CASE ins.op = "issue"
  <2>1. G(pc + 1) = G(pc) /\ K(pc + 1) = K(pc)
    BY <1>1, <1>2, <1>4
  <2> QED BY <1>3, <1>4, <2>1
<1>5. CASE ins.op = "gate"
  <2>1. G(pc + 1) = G(pc) \cup {pc} /\ K(pc + 1) = K(pc)
    BY <1>1, <1>2, <1>5
  <2>2. W(pc + 1) = W(pc) \cup {g(pc)}
    BY <2>1
  <2> QED BY <1>3, <1>5, <2>2
<1>6. CASE ins.op = "call"
  <2>1. G(pc + 1) = G(pc) /\ K(pc + 1) = K(pc) \cup {pc}
    <3>1. \A i : i \in G(pc + 1) <=> i \in G(pc)
      BY <1>1, <1>6
    <3>2. \A i : i \in K(pc + 1) <=> i \in K(pc) \cup {pc}
      BY <1>2, <1>6
    <3> QED BY <3>1, <3>2
  <2>2. W(pc + 1) = W(pc) \cup k(pc)
    BY <2>1
  <2> QED BY <1>3, <1>6, <2>2 DEF k
<1>7. ins.op \notin {"issue", "gate", "call"} \/ ins.op = "issue" \/ ins.op = "gate" \/ ins.op = "call"
  OBVIOUS
<1> QED BY <1>4, <1>5, <1>6, <1>7

(* What it adds to the names of wires of its own, and takes from them.     *)
LEMMA OwnGrows ==
  ASSUME NEW crt \in Circuits, NEW c \in 1 .. Len(crt), NEW pc \in Nat \ {0},
         NEW ins, ins = crt[c].body[pc]
  PROVE  \A l \in Own(crt, c, pc + 1) :
           /\ l \in Own(crt, c, pc) \/ (ins.op = "issue" /\ l = NewName(crt, c, pc))
           /\ ins.op = "call" => l \notin ToSet(ins.args)
<1> DEFINE I(p) == Before(crt, c, p, "issue")
           K(p) == Before(crt, c, p, "call")
           R == IF c = Len(crt) THEN FirstMock .. FirstMock + crt[c].nin - 1 ELSE {}
           g(i) == NewName(crt, c, i)
           k(i) == ToSet(crt[c].body[i].args)
           O(p) == ({g(i) : i \in I(p)} \cup R) \ UNION {k(i) : i \in K(p)}
<1>0. \A op, i : i \in Before(crt, c, pc + 1, op)
                    <=> i \in Before(crt, c, pc, op) \/ (i = pc /\ crt[c].body[pc].op = op)
  BY BeforeIs
<1>1. \A i : i \in I(pc + 1) <=> i \in I(pc) \/ (i = pc /\ ins.op = "issue")
  BY <1>0
<1>2. \A i : i \in K(pc + 1) <=> i \in K(pc) \/ (i = pc /\ ins.op = "call")
  BY <1>0
<1>3. \A p : Own(crt, c, p) = O(p)
  BY DEF Own
<1> HIDE DEF I, K, R, g, k
<1>4. \A l \in O(pc + 1) : l \in O(pc) \/ (ins.op = "issue" /\ l = g(pc))
  BY <1>1, <1>2, <1>3
<1>5. ins.op = "call" => \A l \in O(pc + 1) : l \notin k(pc)
  BY <1>1, <1>2, <1>3
<1> QED BY <1>3, <1>4, <1>5 DEF g, k

(* All of them are bound.                                                  *)
LEMMA NamesBound ==
  ASSUME NEW crt \in Circuits, NEW c \in 1 .. Len(crt), NEW pc \in 1 .. Len(crt[c].body) + 1
  PROVE  /\ Written(crt, c, pc) \subseteq 0 .. BoundAt(crt, c, pc) + 1
         /\ Own(crt, c, pc) \subseteq 2 .. BoundAt(crt, c, pc) + 1
<1> DEFINE n == Len(crt[c].body)
           B(i) == BoundAt(crt, c, i)
           S == {m \in Nat : m <= n => /\ Written(crt, c, m + 1) \subseteq 0 .. B(m + 1) + 1
                                       /\ Own(crt, c, m + 1) \subseteq 2 .. B(m + 1) + 1}
<1>1. n \in Nat /\ crt[c].nin \in Nat /\ B(1) = crt[c].nin /\ \A i \in 1 .. n + 1 : B(i) \in Nat
  BY BoundIs, ComponentIs
<1>2. \A i \in 1 .. n : Created(crt, crt[c].body[i]) \in Nat /\ B(i + 1) = B(i) + Created(crt, crt[c].body[i])
  BY BoundIs
<1>3. 0 \in S
  BY <1>1, NamesStart
<1>4. ASSUME NEW m \in Nat, m \in S PROVE m + 1 \in S
  <2> SUFFICES ASSUME m + 1 <= n
               PROVE  /\ Written(crt, c, m + 1 + 1) \subseteq 0 .. B(m + 1 + 1) + 1
                      /\ Own(crt, c, m + 1 + 1) \subseteq 2 .. B(m + 1 + 1) + 1
    OBVIOUS
  <2> DEFINE i == m + 1
             ins == crt[c].body[i]
  <2>1. i \in 1 .. n /\ i \in Nat \ {0} /\ i \in 1 .. n + 1 /\ i + 1 \in 1 .. n + 1
    BY <1>1
  <2>2. Written(crt, c, i) \subseteq 0 .. B(i) + 1 /\ Own(crt, c, i) \subseteq 2 .. B(i) + 1
    BY <1>1, <1>4
  <2> HIDE DEF i
  <2>3. /\ B(i) \in Nat /\ B(i + 1) \in Nat /\ Created(crt, ins) \in Nat /\ B(i + 1) = B(i) + Created(crt, ins)
        /\ ins.op \in {"issue", "gate", "call"}
        /\ ins.op = "gate" => ins.c \in 0 .. B(i) + 1
    <3>1. ins.op = "gate" => ins.c \in 0 .. B(i) + 1
      BY <2>1, MentionsBound
    <3> QED BY <1>1, <1>2, <2>1, <3>1, CallsBefore
  <2>4. NewName(crt, c, i) = B(i) + 2 /\ NewName(crt, c, i + 1) = B(i + 1) + 2
    <3>1. NewName(crt, c, i) \in Int /\ NewName(crt, c, i + 1) \in Int
      BY <2>1, NewNameIs
    <3> QED BY <3>1 DEF BoundAt
  <2> HIDE DEF ins, B
  <2>5. 0 .. B(i) + 1 \subseteq 0 .. B(i + 1) + 1 /\ 2 .. B(i) + 1 \subseteq 2 .. B(i + 1) + 1
    BY <2>3
  <2>6. Written(crt, c, i + 1) \subseteq 0 .. B(i + 1) + 1
    <3>1. CASE ins.op = "issue"
      BY <2>1, <2>2, <2>5, <3>1, WrittenGrows DEF ins
    <3>2. CASE ins.op = "gate"
      <4>1. Written(crt, c, i + 1) = Written(crt, c, i) \cup {ins.c}
        BY <2>1, <3>2, WrittenGrows DEF ins
      <4> QED BY <2>2, <2>3, <2>5, <3>2, <4>1
    <3>3. CASE ins.op = "call"
      <4>1. Written(crt, c, i + 1)
              = Written(crt, c, i) \cup (NewName(crt, c, i) .. NewName(crt, c, i + 1) - 1)
        BY <2>1, <3>3, WrittenGrows DEF ins
      <4>2. NewName(crt, c, i) .. NewName(crt, c, i + 1) - 1 \subseteq 0 .. B(i + 1) + 1
        BY SMTT(30), <2>3, <2>4
      <4> QED BY <2>2, <2>5, <4>1, <4>2
    <3> QED BY <2>3, <3>1, <3>2, <3>3
  <2>7. Own(crt, c, i + 1) \subseteq 2 .. B(i + 1) + 1
    <3> SUFFICES ASSUME NEW l \in Own(crt, c, i + 1) PROVE l \in 2 .. B(i + 1) + 1
      OBVIOUS
    <3>1. l \in Own(crt, c, i) \/ (ins.op = "issue" /\ l = B(i) + 2)
      BY <2>1, <2>4, OwnGrows DEF ins
    <3>2. ins.op = "issue" => B(i + 1) = B(i) + 1
      BY <2>3 DEF Created
    <3> QED BY <2>2, <2>3, <2>5, <3>1, <3>2
  <2> QED BY <2>6, <2>7 DEF i
<1> HIDE DEF S
<1>5. Nat \subseteq S
  BY <1>3, <1>4, SetInduction
<1> DEFINE m == pc - 1
<1>6. m \in Nat /\ m <= n /\ m + 1 = pc
  BY <1>1
<1> HIDE DEF m
<1>7. m \in S
  BY <1>5, <1>6
<1> QED BY <1>6, <1>7 DEF S

(* The use of wires a component keeps to.                                  *)
LEMMA DisciplineIs ==
  ASSUME NEW crt \in Circuits, NEW c \in 1 .. Len(crt)
  PROVE  /\ \A pc \in 1 .. Len(crt[c].body) :
              LET ins == crt[c].body[pc]
              IN  /\ \A j \in DOMAIN Operands(ins) : Operands(ins)[j] \in Written(crt, c, pc)
                  /\ ins.op = "gate" =>
                       /\ ins.c \in Own(crt, c, pc)
                       /\ ins.c \in Written(crt, c, pc) => ReadAfter(crt, c, pc, ins.c)
         /\ \A j \in DOMAIN crt[c].outs : crt[c].outs[j] \in Written(crt, c, Len(crt[c].body) + 1)
<1>1. c \in DOMAIN crt /\ DOMAIN crt[c].body = 1 .. Len(crt[c].body)
  BY ComponentIs
<1>2. Disciplined(crt, c)
  BY <1>1, DisciplineAssumption
<1> QED BY <1>1, <1>2 DEF Disciplined, ToSet

(* The name at position j of frame k is bound, its wire, and whether the   *)
(* wire is still read under this name.                                     *)
IsBound(s, k, j) == k \in 1 .. Len(s.frames) /\ j \in 1 .. Len(s.frames[k].env)
WireAt(s, k, j) == s.frames[k].env[j]
Live(crt, s, k, j) == IsBound(s, k, j) /\ Coming(crt, s, k, j + 1) # 0

(* The wire has the value.                                                 *)
Holds(st, w, v) ==
  \/ w \in Constants /\ v = (w = TRUE_WIRE)
  \/ w \in Keys /\ Value(st, w) = v

(* Wires that are still read exist.                                        *)
Reachable(crt, s) == \A k, j : Live(crt, s, k, j) => WireAt(s, k, j) # UNREACHABLE

(* A closure's own wires have no second name under which they are read.    *)
Apart(crt, s, own) ==
  \A k, j, h, i :
    /\ Live(crt, s, k, j) /\ j + 1 \in own[k]
    /\ Live(crt, s, h, i) /\ WireAt(s, k, j) = WireAt(s, h, i)
    => h = k /\ i = j

(* Wires of its own without a value and never read do not exist.           *)
Dropped(crt, s, own, fed) ==
  \A k, j :
    /\ IsBound(s, k, j) /\ j + 1 \in own[k] /\ j + 1 \notin fed[k]
    /\ Coming(crt, s, k, j + 1) = 0
    => WireAt(s, k, j) = UNREACHABLE

(* They are no constants.                                                  *)
Mine(s, own) == \A k, j : IsBound(s, k, j) /\ j + 1 \in own[k] => WireAt(s, k, j) \notin Constants

(* The names with a value that is still read have it in the storage.       *)
Valued(crt, s, st, fed, val) ==
  \A k, j : Live(crt, s, k, j) /\ j + 1 \in fed[k] => Holds(st, WireAt(s, k, j), val[k][j])

Good(crt, s, st, own, fed, val) ==
  /\ Reachable(crt, s) /\ Apart(crt, s, own) /\ Dropped(crt, s, own, fed)
  /\ Mine(s, own) /\ Valued(crt, s, st, fed, val)

(* Views of the same bound names.                                          *)
Agree(s, own, fed, val, own2, fed2, val2) ==
  \A k, j : IsBound(s, k, j) =>
    /\ j + 1 \in own2[k] => j + 1 \in own[k]
    /\ j + 1 \in fed2[k] <=> j + 1 \in fed[k]
    /\ j + 1 \in fed2[k] => val2[k][j] = val[k][j]

(* What holds of one view holds of the other.                              *)
LEMMA GoodAgree ==
  ASSUME NEW crt, NEW s, NEW st, NEW own, NEW fed, NEW val, Good(crt, s, st, own, fed, val),
         NEW own2, NEW fed2, NEW val2, Agree(s, own, fed, val, own2, fed2, val2)
  PROVE  Good(crt, s, st, own2, fed2, val2)
<1>1. \A k, j : Live(crt, s, k, j) => IsBound(s, k, j)
  BY DEF Live
<1>2. /\ Reachable(crt, s) /\ Apart(crt, s, own) /\ Dropped(crt, s, own, fed)
      /\ Mine(s, own) /\ Valued(crt, s, st, fed, val)
  BY DEF Good
<1>3. \A k, j : IsBound(s, k, j) =>
        /\ j + 1 \in own2[k] => j + 1 \in own[k]
        /\ j + 1 \in fed2[k] <=> j + 1 \in fed[k]
        /\ j + 1 \in fed2[k] => val2[k][j] = val[k][j]
  BY DEF Agree
<1>4. Apart(crt, s, own2)
  BY <1>1, <1>2, <1>3 DEF Apart
<1>5. Dropped(crt, s, own2, fed2)
  BY <1>2, <1>3 DEF Dropped
<1>6. Mine(s, own2)
  BY <1>2, <1>3 DEF Mine
<1>7. Valued(crt, s, st, fed2, val2)
  BY <1>1, <1>2, <1>3 DEF Valued
<1> QED BY <1>2, <1>4, <1>5, <1>6, <1>7 DEF Good

(* Some reads are over.                                                    *)
FewerReads(crt, s, t, own, fed) ==
  /\ \A k, j : IsBound(t, k, j) => IsBound(s, k, j) /\ WireAt(t, k, j) = WireAt(s, k, j)
  /\ \A k, j : Live(crt, t, k, j) => Live(crt, s, k, j)
  /\ \A k, j : IsBound(t, k, j) /\ j + 1 \in own[k] /\ j + 1 \notin fed[k] =>
       Coming(crt, t, k, j + 1) = Coming(crt, s, k, j + 1)

(* The wires still read keep their values.                                 *)
KeepsLive(crt, t, st, st2) ==
  \A k, j : Live(crt, t, k, j) /\ WireAt(t, k, j) \in Keys =>
    Value(st2, WireAt(t, k, j)) = Value(st, WireAt(t, k, j))

(* Reads that are over keep the wires good.                                *)
LEMMA GoodFewer ==
  ASSUME NEW crt, NEW s, NEW st, NEW own, NEW fed, NEW val, Good(crt, s, st, own, fed, val),
         NEW t, FewerReads(crt, s, t, own, fed), NEW st2, KeepsLive(crt, t, st, st2)
  PROVE  Good(crt, t, st2, own, fed, val)
<1>1. \A k, j : Live(crt, t, k, j) => IsBound(t, k, j)
  BY DEF Live
<1>2. /\ Reachable(crt, s) /\ Apart(crt, s, own) /\ Dropped(crt, s, own, fed)
      /\ Mine(s, own) /\ Valued(crt, s, st, fed, val)
  BY DEF Good
<1>3. /\ \A k, j : IsBound(t, k, j) => IsBound(s, k, j) /\ WireAt(t, k, j) = WireAt(s, k, j)
      /\ \A k, j : Live(crt, t, k, j) => Live(crt, s, k, j)
  BY DEF FewerReads
<1>4. \A k, j : IsBound(t, k, j) /\ j + 1 \in own[k] /\ j + 1 \notin fed[k] =>
        Coming(crt, t, k, j + 1) = Coming(crt, s, k, j + 1)
  BY DEF FewerReads
<1>5. Reachable(crt, t)
  BY <1>1, <1>2, <1>3 DEF Reachable
<1>6. Apart(crt, t, own)
  BY <1>1, <1>2, <1>3 DEF Apart
<1>7. Dropped(crt, t, own, fed)
  BY <1>2, <1>3, <1>4 DEF Dropped
<1>8. Mine(t, own)
  BY <1>2, <1>3 DEF Mine
<1>9. ASSUME NEW k, NEW j, Live(crt, t, k, j), j + 1 \in fed[k]
      PROVE  Holds(st2, WireAt(t, k, j), val[k][j])
  <2>1. Holds(st, WireAt(t, k, j), val[k][j])
    BY <1>1, <1>2, <1>3, <1>9 DEF Valued
  <2>2. WireAt(t, k, j) \in Keys => Value(st2, WireAt(t, k, j)) = Value(st, WireAt(t, k, j))
    BY <1>9 DEF KeepsLive
  <2> QED BY <2>1, <2>2 DEF Holds
<1>10. Valued(crt, t, st2, fed, val)
  BY <1>9 DEF Valued
<1> QED BY <1>5, <1>6, <1>7, <1>8, <1>10 DEF Good

(* A wire of the closure's own is written.                                 *)
WritesName(crt, s, st, st2, own, n, i, v) ==
  LET w == WireAt(s, n, i)
  IN  /\ IsBound(s, n, i) /\ i + 1 \in own[n] /\ w \in Wire
      /\ Live(crt, s, n, i) \/ w = UNREACHABLE
      /\ \A h \in Keys : Value(st2, h) = IF h = w THEN v ELSE Value(st, h)

(* The name it is written under has the value.                             *)
NowFed(s, fed, val, n, i, v, fed2, val2) ==
  \A k, j : IsBound(s, k, j) =>
    /\ j + 1 \in fed2[k] <=> j + 1 \in fed[k] \/ (k = n /\ j = i)
    /\ j + 1 \in fed2[k] => val2[k][j] = IF k = n /\ j = i THEN v ELSE val[k][j]

(* A write keeps the wires good.                                           *)
LEMMA GoodWrite ==
  ASSUME NEW crt, NEW s, NEW st, NEW own, NEW fed, NEW val, Good(crt, s, st, own, fed, val),
         NEW st2, NEW n, NEW i, NEW v, WritesName(crt, s, st, st2, own, n, i, v),
         NEW fed2, NEW val2, NowFed(s, fed, val, n, i, v, fed2, val2)
  PROVE  Good(crt, s, st2, own, fed2, val2)
<1> DEFINE w == WireAt(s, n, i)
<1>1. \A k, j : Live(crt, s, k, j) => IsBound(s, k, j)
  BY DEF Live
<1>2. /\ Reachable(crt, s) /\ Apart(crt, s, own) /\ Dropped(crt, s, own, fed)
      /\ Mine(s, own) /\ Valued(crt, s, st, fed, val)
  BY DEF Good
<1>3. /\ IsBound(s, n, i) /\ i + 1 \in own[n] /\ w \in Wire
      /\ Live(crt, s, n, i) \/ w = UNREACHABLE
      /\ \A h \in Keys : Value(st2, h) = IF h = w THEN v ELSE Value(st, h)
  BY DEF WritesName
<1>4. \A k, j : IsBound(s, k, j) =>
        /\ j + 1 \in fed2[k] <=> j + 1 \in fed[k] \/ (k = n /\ j = i)
        /\ j + 1 \in fed2[k] => val2[k][j] = IF k = n /\ j = i THEN v ELSE val[k][j]
  BY DEF NowFed
<1>5. Dropped(crt, s, own, fed2)
  BY <1>2, <1>4 DEF Dropped
<1>6. ASSUME NEW k, NEW j, Live(crt, s, k, j), j + 1 \in fed2[k]
      PROVE  Holds(st2, WireAt(s, k, j), val2[k][j])
  <2>1. CASE k = n /\ j = i
    <3>1. w # UNREACHABLE /\ w \notin Constants
      BY <1>2, <1>3, <1>6, <2>1 DEF Reachable, Mine
    <3>2. w \in Keys
      BY <1>3, <3>1 DEF Wire
    <3>3. Value(st2, w) = v
      BY <1>3, <3>2
    <3>4. val2[k][j] = v
      BY <1>1, <1>4, <1>6, <2>1
    <3> QED BY <2>1, <3>2, <3>3, <3>4 DEF Holds
  <2>2. CASE ~(k = n /\ j = i)
    <3>1. j + 1 \in fed[k] /\ val2[k][j] = val[k][j]
      BY <1>1, <1>4, <1>6, <2>2
    <3>2. Holds(st, WireAt(s, k, j), val[k][j])
      BY <1>2, <1>6, <3>1 DEF Valued
    <3>3. ASSUME WireAt(s, k, j) \in Keys PROVE WireAt(s, k, j) # w
      <4>1. CASE w = UNREACHABLE
        BY <3>3, <4>1, KeysAre
      <4>2. CASE Live(crt, s, n, i)
        BY <1>2, <1>3, <1>6, <2>2, <4>2 DEF Apart
      <4> QED BY <1>3, <4>1, <4>2
    <3>4. WireAt(s, k, j) \in Keys => Value(st2, WireAt(s, k, j)) = Value(st, WireAt(s, k, j))
      BY <1>3, <3>3
    <3> QED BY <3>1, <3>2, <3>4 DEF Holds
  <2> QED BY <2>1, <2>2
<1>7. Valued(crt, s, st2, fed2, val2)
  BY <1>6 DEF Valued
<1> QED BY <1>2, <1>5, <1>7 DEF Good

(* A wire is issued under a new name.                                      *)
IssuesName(crt, s, t, n, i, w) ==
  /\ \A k, j : IsBound(t, k, j) <=> IsBound(s, k, j) \/ (k = n /\ j = i)
  /\ ~IsBound(s, n, i)
  /\ \A k, j : IsBound(s, k, j) => WireAt(t, k, j) = WireAt(s, k, j)
  /\ \A k, j : IsBound(t, k, j) => Coming(crt, t, k, j + 1) = Coming(crt, s, k, j + 1)
  /\ WireAt(t, n, i) = w /\ w \notin Constants
  /\ Coming(crt, t, n, i + 1) # 0 <=> w # UNREACHABLE
  /\ \A k, j : Live(crt, s, k, j) => WireAt(s, k, j) # w \/ w = UNREACHABLE

(* So does a wire that is issued.                                          *)
LEMMA GoodIssue ==
  ASSUME NEW crt, NEW s, NEW st, NEW own, NEW fed, NEW val, Good(crt, s, st, own, fed, val),
         NEW t, NEW n, NEW i, NEW w, IssuesName(crt, s, t, n, i, w),
         NEW st2, \A h \in Keys : h # w => Value(st2, h) = Value(st, h),
         NEW own2, NEW fed2, NEW val2, Agree(s, own, fed, val, own2, fed2, val2), i + 1 \notin fed2[n]
  PROVE  Good(crt, t, st2, own2, fed2, val2)
<1>0. Good(crt, s, st, own2, fed2, val2)
  BY GoodAgree
<1>1. /\ Reachable(crt, s) /\ Apart(crt, s, own2) /\ Dropped(crt, s, own2, fed2)
      /\ Mine(s, own2) /\ Valued(crt, s, st, fed2, val2)
  BY <1>0 DEF Good
<1>2. \A k, j : IsBound(t, k, j) <=> IsBound(s, k, j) \/ (k = n /\ j = i)
  BY DEF IssuesName
<1>3. /\ ~IsBound(s, n, i)
      /\ \A k, j : IsBound(s, k, j) => WireAt(t, k, j) = WireAt(s, k, j)
      /\ \A k, j : IsBound(t, k, j) => Coming(crt, t, k, j + 1) = Coming(crt, s, k, j + 1)
  BY DEF IssuesName
<1>4. /\ WireAt(t, n, i) = w /\ w \notin Constants
      /\ Coming(crt, t, n, i + 1) # 0 <=> w # UNREACHABLE
      /\ \A k, j : Live(crt, s, k, j) => WireAt(s, k, j) # w \/ w = UNREACHABLE
  BY DEF IssuesName
<1>5. \A k, j : Live(crt, t, k, j) <=> Live(crt, s, k, j) \/ (k = n /\ j = i /\ w # UNREACHABLE)
  BY <1>2, <1>3, <1>4 DEF Live
<1>6. \A k, j : Live(crt, s, k, j) => WireAt(t, k, j) = WireAt(s, k, j) /\ ~(k = n /\ j = i)
  BY <1>3 DEF Live
<1>7. Reachable(crt, t)
  BY <1>1, <1>4, <1>5, <1>6 DEF Reachable
<1>8. ASSUME NEW k, NEW j, NEW h, NEW g,
             Live(crt, t, k, j), j + 1 \in own2[k], Live(crt, t, h, g), WireAt(t, k, j) = WireAt(t, h, g)
      PROVE  h = k /\ g = j
  <2>1. CASE Live(crt, s, k, j) /\ Live(crt, s, h, g)
    BY <1>1, <1>6, <1>8, <2>1 DEF Apart
  <2>2. CASE ~Live(crt, s, k, j) /\ Live(crt, s, h, g)
    BY <1>4, <1>5, <1>6, <1>8, <2>2
  <2>3. CASE Live(crt, s, k, j) /\ ~Live(crt, s, h, g)
    BY <1>4, <1>5, <1>6, <1>8, <2>3
  <2>4. CASE ~Live(crt, s, k, j) /\ ~Live(crt, s, h, g)
    BY <1>5, <1>8, <2>4
  <2> QED BY <2>1, <2>2, <2>3, <2>4
<1>9. Apart(crt, t, own2)
  BY <1>8 DEF Apart
<1>10. Dropped(crt, t, own2, fed2)
  <2> SUFFICES ASSUME NEW k, NEW j, IsBound(t, k, j), j + 1 \in own2[k], j + 1 \notin fed2[k],
                      Coming(crt, t, k, j + 1) = 0
               PROVE  WireAt(t, k, j) = UNREACHABLE
    BY DEF Dropped
  <2>1. CASE k = n /\ j = i
    BY <1>4, <2>1
  <2>2. CASE ~(k = n /\ j = i)
    <3>1. IsBound(s, k, j)
      BY <1>2, <2>2
    <3>2. Coming(crt, s, k, j + 1) = 0 /\ WireAt(t, k, j) = WireAt(s, k, j)
      BY <1>3, <3>1
    <3> QED BY <1>1, <3>1, <3>2 DEF Dropped
  <2> QED BY <2>1, <2>2
<1>11. Mine(t, own2)
  BY <1>1, <1>2, <1>3, <1>4 DEF Mine
<1>12. ASSUME NEW k, NEW j, Live(crt, t, k, j), j + 1 \in fed2[k]
       PROVE  Holds(st2, WireAt(t, k, j), val2[k][j])
  <2>1. Live(crt, s, k, j)
    BY <1>5, <1>12
  <2>2. Holds(st, WireAt(s, k, j), val2[k][j]) /\ WireAt(t, k, j) = WireAt(s, k, j)
    BY <1>1, <1>6, <1>12, <2>1 DEF Valued
  <2>3. WireAt(s, k, j) \in Keys => Value(st2, WireAt(s, k, j)) = Value(st, WireAt(s, k, j))
    BY <1>4, <2>1, KeysAre
  <2> QED BY <2>2, <2>3 DEF Holds
<1>13. Valued(crt, t, st2, fed2, val2)
  BY <1>12 DEF Valued
<1> QED BY <1>7, <1>9, <1>10, <1>11, <1>13 DEF Good

(* Wires are passed on: each bound name was bound before, or is a new name *)
(* of a constant or of a wire that was read under a name with a value,     *)
(* which is no longer one of a closure's own.                              *)
OldName(crt, s, t, own, fed, val, own2, fed2, val2, k, j) ==
  /\ IsBound(s, k, j) /\ WireAt(t, k, j) = WireAt(s, k, j)
  /\ Live(crt, t, k, j) => Live(crt, s, k, j)
  /\ j + 1 \in own2[k] => j + 1 \in own[k] /\ Coming(crt, t, k, j + 1) = Coming(crt, s, k, j + 1)
  /\ j + 1 \in fed2[k] <=> j + 1 \in fed[k]
  /\ j + 1 \in fed2[k] => val2[k][j] = val[k][j]

Alias(crt, s, t, fed, val, own2, val2, k, j, h, i) ==
  /\ Live(crt, s, h, i) /\ i + 1 \in fed[h] /\ ~(IsBound(t, h, i) /\ i + 1 \in own2[h])
  /\ WireAt(t, k, j) = WireAt(s, h, i) /\ val2[k][j] = val[h][i]

NewAlias(crt, s, t, fed, val, own2, val2, k, j) ==
  /\ j + 1 \notin own2[k]
  /\ Live(crt, t, k, j) =>
       \/ WireAt(t, k, j) \in Constants /\ val2[k][j] = (WireAt(t, k, j) = TRUE_WIRE)
       \/ \E h, i : Alias(crt, s, t, fed, val, own2, val2, k, j, h, i)

Passes(crt, s, t, own, fed, val, own2, fed2, val2) ==
  \A k, j : IsBound(t, k, j) =>
    \/ OldName(crt, s, t, own, fed, val, own2, fed2, val2, k, j)
    \/ NewAlias(crt, s, t, fed, val, own2, val2, k, j)

(* So do wires that are passed on.                                         *)
LEMMA GoodPass ==
  ASSUME NEW crt, NEW s, NEW st, NEW own, NEW fed, NEW val, Good(crt, s, st, own, fed, val),
         NEW t, NEW own2, NEW fed2, NEW val2, Passes(crt, s, t, own, fed, val, own2, fed2, val2),
         NEW st2, KeepsLive(crt, t, st, st2)
  PROVE  Good(crt, t, st2, own2, fed2, val2)
<1> DEFINE Old(k, j) == OldName(crt, s, t, own, fed, val, own2, fed2, val2, k, j)
           New(k, j) == NewAlias(crt, s, t, fed, val, own2, val2, k, j)
           Al(k, j, h, i) == Alias(crt, s, t, fed, val, own2, val2, k, j, h, i)
<1>1. /\ Reachable(crt, s) /\ Apart(crt, s, own) /\ Dropped(crt, s, own, fed)
      /\ Mine(s, own) /\ Valued(crt, s, st, fed, val)
  BY DEF Good
<1>2. \A k, j : Live(crt, t, k, j) => IsBound(t, k, j)
  BY DEF Live
<1>3. \A k, j : IsBound(t, k, j) => Old(k, j) \/ New(k, j)
  BY DEF Passes
<1>4. \A k, j : Old(k, j) =>
        /\ IsBound(s, k, j) /\ WireAt(t, k, j) = WireAt(s, k, j)
        /\ Live(crt, t, k, j) => Live(crt, s, k, j)
        /\ j + 1 \in own2[k] => j + 1 \in own[k] /\ Coming(crt, t, k, j + 1) = Coming(crt, s, k, j + 1)
        /\ j + 1 \in fed2[k] <=> j + 1 \in fed[k]
        /\ j + 1 \in fed2[k] => val2[k][j] = val[k][j]
  BY DEF OldName
<1>5. \A k, j : New(k, j) =>
        /\ j + 1 \notin own2[k]
        /\ Live(crt, t, k, j) =>
             \/ WireAt(t, k, j) \in Constants /\ val2[k][j] = (WireAt(t, k, j) = TRUE_WIRE)
             \/ \E h, i : Al(k, j, h, i)
  BY DEF NewAlias
<1>6. \A k, j, h, i : Al(k, j, h, i) =>
        /\ Live(crt, s, h, i) /\ i + 1 \in fed[h] /\ ~(IsBound(t, h, i) /\ i + 1 \in own2[h])
        /\ WireAt(t, k, j) = WireAt(s, h, i) /\ val2[k][j] = val[h][i]
  BY DEF Alias
<1> HIDE DEF Old, New, Al
<1>7. ASSUME NEW k, NEW j, Live(crt, t, k, j) PROVE WireAt(t, k, j) # UNREACHABLE
  <2>1. CASE Old(k, j)
    BY <1>1, <1>4, <1>7, <2>1 DEF Reachable
  <2>2. CASE New(k, j)
    <3>1. CASE WireAt(t, k, j) \in Constants
      <4>1. UNREACHABLE \notin Constants
        BY StorageAssumption DEF Constants, TRUE_WIRE, FALSE_WIRE
      <4> QED BY <3>1, <4>1
    <3>2. CASE \E h, i : Al(k, j, h, i)
      BY <1>1, <1>6, <3>2 DEF Reachable
    <3> QED BY <1>5, <1>7, <2>2, <3>1, <3>2
  <2> QED BY <1>2, <1>3, <1>7, <2>1, <2>2
<1>8. ASSUME NEW k, NEW j, NEW h, NEW i,
             Live(crt, t, k, j), j + 1 \in own2[k], Live(crt, t, h, i), WireAt(t, k, j) = WireAt(t, h, i)
      PROVE  h = k /\ i = j
  <2>1. Old(k, j)
    BY <1>2, <1>3, <1>5, <1>8
  <2>2. Live(crt, s, k, j) /\ j + 1 \in own[k] /\ WireAt(t, k, j) = WireAt(s, k, j) /\ IsBound(s, k, j)
    BY <1>4, <1>8, <2>1
  <2>3. CASE Old(h, i)
    <3>1. Live(crt, s, h, i) /\ WireAt(t, h, i) = WireAt(s, h, i)
      BY <1>4, <1>8, <2>3
    <3>2. WireAt(s, k, j) = WireAt(s, h, i)
      BY <1>8, <2>2, <3>1
    <3> QED BY <1>1, <2>2, <3>1, <3>2 DEF Apart
  <2>4. CASE New(h, i)
    <3>1. WireAt(t, h, i) \notin Constants
      BY <1>1, <1>8, <2>2 DEF Mine
    <3>2. PICK h2, i2 : Al(h, i, h2, i2)
      BY <1>5, <1>8, <2>4, <3>1
    <3>3. h2 = k /\ i2 = j
      <4>1. Live(crt, s, h2, i2) /\ WireAt(t, h, i) = WireAt(s, h2, i2)
        BY <1>6, <3>2
      <4>2. WireAt(s, k, j) = WireAt(s, h2, i2)
        BY <1>8, <2>2, <4>1
      <4> QED BY <1>1, <2>2, <4>1, <4>2 DEF Apart
    <3>4. ~(IsBound(t, k, j) /\ j + 1 \in own2[k])
      BY <1>6, <3>2, <3>3
    <3> QED BY <1>2, <1>8, <3>4
  <2> QED BY <1>2, <1>3, <1>8, <2>3, <2>4
<1>9. Dropped(crt, t, own2, fed2)
  BY <1>1, <1>3, <1>4, <1>5 DEF Dropped
<1>10. Mine(t, own2)
  BY <1>1, <1>3, <1>4, <1>5 DEF Mine
<1>11. ASSUME NEW k, NEW j, Live(crt, t, k, j), j + 1 \in fed2[k]
       PROVE  Holds(st2, WireAt(t, k, j), val2[k][j])
  <2>1. CASE WireAt(t, k, j) \in Constants /\ val2[k][j] = (WireAt(t, k, j) = TRUE_WIRE)
    BY <2>1 DEF Holds
  <2>2. CASE Holds(st, WireAt(t, k, j), val2[k][j])
    <3>1. WireAt(t, k, j) \in Keys => Value(st2, WireAt(t, k, j)) = Value(st, WireAt(t, k, j))
      BY <1>11 DEF KeepsLive
    <3> QED BY <2>2, <3>1 DEF Holds
  <2>3. CASE Old(k, j)
    <3>1. Holds(st, WireAt(t, k, j), val2[k][j])
      BY <1>1, <1>4, <1>11, <2>3 DEF Valued
    <3> QED BY <2>2, <3>1
  <2>4. CASE New(k, j)
    <3>1. CASE \E h, i : Al(k, j, h, i)
      <4>1. PICK h, i : Al(k, j, h, i)
        BY <3>1
      <4>2. Holds(st, WireAt(s, h, i), val[h][i])
        BY <1>1, <1>6, <4>1 DEF Valued
      <4> QED BY <1>6, <2>2, <4>1, <4>2
    <3> QED BY <1>5, <1>11, <2>1, <2>4, <3>1
  <2> QED BY <1>2, <1>3, <1>11, <2>3, <2>4
<1>12. Valued(crt, t, st2, fed2, val2)
  BY <1>11 DEF Valued
<1>13. Reachable(crt, t) /\ Apart(crt, t, own2)
  BY <1>7, <1>8 DEF Reachable, Apart
<1> QED BY <1>9, <1>10, <1>12, <1>13 DEF Good
==============================================================================
