-------------------------------- MODULE MCVsss --------------------------------
(* Scalars below 251; three input wires in chunks of two, so that the last *)
(* chunk is shorter.  No two of the values that are random in the code     *)
(* coincide.                                                               *)
EXTENDS VsssSetup

MCOddY(P) == ((P * 37) % Q) % 2 = 1
MCChallengeHash(r, key, message) ==
  LET mix(S) == LET low == CHOOSE a \in S : \A b \in S : a <= b IN low * low + 3 * low
  IN ((mix(r) * 17 + mix(key) * 5 + message * 31) % (Q - 1)) + 1
MCCoefficient(l, k) == (l * l * 37 + l * 11 + k * k * 19 + l * k * 53 + 5) % Q
MCNonce(l) == (l * l * 23 + l * 61 + 9) % Q

(* Every value of either chunk.                                            *)
MCValues == {[w \in 1 .. NumInputs |-> w \in ones] : ones \in {{}, {1, 3}, {2}, {1, 2, 3}}}

ASSUME Arithmetic == SharingCorrect

ASSUME Distinct == NoCoincidence /\ NoDegeneracy
===============================================================================
