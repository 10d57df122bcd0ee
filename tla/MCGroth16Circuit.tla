---------------------------- MODULE MCGroth16Circuit ---------------------------
(* The curve of the family of BN254 with x = 7.                            *)
EXTENDS Groth16Circuit

MCAteLoopCount == <<0, 0, -1, 0, 1, 1>>   \* 44 = 6 x + 2
MCCoeffB2 == <<32931, 96344>>
MCG1Generator == <<3, 17170>>
MCG2Generator == << <<42753, 86818>>, <<63979, 39785>> >>
MCGeneratorPairing ==
  << << <<71990, 28956>>, <<46167, 56436>>, <<50710, 78858>> >>,
     << <<70694, 39946>>, <<85572, 81254>>, <<10017, 24829>> >> >>

(* The pairing given for the generators is one of order Order.             *)
ASSUME PairingAssumption ==
  /\ MCGeneratorPairing # Fq12!ONE
  /\ Fq12!ark_power(MCGeneratorPairing, Order) = Fq12!ONE

MCVerifyingKey ==
  [alpha |-> 3, beta |-> 4, gamma |-> 5, delta |-> 6, gamma_abc |-> <<7, 8, 11>>]
MCStatements ==
  {[public |-> <<>>, b |-> 3, c |-> 9],
   [public |-> <<0>>, b |-> 1, c |-> 50000],
   [public |-> <<99000, 1025>>, b |-> 7, c |-> 2]}
MCPairingTasks ==
  {[kind |-> kind, points |-> points] :
     kind \in {"const_q", "const_q_affine", "fast"},
     points \in {<< <<1, 1>> >>, << <<2, 5>>, <<99708, 10>> >>, << <<3, 4>>, <<7, 1>> >>}}
===============================================================================
