--------------------------- MODULE HalfGates_proofs ---------------------------
(***************************************************************************)
(* Garbling one gate and evaluating it on the active labels of its inputs  *)
(* gives the active label of its output: for every gate type, every label, *)
(* every offset, every hash and every gate index.  The half-gates rest on  *)
(* one fact about the table of alphas: a half-gate's output differs from   *)
(* alpha C exactly when both inputs differ from their alphas.              *)
(***************************************************************************)
EXTENDS HalfGates, TLAPS

(* The algebra of labels that the proofs use.                              *)
LEMMA XorType == \A x, y \in Labels : x (+) y \in Labels
BY LabelsAssumption

LEMMA XorCommutes == \A x, y \in Labels : x (+) y = y (+) x
BY LabelsAssumption

LEMMA XorAssoc == \A x, y, z \in Labels : (x (+) y) (+) z = x (+) (y (+) z)
BY LabelsAssumption

LEMMA XorTwice == \A x, y \in Labels : (x (+) y) (+) y = x
<1> SUFFICES ASSUME NEW x \in Labels, NEW y \in Labels
             PROVE  (x (+) y) (+) y = x
  OBVIOUS
<1>1. (x (+) y) (+) y = x (+) (y (+) y)
  BY XorAssoc
<1>2. y (+) y = Zero /\ x (+) Zero = x
  BY LabelsAssumption
<1> QED BY <1>1, <1>2

(* The last two terms trade places.                                        *)
LEMMA XorSwap == \A x, y, z \in Labels : (x (+) y) (+) z = (x (+) z) (+) y
<1> SUFFICES ASSUME NEW x \in Labels, NEW y \in Labels, NEW z \in Labels
             PROVE  (x (+) y) (+) z = (x (+) z) (+) y
  OBVIOUS
<1>1. (x (+) y) (+) z = x (+) (y (+) z)
  BY XorAssoc
<1>2. (x (+) z) (+) y = x (+) (z (+) y)
  BY XorAssoc
<1>3. y (+) z = z (+) y
  BY XorCommutes
<1> QED BY <1>1, <1>2, <1>3

(* A label and its flip.                                                   *)
LEMMA SelectType ==
  ASSUME NEW l \in Labels, NEW d \in Labels, NEW p \in BOOLEAN
  PROVE  Select(l, d, p) \in Labels
BY XorType DEF Select

(* Two flips are one, or none.                                             *)
LEMMA SelectSelect ==
  ASSUME NEW l \in Labels, NEW d \in Labels, NEW p \in BOOLEAN, NEW q \in BOOLEAN
  PROVE  Select(Select(l, d, p), d, q) = Select(l, d, p # q)
<1>1. CASE p /\ q
  <2>1. Select(l, d, p) = l (+) d /\ Select(l (+) d, d, q) = (l (+) d) (+) d
    BY <1>1 DEF Select
  <2>2. Select(l, d, p # q) = l
    BY <1>1 DEF Select
  <2> QED BY <2>1, <2>2, XorTwice
<1>2. CASE ~p \/ ~q
  BY <1>2 DEF Select
<1> QED BY <1>1, <1>2

(* Flips pass through the exclusive or.                                    *)
LEMMA SelectXor ==
  ASSUME NEW l \in Labels, NEW m \in Labels, NEW d \in Labels,
         NEW p \in BOOLEAN, NEW q \in BOOLEAN
  PROVE  Select(l, d, p) (+) Select(m, d, q) = Select(l (+) m, d, p # q)
<1>0. l (+) m \in Labels /\ l (+) d \in Labels /\ m (+) d \in Labels
  BY XorType
<1>1. l (+) (m (+) d) = (l (+) m) (+) d
  BY XorAssoc
<1>2. (l (+) d) (+) m = (l (+) m) (+) d
  BY XorSwap
<1>3. (l (+) d) (+) (m (+) d) = l (+) m
  <2>1. (l (+) d) (+) (m (+) d) = ((l (+) d) (+) m) (+) d
    BY <1>0, XorAssoc
  <2>2. ((l (+) d) (+) m) (+) d = ((l (+) m) (+) d) (+) d
    BY <1>2
  <2>3. ((l (+) m) (+) d) (+) d = l (+) m
    BY <1>0, XorTwice
  <2> QED BY <2>1, <2>2, <2>3
<1>4. CASE p /\ q
  BY <1>3, <1>4 DEF Select
<1>5. CASE p /\ ~q
  BY <1>2, <1>5 DEF Select
<1>6. CASE ~p /\ q
  BY <1>1, <1>6 DEF Select
<1>7. CASE ~p /\ ~q
  BY <1>7 DEF Select
<1> QED BY <1>4, <1>5, <1>6, <1>7

(* A label meets itself and vanishes, but for its flip.                    *)
LEMMA SelectBoth ==
  ASSUME NEW l \in Labels, NEW m \in Labels, NEW d \in Labels, NEW p
  PROVE  l (+) Select(m (+) m, d, p) = Select(l, d, p)
<1>1. m (+) m = Zero /\ l (+) Zero = l
  BY LabelsAssumption
<1>2. Zero (+) d = d
  BY LabelsAssumption
<1> QED BY <1>1, <1>2 DEF Select

(* The table of alphas: a half-gate is alpha C, unless both inputs differ  *)
(* from their alphas.                                                      *)
LEMMA AlphaForm ==
  ASSUME NEW g \in HalfGateTypes, NEW x \in BOOLEAN, NEW y \in BOOLEAN
  PROVE  /\ x = AlphaA(g) => Truth(g, x, y) = AlphaC(g)
         /\ x # AlphaA(g) => Truth(g, x, y) = ((AlphaB(g) # y) # AlphaC(g))
         /\ Truth(g, x, y) \in BOOLEAN
         /\ AlphaA(g) \in BOOLEAN /\ AlphaB(g) \in BOOLEAN /\ AlphaC(g) \in BOOLEAN
<1>1. CASE g = "And"
  BY <1>1 DEF Truth, AlphaA, AlphaB, AlphaC
<1>2. CASE g = "Nand"
  BY <1>2 DEF Truth, AlphaA, AlphaB, AlphaC
<1>3. CASE g = "Nimp"
  BY <1>3 DEF Truth, AlphaA, AlphaB, AlphaC
<1>4. CASE g = "Imp"
  BY <1>4 DEF Truth, AlphaA, AlphaB, AlphaC
<1>5. CASE g = "Ncimp"
  BY <1>5 DEF Truth, AlphaA, AlphaB, AlphaC
<1>6. CASE g = "Cimp"
  BY <1>6 DEF Truth, AlphaA, AlphaB, AlphaC
<1>7. CASE g = "Nor"
  BY <1>7 DEF Truth, AlphaA, AlphaB, AlphaC
<1>8. CASE g = "Or"
  BY <1>8 DEF Truth, AlphaA, AlphaB, AlphaC
<1> QED BY <1>1, <1>2, <1>3, <1>4, <1>5, <1>6, <1>7, <1>8 DEF HalfGateTypes

(* What evaluating gate g is to give.                                      *)
Correct(g, a0, b0, d, x, y, id) ==
  Degarble(g, GarbleCiphertext(g, a0, b0, d, id), Select(a0, d, x), x, Select(b0, d, y), id)
    = Select(GarbleLabel(g, a0, b0, d, id), d, Truth(g, x, y))

LEMMA FreeGateCorrect ==
  ASSUME NEW g \in FreeGates, NEW a0 \in Labels, NEW b0 \in Labels, NEW d \in Labels,
         NEW x \in BOOLEAN, NEW y \in BOOLEAN, NEW id \in 0 .. MaxGates
  PROVE  Correct(g, a0, b0, d, x, y, id)
<1>1. CASE g = "Xor"
  <2>1. Select(a0, d, x) (+) Select(b0, d, y) = Select(a0 (+) b0, d, x # y)
    BY SelectXor
  <2> QED BY <1>1, <2>1 DEF Correct, Degarble, GarbleLabel, Truth
<1>2. CASE g = "Xnor"
  <2>1. Select(a0, d, x) (+) Select(b0, d, y) = Select(a0 (+) b0, d, x # y)
    BY SelectXor
  <2>2. a0 (+) b0 \in Labels
    BY XorType
  <2>3. Select(Select(a0 (+) b0, d, TRUE), d, x = y) = Select(a0 (+) b0, d, TRUE # (x = y))
    BY <2>2, SelectSelect
  <2>4. Select(a0 (+) b0, d, TRUE) = (a0 (+) b0) (+) d
    BY DEF Select
  <2>5. (TRUE # (x = y)) = (x # y)
    OBVIOUS
  <2> QED BY <1>2, <2>1, <2>3, <2>4, <2>5 DEF Correct, Degarble, GarbleLabel, Truth
<1>3. CASE g = "Not"
  <2>1. Select(Select(a0, d, TRUE), d, ~x) = Select(a0, d, TRUE # ~x)
    BY SelectSelect
  <2>2. Select(a0, d, TRUE) = a0 (+) d
    BY DEF Select
  <2>3. (TRUE # ~x) = x
    OBVIOUS
  <2> QED BY <1>3, <2>1, <2>2, <2>3 DEF Correct, Degarble, GarbleLabel, Truth
<1> QED BY <1>1, <1>2, <1>3 DEF FreeGates

LEMMA HalfGateCorrect ==
  ASSUME NEW g \in HalfGateTypes, NEW a0 \in Labels, NEW b0 \in Labels, NEW d \in Labels,
         NEW x \in BOOLEAN, NEW y \in BOOLEAN, NEW id \in 0 .. MaxGates
  PROVE  Correct(g, a0, b0, d, x, y, id)
<1> DEFINE hs == HashSelected(g, a0, d, id)
           ho == HashOther(g, a0, d, id)
           sb == Select(b0, d, AlphaB(g))
           b == Select(b0, d, y)
<1>1. AlphaA(g) \in BOOLEAN /\ AlphaB(g) \in BOOLEAN /\ AlphaC(g) \in BOOLEAN
  BY AlphaForm
<1>2. hs \in Labels /\ ho \in Labels
  <2>1. Select(a0, d, AlphaA(g)) \in Labels /\ Select(a0, d, ~AlphaA(g)) \in Labels
    BY <1>1, SelectType
  <2> QED BY <2>1, HashAssumption DEF HashSelected, HashOther
<1>3. sb \in Labels /\ b \in Labels
  BY <1>1, SelectType
<1>4. /\ GarbleLabel(g, a0, b0, d, id) = Select(hs, d, AlphaC(g))
      /\ GarbleCiphertext(g, a0, b0, d, id) = (hs (+) ho) (+) sb
  BY DEF GarbleLabel, GarbleCiphertext, HalfGateTypes, FreeGates
<1>5. \A ct : Degarble(g, ct, Select(a0, d, x), x, b, id)
        = IF x # AlphaA(g) THEN (ct (+) HashOf(Select(a0, d, x), id)) (+) b
                           ELSE HashOf(Select(a0, d, x), id)
  BY DEF Degarble, HalfGateTypes
<1>6. CASE x = AlphaA(g)
  <2>1. HashOf(Select(a0, d, x), id) = hs
    BY <1>6 DEF HashSelected
  <2>2. Select(Select(hs, d, AlphaC(g)), d, AlphaC(g)) = Select(hs, d, AlphaC(g) # AlphaC(g))
    <3> HIDE DEF hs
    <3> QED BY <1>1, <1>2, SelectSelect
  <2>3. Select(hs, d, AlphaC(g) # AlphaC(g)) = hs
    BY DEF Select
  <2>4. Truth(g, x, y) = AlphaC(g)
    BY <1>6, AlphaForm
  <2> QED BY <1>4, <1>5, <1>6, <2>1, <2>2, <2>3, <2>4 DEF Correct
<1>7. CASE x # AlphaA(g)
  <2>1. HashOf(Select(a0, d, x), id) = ho
    <3>1. x = ~AlphaA(g)
      BY <1>1, <1>7
    <3> QED BY <3>1 DEF HashOther
  <2>2. (((hs (+) ho) (+) sb) (+) ho) (+) b = hs (+) (sb (+) b)
    <3> HIDE DEF hs, ho, sb, b
    <3>1. hs (+) ho \in Labels /\ hs (+) sb \in Labels
      BY <1>2, <1>3, XorType
    <3>2. (hs (+) ho) (+) sb = (hs (+) sb) (+) ho
      BY <1>2, <1>3, XorSwap
    <3>3. ((hs (+) sb) (+) ho) (+) ho = hs (+) sb
      BY <1>2, <3>1, XorTwice
    <3>4. (hs (+) sb) (+) b = hs (+) (sb (+) b)
      BY <1>2, <1>3, XorAssoc
    <3> QED BY <3>2, <3>3, <3>4
  <2>3. sb (+) b = Select(b0 (+) b0, d, AlphaB(g) # y)
    BY <1>1, SelectXor
  <2>4. hs (+) Select(b0 (+) b0, d, AlphaB(g) # y) = Select(hs, d, AlphaB(g) # y)
    <3> HIDE DEF hs
    <3> QED BY <1>2, SelectBoth
  <2>5. Select(Select(hs, d, AlphaC(g)), d, Truth(g, x, y))
          = Select(hs, d, AlphaC(g) # Truth(g, x, y))
    <3> HIDE DEF hs
    <3> QED BY <1>1, <1>2, AlphaForm, SelectSelect
  <2>6. (AlphaC(g) # Truth(g, x, y)) = (AlphaB(g) # y)
    BY <1>1, <1>7, AlphaForm
  <2> QED BY <1>4, <1>5, <1>7, <2>1, <2>2, <2>3, <2>4, <2>5, <2>6 DEF Correct
<1> QED BY <1>6, <1>7

(* The evaluator of any gate ends up with the garbler's label of the       *)
(* gate's value: degarble_gate undoes garble_gate.                         *)
THEOREM GateCorrect ==
  ASSUME NEW g \in GateTypes, NEW a0 \in Labels, NEW b0 \in Labels, NEW d \in Labels,
         NEW x \in BOOLEAN, NEW y \in BOOLEAN, NEW id \in 0 .. MaxGates
  PROVE  Correct(g, a0, b0, d, x, y, id)
BY FreeGateCorrect, HalfGateCorrect DEF GateTypes
=============================================================================
