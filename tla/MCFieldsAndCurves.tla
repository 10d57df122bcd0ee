-------------------------- MODULE MCFieldsAndCurves ---------------------------
EXTENDS FieldsAndCurves

(* Both zeros, their neighbours, the middle, and Montgomery's one.         *)
Corners == {0, 1, 25, 52, 102, 103}
MCFq2Inputs == Corners \X Corners
MCFq6Inputs == {<<<<1, 0>>, <<0, 103>>, <<5, 9>> >>, <<<<0, 0>>, <<0, 0>>, <<103, 0>> >>,
                <<<<102, 3>>, <<103, 103>>, <<0, 0>> >>, <<<<25, 0>>, <<0, 0>>, <<0, 0>> >>,
                <<<<77, 41>>, <<13, 98>>, <<64, 29>> >>, <<<<0, 17>>, <<102, 102>>, <<1, 1>> >>}
(* Invertible: with this modulus 9 + u has a square root, and Fq12 is only *)
(* a ring.                                                                 *)
MCFq12Inputs == {<<a, b>> \in MCFq6Inputs \X MCFq6Inputs :
                   a # b /\ a[1][1] # 0 /\ b[1][1] \notin {1, 25}}
MCG1Base == <<2, 42>>
MCCoeffBG2 == <<1, 1>>
MCG2Base == << <<28, 75>>, <<64, 102>> >>
===============================================================================
