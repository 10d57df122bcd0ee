-------------------------------- MODULE Eagerly --------------------------------
(***************************************************************************)
(* Operators applied to values.  The chains of field operations that these *)
(* modules build are long, and an argument evaluated where it is used, at  *)
(* the bottom of the operator, would nest one chain in the next.           *)
(***************************************************************************)
OnValue(op(_), x) == CHOOSE r \in {op(v) : v \in {x}} : TRUE
OnValues(op(_, _), x, y) == CHOOSE r \in {op(v, w) : v \in {x}, w \in {y}} : TRUE
================================================================================
