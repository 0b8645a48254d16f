------------------------------ MODULE MCEntity ------------------------------
(* One root with a map and a list below it, two callbacks and a repeat timer. *)
EXTENDS Entity
=============================================================================
