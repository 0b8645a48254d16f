----------------------------- MODULE MCServices -----------------------------
(* Two games; the two entries of the service on different dispatchers. *)
EXTENDS Services, TLC

CONSTANTS g1, g2, d1, d2

KeyOnEach == [k \in Key |-> IF k = "name" THEN d1 ELSE d2]
=============================================================================
