------------------------------ MODULE MCClients ------------------------------
(* Clients, entities on two dispatchers. *)
EXTENDS Clients, TLC

CONSTANTS k1, k2, boot, avatar, d1, d2

OneDispatcher == [e \in Entity |-> d1]
TwoDispatchers == [e \in Entity |-> IF e = avatar THEN d2 ELSE d1]
Sym == Permutations({k1, k2})
=============================================================================
