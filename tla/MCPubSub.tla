------------------------------ MODULE MCPubSub ------------------------------
(* Two subscribers, and subjects of which each is a prefix of the next. *)
EXTENDS PubSub

CONSTANTS e1, e2, a, b

MCSubject == {<< >>, <<a>>, <<a, b>>}
=============================================================================
