---- MODULE MCDispatcher ----
(* The dispatcher with any peer traffic: two games, a gate, one entity. *)
EXTENDS Dispatcher, TLC

CONSTANTS g1, g2, t1, e1, c1, c2

Sym == Permutations({g1, g2}) \cup Permutations({c1, c2})
====
