----------------------------- MODULE MCCluster -----------------------------
(* Two games and their dispatcher, one entity. *)
EXTENDS Cluster, TLC

CONSTANTS g1, g2, e1, c1, c2, c3, c4

Sym == Permutations({g1, g2})

\* A behaviour has up to three events: freezes, loads, failures to load, destroys,
\* and crashes or lost connections. One that freezes and loads has no other, and
\* goes on only as long as the dispatcher was not misled: this is for SingleCopy.
FewEvents ==
  LET spent(k) == Limits[k] - budget[k]
      other == spent("failedLoad") + spent("destroy") + spent("failure")
  IN /\ spent("freeze") + spent("load") + other <= 3
     /\ spent("freeze") > 0 /\ spent("load") > 0
       => ~misled /\ other + spent("failedFreeze") = 0
=============================================================================
