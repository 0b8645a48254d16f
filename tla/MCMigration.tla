----------------------------- MODULE MCMigration -----------------------------
(* Two games with a space each, and an entity that moves between them. *)
EXTENDS Migration

CONSTANTS g1, g2, e1, s1, s2, c1, c2, c3

MCHome == [e \in Entity |-> IF e = s2 THEN g2 ELSE g1]
MCFirstConn == [g \in Game |-> IF g = g1 THEN c1 ELSE c2]

\* A behaviour has one failure, or two of the freezes, destroys and expiries.
FewMishaps ==
  LET spent(k) == Limits[k] - budget[k]
  IN 2 * spent("failure") + spent("freeze") + spent("destroy")
     + (MaxExpiries - limits.expiry) <= 2
=============================================================================
