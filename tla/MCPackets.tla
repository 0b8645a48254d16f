------------------------------ MODULE MCPackets ------------------------------
EXTENDS Packets, TLC
CONSTANTS p1, p2, b1, b2, b3, b4, c1, c2
MCCapacity == (b1 :> 1) @@ (b2 :> 2) @@ (b3 :> 2) @@ (b4 :> 2)
Symmetry == Permutations({p1, p2}) \cup Permutations({b2, b3, b4}) \cup Permutations({c1, c2})
=============================================================================
