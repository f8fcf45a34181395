------------------------------- MODULE MCCache -------------------------------
(* Instances of Cache for TLC.                                               *)
EXTENDS Cache, TLC

CONSTANTS k1, k2, k3

\* k1 and k2 share a slot but not a lock; k1 and k3 a lock but not a slot.
MCHash == (k1 :> 0) @@ (k2 :> 3) @@ (k3 :> 2)
\* k1 and k2 share a slot but not a lock.
MCHash2 == (k1 :> 0) @@ (k2 :> 3)

\* Workers and cells are interchangeable: no definition tells one from another
\* (the CHOOSE of AbsMap has one candidate, by UniqueKeys).
Symmetry == Permutations(Proc) \cup Permutations(Cell)

=============================================================================
