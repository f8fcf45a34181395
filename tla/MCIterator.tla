----------------------------- MODULE MCIterator -----------------------------
(* Instances of Iterator for TLC.                                            *)
EXTENDS Iterator, TLC

CONSTANTS k1, k2, k3, k4

\* k1 and k2 collide; every slot may be empty while the walk passes it.
MCSlotOf  == (k1 :> 0) @@ (k2 :> 0) @@ (k3 :> 1) @@ (k4 :> 2)
MCSlotOf3 == (k1 :> 0) @@ (k2 :> 0) @@ (k3 :> 1)
=============================================================================
