------------------------------- MODULE MCLocks -------------------------------
(* Instances of Locks for TLC.                                               *)
EXTENDS Locks, TLC

CONSTANTS t1, t2, t3

\* A writer against two readers whose locks may overlap for ever, one of which
\* also takes the SMA lock for sma_info.
MCOpsOf == (t1 :> {"store", "malloc"}) @@ (t2 :> {"read", "info"}) @@ (t3 :> {"info", "smainfo"})
=============================================================================
