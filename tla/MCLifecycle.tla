---------------------------- MODULE MCLifecycle ----------------------------
(* Instances of Lifecycle for TLC.                                           *)
EXTENDS Lifecycle, TLC

CONSTANTS e1, e2, k1, w1, w2

\* Two extensions that use one name, two names, or one that is reserved.
MCNamings == {(e1 :> "msgpack") @@ (e2 :> n) : n \in {"msgpack", "other", "default"}}

WorkerSymmetry == Permutations({w1, w2})
=============================================================================
