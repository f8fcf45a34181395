------------------------------- MODULE MCApi -------------------------------
(* Instances of Api for TLC.                                                 *)
EXTENDS Api, TLC

CONSTANTS w1, w2, k1, k2

ApiSymmetry == Permutations({w1, w2}) \cup Permutations({k1, k2})
=============================================================================
