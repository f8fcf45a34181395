-------------------------------- MODULE MCSma --------------------------------
(* Instances of Sma for TLC.                                                 *)
EXTENDS Sma, TLC

Symmetry == Permutations(Proc)
=============================================================================
