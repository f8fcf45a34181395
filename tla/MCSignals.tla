------------------------------ MODULE MCSignals ------------------------------
(* Instances of Signals for TLC.                                             *)
EXTENDS Signals

CONSTANTS segv, quit
MCSignal == {segv, quit}
MCIniSegments == {2}
=============================================================================
