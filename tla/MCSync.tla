------------------------------- MODULE MCSync -------------------------------
(* Instances of Sync for the model checker.  Devices and values are        *)
(* interchangeable: no action and no property names one.                   *)
EXTENDS Sync, TLC

Symmetry == Permutations(Devices) \cup Permutations(Values) \cup Permutations(Names)
=============================================================================
