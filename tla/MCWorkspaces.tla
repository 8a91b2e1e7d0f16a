---------------------------- MODULE MCWorkspaces ----------------------------
(* Instances of Workspaces for the model checker.                          *)
EXTENDS Workspaces, TLC

Symmetry == Permutations(Devices) \cup Permutations(Names) \cup Permutations(Keys)
=============================================================================
