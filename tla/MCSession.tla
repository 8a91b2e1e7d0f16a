----------------------------- MODULE MCSession -----------------------------
(* Instances of Session for the model checker.                             *)
EXTENDS Session, TLC

Symmetry == Permutations(Users)
=============================================================================
