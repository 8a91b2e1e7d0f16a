----------------------------- MODULE MCRecovery -----------------------------
(* Instances of Recovery for the model checker.                            *)
EXTENDS Recovery

=============================================================================
