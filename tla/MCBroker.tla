------------------------------ MODULE MCBroker ------------------------------
(* Two requests and one process for TLC. *)
EXTENDS Broker, TLC

CONSTANTS r1, r2

Requests == {r1, r2}
OneRequest == {r1}

Symmetry == Permutations(Requests)
=============================================================================
