---------------------------- MODULE MCAuditGate ----------------------------
(* Small vaults and few commands for TLC. *)
EXTENDS AuditGate, TLC

CONSTANTS p1, s1, s2

OneProcess == {p1}
Secrets == {s1, s2}
TwoWorkspaces == {{s1}, {s2}}

AllCommands == {"get", "run", "mount"}
AllFaults == {"network", "write", "crash"}

Symmetry == Permutations(Secrets)
=============================================================================
