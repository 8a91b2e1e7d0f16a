---------------------------- MODULE MCVaultStore ----------------------------
(* Small vaults for TLC. *)
EXTENDS VaultStore, TLC

CONSTANTS p1, p2, s1, s2

Processes == {p1, p2}
TwoSecrets == {s1, s2}
OneWorkspace == {TwoSecrets}

AllCommands == {"init", "enroll", "add", "rm", "rekey", "bind", "rename",
                "revoke", "wipe", "audit"}

AllFaults == {"crash", "store", "write", "delete"}

Symmetry == Permutations(Processes) \cup Permutations(TwoSecrets)
=============================================================================
