---------------------------- MODULE MCAuditLedger ----------------------------
(***************************************************************************)
(* Small vaults for AuditLedger: one or two processes.       *)
(***************************************************************************)
EXTENDS AuditLedger

OneProc == {1}
TwoProcs == {1, 2}
=============================================================================
