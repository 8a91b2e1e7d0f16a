--------------------------- MODULE MCRemoteDelete ---------------------------
(* Instances of RemoteDelete for the model checker.                        *)
EXTENDS RemoteDelete
=============================================================================
