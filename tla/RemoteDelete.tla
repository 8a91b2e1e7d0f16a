---------------------------- MODULE RemoteDelete ----------------------------
(***************************************************************************)
(* Deleting and restoring secrets on the control plane                     *)
(* (cli/secret_remote.go): one by name, or every one the device does not   *)
(* have, after a dry run whose token names what will be deleted.  The      *)
(* records are deleted one request at a time; when one fails, the failed   *)
(* one, which the server may have deleted all the same, and then the ones  *)
(* before it are restored.  Other members delete and restore meanwhile.    *)
(***************************************************************************)
EXTENDS Naturals, FiniteSetsExt

CONSTANTS Count,   \* active records of the workspace when it is first seen
          Faults   \* subset of {"refuse", "request", "answer", "listing", "kill"}

ASSUME RemoteDeleteAssumption ==
    /\ Count \in Nat
    /\ Faults \subseteq {"refuse", "request", "answer", "listing", "kill"}

Records == 1 .. Count  \* in the order of their paths

VARIABLES remote, \* remote[r]: "active", or who deleted it: "mine" (this device), "theirs"
          local,  \* records of secrets this device has active, and those it can unwrap
          token,  \* what the last dry run named, and whether its 15 minutes have passed
          job     \* the command under way, or what the last one reported

vars == <<remote, local, token, job>>

NoToken == [plan |-> {}, expired |-> TRUE]
Free == job.at = "idle"
Reported(report, failures) == [at |-> "idle", report |-> report, failures |-> failures]

Init == /\ remote = [r \in Records |-> "active"]
        /\ \E has, opens \in SUBSET Records : local = [has |-> has, opens |-> opens]
        /\ token = NoToken
        /\ job = Reported("none", {})

-----------------------------------------------------------------------------
(* Planning.                                                               *)

ActiveRecords == {r \in Records : remote[r] = "active"}

\* remoteOnlyDeleteCandidates: all the device does not have, or those of them
\* no key of this device opens.
Candidates(mode) ==
    {r \in ActiveRecords \ local.has : mode = "unwrapped" => r \notin local.opens}

Plans == {Candidates("all"), Candidates("unwrapped")} \cup {{r} : r \in ActiveRecords}

\* A dry run asks the control plane whether each delete would be accepted,
\* and prints a token for the plan.
DryRun(plan) ==
    /\ Free
    /\ plan # {} /\ plan \in Plans
    /\ token' = [plan |-> plan, expired |-> FALSE]
    /\ UNCHANGED <<remote, local, job>>

\* (bug: any token that has not expired)
AnyConfirms(plan) == ~token.expired

\* The token is of this very plan.
Confirms(plan) == ~token.expired /\ token.plan = plan

\* Confirmed by token; --yes and the typed confirmation ask for less.  A
\* command that names a record resolves it and deletes it without a preflight.
BeginDelete(plan, bulk) ==
    /\ Free
    /\ plan # {}
    /\ Confirms(plan)
    /\ IF bulk THEN plan \in {Candidates("all"), Candidates("unwrapped")} ELSE \E r \in ActiveRecords : plan = {r}
    /\ job' = [at |-> IF bulk THEN "preflight" ELSE "delete", bulk |-> bulk, plan |-> plan,
               deleted |-> {}, failures |-> {}]
    /\ UNCHANGED <<remote, local, token>>

\* A preflight that is refused ends the command with nothing deleted.
Preflight ==
    /\ job.at = "preflight"
    /\ \/ job.plan \subseteq ActiveRecords /\ job' = [job EXCEPT !.at = "delete"]
       \/ /\ ~(job.plan \subseteq ActiveRecords) \/ Faults \cap {"refuse", "request"} # {}
          /\ job' = Reported("refused", {})
    /\ UNCHANGED <<remote, local, token>>

-----------------------------------------------------------------------------
(* Requests.                                                               *)

Target == Min(job.plan \ job.deleted)

\* A delete of the active record r is applied, or refused, or does not arrive;
\* the answer to one that is applied may be lost.
Applied(r, outcome) ==
    \/ outcome = "ok" /\ remote[r] = "active" /\ remote' = [remote EXCEPT ![r] = "mine"]
    \/ outcome = "error" /\ "answer" \in Faults /\ remote[r] = "active"
         /\ remote' = [remote EXCEPT ![r] = "mine"]
    \/ outcome = "error" /\ UNCHANGED remote
         /\ (remote[r] # "active" \/ Faults \cap {"refuse", "request"} # {})

\* (bug: only what is known to be deleted is restored)
ToRollbackKnown(r) == [job EXCEPT !.at = "earlier"]

\* The record whose delete failed may be deleted: it is restored first.
ToRollback(r) == [job EXCEPT !.at = "target"]

\* (bug: the record whose delete failed and those after it are taken for deleted)
WithDeletedPlan(r) == [job EXCEPT !.deleted = job.plan]

WithDeleted(r) == [job EXCEPT !.deleted = @ \cup {r}]

Delete ==
    /\ job.at = "delete"
    /\ \E outcome \in {"ok", "error"} :
         /\ Applied(Target, outcome)
         /\ job' = IF outcome = "ok"
                   THEN IF job.plan = job.deleted \cup {Target} THEN Reported("deleted", {})
                        ELSE WithDeleted(Target)
                   ELSE IF job.bulk THEN ToRollback(Target) ELSE Reported("unknown", {})
    /\ UNCHANGED <<local, token>>

\* A restore of r: an active record answers HTTP 409.
Restores(r, outcome) ==
    \/ outcome = "ok" /\ remote[r] # "active" /\ remote' = [remote EXCEPT ![r] = "active"]
    \/ outcome = "409" /\ remote[r] = "active" /\ UNCHANGED remote
    \/ outcome = "error" /\ "request" \in Faults /\ UNCHANGED remote
    \/ outcome = "error" /\ "answer" \in Faults /\ remote[r] # "active"
         /\ remote' = [remote EXCEPT ![r] = "active"]

RestoreTarget ==
    /\ job.at = "target"
    /\ \E outcome \in {"ok", "409", "error"} :
         /\ Restores(Target, outcome)
         /\ job' = [job EXCEPT !.at = IF outcome = "409" THEN "check" ELSE "earlier",
                               !.failures = IF outcome = "error" THEN {Target} ELSE {}]
    /\ UNCHANGED <<local, token>>

\* listVisibleRemoteSecrets(st, origin, accessToken, workspace, ...): the
\* control plane answers the session's token, about the token's workspaces.
Answers(accessToken, workspace) ==
    accessToken = "token" /\ workspace = "workspace" /\ "listing" \notin Faults

\* remoteSecretRecordActive has (workspace, accessToken) and passes them on in
\* this order.
CheckTarget ==
    /\ job.at = "check"
    /\ job' = [job EXCEPT !.at = "earlier",
                          !.failures = IF Answers("workspace", "token") /\ remote[Target] = "active"
                                       THEN {} ELSE {Target}]
    /\ UNCHANGED <<remote, local, token>>

\* (bug: a restore that fails is passed over)
WithFailureForgotten(r, outcome) == job.failures

WithFailure(r, outcome) == job.failures \cup (IF outcome = "ok" THEN {} ELSE {r})

\* The earlier ones, the last one first; here an active record is a failure.
RestoreEarlier ==
    /\ job.at = "earlier"
    /\ job.deleted # {}
    /\ LET r == Max(job.deleted) IN
       \E outcome \in {"ok", "409", "error"} :
         /\ Restores(r, outcome)
         /\ job' = [job EXCEPT !.deleted = @ \ {r}, !.failures = WithFailure(r, outcome)]
    /\ UNCHANGED <<local, token>>

EndRollback ==
    /\ job.at = "earlier"
    /\ job.deleted = {}
    /\ job' = Reported(IF job.failures = {} THEN "undone" ELSE "rollback failed", job.failures)
    /\ UNCHANGED <<remote, local, token>>

\* secret restore: one request.
RestoreCommand(r) ==
    /\ Free
    /\ remote[r] # "active"
    /\ \E outcome \in {"ok", "error"} :
         /\ Restores(r, outcome)
         /\ job' = Reported(IF outcome = "ok" THEN "restored" ELSE "unknown", {})
    /\ UNCHANGED <<local, token>>

-----------------------------------------------------------------------------
(* Meanwhile.                                                              *)

OtherDeletes(r) ==
    /\ remote[r] = "active"
    /\ remote' = [remote EXCEPT ![r] = "theirs"]
    /\ UNCHANGED <<local, token, job>>

OtherRestores(r) ==
    /\ remote[r] # "active"
    /\ remote' = [remote EXCEPT ![r] = "active"]
    /\ UNCHANGED <<local, token, job>>

\* Between commands of this device: it adds, pulls or removes the secret.
LocalChanges(r) ==
    /\ Free
    /\ local' \in {[has |-> local.has \cup {r}, opens |-> local.opens \cup {r}],
                   [local EXCEPT !.has = @ \ {r}]}
    /\ UNCHANGED <<remote, token, job>>

TokenExpires ==
    /\ ~token.expired
    /\ token' = [token EXCEPT !.expired = TRUE]
    /\ UNCHANGED <<remote, local, job>>

Kill ==
    /\ "kill" \in Faults
    /\ ~Free
    /\ job' = Reported("none", {})
    /\ UNCHANGED <<remote, local, token>>

Next ==
    \/ \E plan \in Plans : DryRun(plan)
    \/ \E plan \in Plans, bulk \in BOOLEAN : BeginDelete(plan, bulk)
    \/ Preflight \/ Delete \/ RestoreTarget \/ CheckTarget \/ RestoreEarlier \/ EndRollback
    \/ \E r \in Records : \/ RestoreCommand(r) \/ OtherDeletes(r) \/ OtherRestores(r)
                          \/ LocalChanges(r)
    \/ TokenExpires \/ Kill

Spec == Init /\ [][Next]_vars

-----------------------------------------------------------------------------
(* Properties.                                                             *)

TypeOK ==
    /\ remote \in [Records -> {"active", "mine", "theirs"}]
    /\ local \in [has : SUBSET Records, opens : SUBSET Records]
    /\ token \in [plan : SUBSET Records, expired : BOOLEAN]
    /\ ~Free => /\ job.deleted \subseteq job.plan /\ job.failures \subseteq job.plan
                /\ job.at \in {"delete", "target", "check"} => job.deleted # job.plan

\* A command that reports its deletions undone leaves none of its records
\* deleted by this device, the one whose answer was lost included
\* (rollbackRemoteSecretDeletes).
UndoneIsUndone ==
    [][ ~Free /\ Free' /\ job'.report = "undone" => \A r \in job.plan : remote'[r] # "mine" ]_vars

\* A command that says that its rollback failed names every record that is
\* still deleted by it.
FailuresAreNamed ==
    [][ ~Free /\ Free' /\ job'.report = "rollback failed" =>
          {r \in job.plan : remote'[r] = "mine"} \subseteq job'.failures ]_vars

\* Every record a delete takes away was named by the dry run whose token
\* confirmed it, and in bulk is of a secret this device does not have, even if
\* secrets came and went between the dry run and the delete.
OnlyWhatWasShown ==
    [][ \A r \in Records : remote[r] = "active" /\ remote'[r] = "mine" =>
          r \in token.plan /\ (job.bulk => r \notin local.has) ]_vars

\* What a bulk delete reports of its rollback is true.
RollbackReportsTruly == []TypeOK /\ UndoneIsUndone /\ FailuresAreNamed

\* When the restore of the failed target answers that it is active, and it is,
\* the rollback counts it as restored ("checked failed target",
\* secret_remote.go).  It does not: the check mixes up two arguments.
CheckedTargetCounts ==
    [][ job.at = "check" /\ remote[Target] = "active" /\ job'.at = "earlier" => job'.failures = {} ]_vars
=============================================================================
