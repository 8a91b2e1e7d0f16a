-------------------------------- MODULE Sync --------------------------------
(***************************************************************************)
(* Devices that share the secrets of one workspace through the control     *)
(* plane: add, rm, pull, pull --force, push and sync (cli/sync.go,         *)
(* cli/sync_pull.go, cli/sync_push.go and the reconciliation they call in  *)
(* store/store.go).  A device's commands hold its state lock from load to  *)
(* exit, so a device runs one at a time; the commands of different devices *)
(* interleave at every request.                                            *)
(*                                                                         *)
(* A secret is a history: for each version number nothing, or a status and *)
(* an envelope.  An envelope is the pair of the device that sealed it and  *)
(* the value inside: two devices that seal the same value make different   *)
(* envelopes.  What the import does to data keys is in module Import.      *)
(***************************************************************************)
EXTENDS Naturals, FiniteSets, FiniteSetsExt

CONSTANTS Devices,      \* the devices of the workspace
          Names,        \* scope/name of the secrets
          Values,       \* plaintexts
          MaxVersion,   \* bound: version numbers
          MaxDeletions, \* bound: deletions on the control plane, per name
          Commands,     \* commands the devices run: subset of {"pull", "force", "sync", "push"}
          Environment   \* what else happens: subset of {"stop", "answer", "hidden", "readonly", "restore"}

ASSUME SyncAssumption ==
    /\ MaxVersion \in Nat \ {0} /\ MaxDeletions \in Nat
    /\ Commands \subseteq {"pull", "force", "sync", "push"}
    /\ Environment \subseteq {"stop", "answer", "hidden", "readonly", "restore"}

VARIABLES
    history,   \* history[d][n][v]: the secrets in d's state file
    ledger,    \* ledger[d][n]: d's tombstone of n, and the versions d created since it reconciled it
    job,       \* job[d]: the command d runs
    remote,    \* remote[n][v]: the control plane's records
    tombstone, \* tombstone[n]: the control plane's tombstone of n
    trusted    \* the devices the workspace trusts

vars == <<history, ledger, job, remote, tombstone, trusted>>

Versions == 1 .. MaxVersion
Envelopes == Devices \X Values
Absent == [status |-> "none", env |-> <<>>]
Unknown == [status |-> "none", env |-> <<>>, keys |-> {}]
NoTombstone == [through |-> 0, at |-> 0]
NoEntry == [through |-> 0, at |-> 0, since |-> {}]
Idle == [at |-> "idle"]

Has(secret, v) == secret[v].status # "none"
Present(secret) == {v \in Versions : Has(secret, v)}
Active(secret) == {v \in Versions : secret[v].status = "active"}
Newest(secret) == Max(Present(secret) \cup {0})
Value(version) == version.env[2]
Free(d) == job[d] = Idle

-----------------------------------------------------------------------------
Init == /\ history = [d \in Devices |-> [n \in Names |-> [v \in Versions |-> Absent]]]
        /\ ledger = [d \in Devices |-> [n \in Names |-> NoEntry]]
        /\ job = [d \in Devices |-> Idle]
        /\ remote = [n \in Names |-> [v \in Versions |-> Unknown]]
        /\ tombstone = [n \in Names |-> NoTombstone]
        /\ \E d \in Devices : trusted = {d}

(***************************************************************************)
(* Local commands.                                                         *)
(***************************************************************************)

\* (bug: ignores the tombstone)
NextVersionLocal(d, n) == Newest(history[d][n]) + 1

\* One more than every version d has, and above what it knows to be deleted.
NextVersion(d, n) == Max({Newest(history[d][n]), ledger[d][n].through}) + 1

Superseded(version) == IF version.status = "active" THEN [version EXCEPT !.status = "stale"] ELSE version

\* (bug: leaves the old version active)
WithActiveToo(secret, v, env) ==
    [w \in Versions |-> IF w = v THEN [status |-> "active", env |-> env] ELSE secret[w]]

\* secret with version v active and sealed in env, every other version no longer active
WithActive(secret, v, env) ==
    [w \in Versions |-> IF w = v THEN [status |-> "active", env |-> env] ELSE Superseded(secret[w])]

Add(d, n, x) ==
    LET v == NextVersion(d, n) IN
    /\ Free(d)
    /\ v <= MaxVersion
    /\ history' = [history EXCEPT ![d][n] = WithActive(@, v, <<d, x>>)]
    /\ ledger' = [ledger EXCEPT ![d][n].since = IF ledger[d][n].through > 0 THEN @ \cup {v} ELSE {}]
    /\ UNCHANGED <<job, remote, tombstone, trusted>>

RemoveSecret(d, n) ==
    /\ Free(d)
    /\ Present(history[d][n]) # {}
    /\ history' = [history EXCEPT ![d][n] = [v \in Versions |-> Absent]]
    /\ ledger' = [ledger EXCEPT ![d][n].since = {}]
    /\ UNCHANGED <<job, remote, tombstone, trusted>>

(***************************************************************************)
(* The receiving half: pull, pull --force, and the first half of sync.     *)
(***************************************************************************)

\* Differs after every publication, deletion or restore of n (Aligned compares it).
Seen(n) == [active |-> Active(remote[n]), present |-> Present(remote[n]), deletions |-> tombstone[n].at]

\* The bundle: the tombstones and active records d may see.
Bundle(sees) == [sees |-> sees,
                 tombstone |-> [n \in Names |-> IF n \in sees THEN tombstone[n] ELSE NoTombstone],
                 seen |-> [n \in sees |-> Seen(n)],
                 record |-> [n \in sees |-> IF Active(remote[n]) = {} THEN Unknown
                                            ELSE remote[n][Max(Active(remote[n]))]]]

Fetch(d, mode) ==
    /\ Free(d)
    /\ d \in trusted
    /\ mode \in Commands \ {"push"}
    /\ \E sees \in SUBSET Names :
         /\ "hidden" \in Environment \/ sees = Names
         /\ job' = [job EXCEPT ![d] = [at |-> "fetched", mode |-> mode, bundle |-> Bundle(sees)]]
    /\ UNCHANGED <<history, ledger, remote, tombstone, trusted>>

\* (bug: an omitted tombstone is taken to be reversed)
ReconciledAsTold(own, told) ==
    [through |-> told.through, at |-> told.at, since |-> own.since]

\* A tombstone the bundle omits stays.  One it names replaces the entry; what
\* d created since its last reconciliation still counts as created after this
\* one if the entry was higher or is of the same deletion.
Reconciled(own, told) ==
    IF told.through = 0 THEN own
    ELSE [through |-> told.through, at |-> told.at,
          since |-> IF \/ own.through > told.through
                       \/ own.through = told.through /\ own.at = told.at
                    THEN own.since ELSE {}]

Merged(d) == [n \in Names |-> Reconciled(ledger[d][n], job[d].bundle.tombstone[n])]

Retired(secret, through) ==
    [v \in Versions |-> IF v <= through /\ Has(secret, v)
                        THEN [secret[v] EXCEPT !.status = "deleted"] ELSE secret[v]]

Buried(d) == [n \in Names |-> Retired(history[d][n], Merged(d)[n].through)]

\* What the import makes of the active version v of n, sealed in env, when the
\* device has secret: it skips, refuses or takes it.
Skips(mode, secret, v) == mode = "sync" /\ \E w \in Active(secret) : w > v

\* (bug: a sync that is forced replaces an equal version unseen)
RefusesInPull(mode, secret, v, env) ==
    mode = "pull" /\ Present(secret) # {} /\ Active(secret) # {v}

Refuses(mode, secret, v, env) ==
    LET live == Active(secret)
        differs == v \in live /\ Value(secret[v]) # env[2]
    IN  CASE mode = "force" -> FALSE
          [] mode = "sync"  -> differs
          [] OTHER -> /\ Present(secret) # {}
                      /\ \/ live = {} /\ ~(secret[v].status = "deleted" /\ secret[v].env = env)
                         \/ live # {} /\ v \notin live
                         \/ differs

Import(d) ==
    LET b == job[d].bundle
        secrets == Buried(d)
        known == {n \in b.sees : b.seen[n].active # {}}
        v(n) == Max(b.seen[n].active)
        locked == {n \in known : d \notin b.record[n].keys}
        tried == {n \in known \ locked : ~Skips(job[d].mode, secrets[n], v(n))}
        refused == {n \in tried : Refuses(job[d].mode, secrets[n], v(n), b.record[n].env)}
        taken == IF refused # {} \/ (job[d].mode = "sync" /\ locked # {}) THEN {} ELSE tried
    IN  [refused |-> refused, partial |-> locked # {}, taken |-> taken,
         secrets |-> [n \in Names |-> IF n \in taken
                                      THEN WithActive(secrets[n], v(n), b.record[n].env)
                                      ELSE secrets[n]]]

\* A conflict fails the command; so does a record without a key for this
\* device, in a sync.  Nothing but the old ledger is saved.
AbsorbFails(d) ==
    /\ job[d].at = "fetched"
    /\ LET i == Import(d) IN i.refused # {} \/ (i.partial /\ job[d].mode = "sync")
    /\ job' = [job EXCEPT ![d] = Idle]
    /\ UNCHANGED <<history, ledger, remote, tombstone, trusted>>

\* Tombstones, then the import, which saves what it took or had to skip, then
\* the save that ends the receiving half.  A pull that could take nothing puts
\* the ledger back in memory and saves that.  sync goes on to publish.
Absorb(d) ==
    LET i == Import(d) IN
    /\ job[d].at = "fetched"
    /\ i.refused = {} /\ ~(i.partial /\ job[d].mode = "sync")
    /\ IF i.partial /\ i.taken = {}
       THEN UNCHANGED <<history, ledger>>
       ELSE /\ history' = [history EXCEPT ![d] = i.secrets]
            /\ ledger' = [ledger EXCEPT ![d] = Merged(d)]
    /\ job' = [job EXCEPT ![d] = IF job[d].mode # "sync" THEN Idle
                                 ELSE [at |-> "pulled", sees |-> job[d].bundle.sees,
                                       seen |-> job[d].bundle.seen]]
    /\ UNCHANGED <<remote, tombstone, trusted>>

\* The last save fails, or the command is killed before it: what the import
\* saved stays, and with it tombstones of a pull that took nothing.
AbsorbHalf(d) ==
    LET i == Import(d) IN
    /\ "stop" \in Environment
    /\ job[d].at = "fetched"
    /\ i.refused = {} /\ ~(i.partial /\ job[d].mode = "sync")
    /\ i.partial \/ i.taken # {}
    /\ history' = [history EXCEPT ![d] = i.secrets]
    /\ ledger' = [ledger EXCEPT ![d] = Merged(d)]
    /\ job' = [job EXCEPT ![d] = Idle]
    /\ UNCHANGED <<remote, tombstone, trusted>>

(***************************************************************************)
(* The publishing half: push, and the second half of sync.                 *)
(***************************************************************************)

\* What the plan makes of the active version v of n (reconcilePushVersionsWithTombstones).
Buries(n, v) == v <= tombstone[n].through

Recreates(d, n, v) ==
    /\ tombstone[n].through > 0
    /\ ~Buries(n, v)
    /\ Newest(remote[n]) <= tombstone[n].through

\* (bug: does not ask when the version was created)
MayRecreateAny(d, n, v) == ledger[d][n].through = tombstone[n].through

MayRecreate(d, n, v) ==
    /\ ledger[d][n].through = tombstone[n].through
    /\ v \in ledger[d][n].since

Matches(d, n, v) == remote[n][v].status = "active" /\ remote[n][v].env = history[d][n][v].env

Blocked(d, n, v) ==
    \/ Buries(n, v)
    \/ Recreates(d, n, v) /\ ~MayRecreate(d, n, v)
    \/ Has(remote[n], v) /\ ~Matches(d, n, v)

\* Which of names the user of the device may write: the control plane says it
\* anew to each plan.  (A service account writes none.)
Writable(names) == IF "readonly" \in Environment THEN SUBSET names ELSE {names}

Published(d, n) == CHOOSE v \in Versions : v \in Active(history[d][n])
Offered(d, names) == {n \in names : Active(history[d][n]) # {}}

Uploads(d, names) == {n \in Offered(d, names) : LET v == Published(d, n) IN
                                                 ~Has(remote[n], v) /\ Newest(remote[n]) < v}
\* (bug: a record that exists is skipped)
RewrapsNothing(d, names) == {}

Rewraps(d, names) == {n \in Offered(d, names) : LET v == Published(d, n) IN
                                                 Has(remote[n], v) /\ ~(trusted \subseteq remote[n][v].keys)}

Refused(d, names) == \E n \in Offered(d, names) : Blocked(d, n, Published(d, n))
Settled(d, names) == Uploads(d, names) \cup Rewraps(d, names) = {}

\* The plan for the active versions of names, unless all of it is refused or there
\* is nothing to do: one batch with the uploads, the keys of records that lack
\* some, and for each secret that is to be created again the deletion it comes after.
Planned(d, names, seen) ==
    IF Refused(d, names) \/ Settled(d, names) THEN Idle
    ELSE [at |-> "planned", writes |-> names, seen |-> seen, keys |-> trusted,
          uploads |-> [n \in Uploads(d, names) |-> Published(d, n)],
          rewraps |-> [n \in Rewraps(d, names) |-> Published(d, n)],
          recreates |-> [n \in {m \in Uploads(d, names) : Recreates(d, m, Published(d, m))} |->
                            tombstone[n].through]]

\* push fails unless every secret it is to publish may be written.
Push(d) ==
    /\ Free(d)
    /\ d \in trusted
    /\ "push" \in Commands
    /\ \E names \in (SUBSET Names) \ {{}} : \E writes \in Writable(names) :
          job' = [job EXCEPT ![d] = IF writes = names THEN Planned(d, names, <<>>) ELSE Idle]
    /\ UNCHANGED <<history, ledger, remote, tombstone, trusted>>

\* sync publishes what may be written, and leaves out the rest (writablePushRefs):
\* where nothing may be, it is done.
Publish(d) ==
    /\ job[d].at = "pulled"
    /\ \E writes \in Writable(job[d].sees) :
          job' = [job EXCEPT ![d] = Planned(d, writes, job[d].seen)]
    /\ UNCHANGED <<history, ledger, remote, tombstone, trusted>>

\* The control plane takes the batch or none of it.
Takes(d) ==
    LET p == job[d] IN
    /\ \A n \in DOMAIN p.uploads :
         /\ p.uploads[n] > Newest(remote[n])
         /\ p.uploads[n] > tombstone[n].through
         /\ (tombstone[n].through > 0 /\ Newest(remote[n]) <= tombstone[n].through) =>
               n \in DOMAIN p.recreates /\ p.recreates[n] = tombstone[n].through
    /\ \A n \in DOMAIN p.rewraps : remote[n][p.rewraps[n]].status = "active"

Stored(d, n) ==
    LET p == job[d] IN
    IF n \in DOMAIN p.uploads
    THEN [v \in Versions |->
            IF v = p.uploads[n]
            THEN [status |-> "active", env |-> history[d][n][v].env, keys |-> p.keys]
            ELSE Superseded(remote[n][v])]
    ELSE IF n \in DOMAIN p.rewraps
    THEN [remote[n] EXCEPT ![p.rewraps[n]].keys = @ \cup p.keys]
    ELSE remote[n]

Commit(d) ==
    /\ job[d].at = "planned"
    /\ Takes(d)
    /\ remote' = [n \in Names |-> Stored(d, n)]
    /\ job' = [job EXCEPT ![d] = Idle]
    /\ UNCHANGED <<history, ledger, tombstone, trusted>>

\* The refusal of the control plane (also when the permission was taken back
\* since the plan), or no answer.
CommitFails(d) ==
    /\ job[d].at = "planned"
    /\ ~Takes(d) \/ Environment \cap {"answer", "readonly"} # {}
    /\ job' = [job EXCEPT ![d] = Idle]
    /\ UNCHANGED <<history, ledger, remote, tombstone, trusted>>

\* A kill, or a save that fails: the state file stays as it is.
Stop(d) ==
    /\ "stop" \in Environment
    /\ ~Free(d)
    /\ job' = [job EXCEPT ![d] = Idle]
    /\ UNCHANGED <<history, ledger, remote, tombstone, trusted>>

(***************************************************************************)
(* The rest of the workspace, at the control plane: a member deletes or    *)
(* restores a secret, or trusts a device.                                  *)
(***************************************************************************)
Delete(n) ==
    /\ tombstone[n].at < MaxDeletions
    /\ Active(remote[n]) # {}
    /\ LET v == Max(Active(remote[n])) IN
         /\ remote' = [remote EXCEPT ![n][v].status = "deleted"]
         /\ tombstone' = [tombstone EXCEPT ![n] = [through |-> v, at |-> @.at + 1]]
    /\ UNCHANGED <<history, ledger, job, trusted>>

Restore(n) ==
    /\ "restore" \in Environment
    /\ Active(remote[n]) = {}
    /\ \E v \in Versions :
         /\ remote[n][v].status = "deleted"
         /\ remote' = [remote EXCEPT ![n][v].status = "active"]
         /\ tombstone' = [tombstone EXCEPT ![n].through =
                             Max({w \in 1 .. v - 1 : remote[n][w].status = "deleted"} \cup {0})]
    /\ UNCHANGED <<history, ledger, job, trusted>>

Trust(d) ==
    /\ d \notin trusted
    /\ trusted' = trusted \cup {d}
    /\ UNCHANGED <<history, ledger, job, remote, tombstone>>

-----------------------------------------------------------------------------
Next == \/ \E d \in Devices :
             \/ \E n \in Names : RemoveSecret(d, n) \/ \E x \in Values : Add(d, n, x)
             \/ \E mode \in Commands : Fetch(d, mode)
             \/ AbsorbFails(d) \/ Absorb(d) \/ AbsorbHalf(d)
             \/ Push(d) \/ Publish(d) \/ Commit(d) \/ CommitFails(d)
             \/ Stop(d) \/ Trust(d)
        \/ \E n \in Names : Delete(n) \/ Restore(n)

Spec == Init /\ [][Next]_vars

-----------------------------------------------------------------------------
(***************************************************************************)
(* Properties.                                                             *)
(***************************************************************************)

\* Types; at most one version of a secret is active, on a device as on the
\* control plane (AddSecretBytes and the import demote the others).
TypeOK ==
    /\ trusted \subseteq Devices
    /\ \A d \in Devices, n \in Names :
         /\ ledger[d][n].through \in 0 .. MaxVersion /\ ledger[d][n].since \subseteq Versions
         /\ Cardinality(Active(history[d][n])) <= 1
         /\ \A v \in Present(history[d][n]) : history[d][n][v].env \in Envelopes
    /\ \A n \in Names :
         /\ tombstone[n].through \in 0 .. MaxVersion
         /\ Cardinality(Active(remote[n])) <= 1
         /\ \A v \in Present(remote[n]) : remote[n][v].env \in Envelopes /\ remote[n][v].keys # {}

\* pull and sync never change or lose the live value of a secret, unless it was
\* deleted or the user forced the pull: a record replaces it at the same version
\* only if it is equal inside, and otherwise goes on top of it.
ValuesKept ==
    [][\A d \in Devices, n \in Names :
          (job[d].at = "fetched" /\ job[d].mode # "force") =>
             \A v \in Active(history[d][n]) :
                /\ Has(history'[d][n], v)
                /\ Value(history'[d][n][v]) = Value(history[d][n][v])]_vars

\* d has the live version of n at the control plane, or one that goes on top of it.
Received(d, n) ==
    \A v \in Active(remote[n]) :
       \E w \in Active(history[d][n]) : w > v \/ (w = v /\ history[d][n][w].env = remote[n][v].env)

\* A sync ends well: its plan for the names writes leaves nothing to do, or its
\* batch is taken.  (A push has seen nothing.)
Succeeds(d, writes) ==
    /\ job'[d] = Idle
    /\ \/ /\ job[d].at = "pulled"
          /\ writes \in Writable(job[d].sees) /\ ~Refused(d, writes) /\ Settled(d, writes)
       \/ /\ job[d].at = "planned"
          /\ writes = job[d].writes /\ Commit(d)

\* "Finished reconciliation": when a sync succeeds, then of every secret that
\* nobody else published, deleted or restored since the bundle was read the
\* device has the control plane's live version or a newer one.  If the plan let
\* its user write the secret, the same version is active on both sides, in the
\* same envelope, with a key for every device trusted at the plan (SKILL.md:
\* sync "publishes only local versions the signed-in human is allowed to write").
Aligned ==
    [][\A d \in Devices, writes \in SUBSET Names : Succeeds(d, writes) =>
         \A n \in DOMAIN job[d].seen : Seen(n) = job[d].seen[n] =>
             /\ Received(d, n)'
             /\ n \in writes =>
                  /\ Active(history'[d][n]) = Active(remote'[n])
                  /\ \A v \in Active(remote'[n]) :
                       /\ history'[d][n][v].env = remote'[n][v].env
                       /\ (IF job[d].at = "planned" THEN job[d].keys ELSE trusted)
                             \subseteq remote'[n][v].keys]_vars

\* A secret that is deleted on the control plane is published again only by a
\* device that has reconciled that very deletion, in a version it created since
\* ("requires a new version created after deletion-ledger reconciliation").
RecreatedKnowingly ==
    [][\A n \in Names, v \in Versions :
          (/\ ~Has(remote[n], v) /\ Has(remote'[n], v)
           /\ tombstone[n].through > 0 /\ Newest(remote[n]) <= tombstone[n].through) =>
             \E d \in Devices : /\ job[d].at = "planned" /\ n \in DOMAIN job[d].uploads
                               /\ v \in ledger[d][n].since
                               /\ ledger[d][n].at = tombstone[n].at]_vars

\* A device never comes to believe that less is deleted: an older bundle, or one
\* that hides the secret, or a failed pull that puts the ledger back, does not
\* lower what the state file has recorded.  (MaxDeletions = 1: a second deletion
\* after a restored record may be of a lower version, and is then taken.)
FloorKept ==
    [][\A d \in Devices, n \in Names : ledger'[d][n].through >= ledger[d][n].through]_vars

\* No device has a live version at or below what it knows to be deleted, not
\* after rm and add and not after an import, unless the control plane has taken
\* that deletion back (MaxDeletions = 1: a second one reaches it with a pull).
NothingLiveIsDeleted ==
    \A d \in Devices, n \in Names :
        \A v \in Active(history[d][n]) :
            v > ledger[d][n].through \/ v > tombstone[n].through

\* A deletion that a device has learnt of stays learnt, and none of its secrets
\* is live below it.
DeletionsHold == [](TypeOK /\ NothingLiveIsDeleted) /\ FloorKept
=============================================================================
