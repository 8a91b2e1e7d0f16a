----------------------------- MODULE AuditGate -----------------------------
(***************************************************************************)
(* The gate every secret passes before its value leaves the vault.         *)
(*                                                                         *)
(* get, run, env and mount append an "allowed" event to the local ledger   *)
(* and save it.  Where the envelope's audit mode is strict, the control    *)
(* plane must also acknowledge the event within a time limit; where it is  *)
(* buffered, the event is sent now if that works and later if not.  None   *)
(* of these commands holds the vault's lock, so other commands change      *)
(* policies, modes, secrets and keys while they run: each save may be      *)
(* refused because the state file is no longer the one that was loaded.    *)
(*                                                                         *)
(* A save is one step here; VaultStore shows that it is.                   *)
(***************************************************************************)
EXTENDS Naturals, FiniteSets

CONSTANTS
  Proc,         \* processes that read secrets
  Secret,       \* the secrets of the vault
  Workspace,    \* the workspaces bound to the control plane, as sets of secrets
  Commands,     \* the commands a process may be started with
  MaxCommands,  \* bound: commands ever started
  MaxChanges,   \* bound: changes made by other commands
  Faults        \* what may go wrong: "network", "write", "crash"

ASSUME ConstantsAssumption ==
  /\ Workspace \subseteq SUBSET Secret
  /\ \A v, w \in Workspace : v = w \/ v \cap w = {}
  /\ Commands \subseteq {"get", "run", "mount"}
  /\ MaxCommands \in Nat
  /\ MaxChanges \in Nat

VARIABLES
  disk,     \* the state file
  keys,     \* the secrets whose active data key is in the keystore
  proc,     \* what each process has in memory
  remote,   \* the events the control plane has recorded
  started,  \* commands started so far
  changes   \* changes made by other commands so far

\* History: what was released, and under which event.
VARIABLE released

vars == <<disk, keys, proc, remote, started, changes, released>>

-----------------------------------------------------------------------------
(* Events, state files and processes.                                      *)

\* An event is named by the command that appended it, the secret and the
\* result: a command appends at most one of each.  A "failed" event blocks the
\* "allowed" one of its command and secret when the acknowledgement failed.
Event ==
  [by: Nat, secret: Secret, result: {"allowed", "denied", "failed"},
   blocks: BOOLEAN, acked: BOOLEAN]

\* What is uploaded of an event, and what its digest covers: an
\* acknowledgement counts only for the same content.
Upload(e) == [e EXCEPT !.acked = FALSE]

\* No session, a person's, or a service account's.
Link == {"none", "user", "account"}

StateFile ==
  [stamp:   Nat,                \* counts the files written, stands for the bytes
   events:  SUBSET Event,       \* the audit ledger
   link:    Link,               \* the control-plane session
   granted: SUBSET Secret,      \* what the service account's policies allow
   strict:  SUBSET Secret,      \* the secrets under a strict envelope
   kept:    SUBSET Secret]      \* the secrets that have an active version

Phase == {"idle", "checking", "saving strict", "posting", "marking", "blocking",
          "buffering", "syncing", "keeping", "reading", "finishing", "recording"}

Process ==
  [phase: Phase,
   cmd:   {"none", "get", "run", "mount"},
   id:    Nat,                  \* numbers the command
   wants: SUBSET Secret,        \* the secrets it is to release
   todo:  SUBSET Workspace,     \* batches still to be posted
   left:  SUBSET Secret,        \* secrets still to be decrypted
   fails: BOOLEAN,              \* it ends once its events are synced
   mem:   StateFile]            \* the state it loaded, and changed since

\* live: the state file was still the one the command loaded.
Released == [secret: Secret, by: Nat, cmd: {"get", "run", "mount"},
             strict: BOOLEAN, live: BOOLEAN]

TypeOK ==
  /\ disk \in StateFile
  /\ keys \subseteq Secret
  /\ proc \in [Proc -> Process]
  /\ \A p \in Proc : proc[p].todo # {} => proc[p].phase = "posting"
  /\ \A e \in remote : e \in Event /\ ~e.acked
  /\ started \in 0 .. MaxCommands
  /\ changes \in 0 .. MaxChanges
  /\ released \subseteq Released

\* A vault that was pulled.
Vault(link, strict) ==
  [stamp |-> 0, events |-> {}, link |-> link, granted |-> IF link = "account" THEN Secret ELSE {},
   strict |-> strict, kept |-> Secret]

Idle ==
  [phase |-> "idle", cmd |-> "none", id |-> 0, wants |-> {}, todo |-> {},
   left |-> {}, fails |-> FALSE, mem |-> Vault("none", {})]

Init ==
  /\ disk \in {Vault(link, strict) : link \in Link \ {"none"}, strict \in SUBSET Secret}
  /\ keys = Secret
  /\ proc = [p \in Proc |-> Idle]
  /\ remote = {}
  /\ started = 0
  /\ changes = 0
  /\ released = {}

-----------------------------------------------------------------------------
(* Operators on events.                                                    *)

Made(r, S, result, blocks) ==
  {[by |-> r.id, secret |-> s, result |-> result, blocks |-> blocks, acked |-> FALSE] :
     s \in S}

\* CheckPolicy: a person at the device may read everything, a service account
\* what its policies grant.
Allowed(f) == IF f.link = "account" THEN f.granted ELSE Secret

\* The secrets of the command by their resolved audit mode.
Strict(r) == r.wants \cap r.mem.strict
Buffered(r) == r.wants \ r.mem.strict

\* The events of the strict batch.
Batch(r) == {e \in r.mem.events : e.by = r.id /\ e.result = "allowed" /\ e.secret \in Strict(r)}

\* An event the control plane can attribute: its secret's workspace is bound.
Attributable(e) == e.secret \in UNION Workspace

\* pendingRuntimeAuditEvents.
Pending(f) == {e \in f.events : f.link # "none" /\ ~e.acked /\ Attributable(e)}

InWorkspace(E, w) == {e \in E : e.secret \in w}

\* Mutant: every event sent counts as acknowledged.
MarkedAll(E, acks) == {[e EXCEPT !.acked = TRUE] : e \in E}

\* MarkAuditEventsRemoteAcked, given the uploads that were acknowledged.
Marked(E, acks) == {[e EXCEPT !.acked = @ \/ Upload(e) \in acks] : e \in E}

-----------------------------------------------------------------------------
(* Steps of a process.                                                     *)

\* Mutant: the save does not look at what the file has become.
SaveBlindly(p, events, good, bad) ==
  /\ disk' = [proc[p].mem EXCEPT !.stamp = disk.stamp + 1, !.events = events]
  /\ proc' = [proc EXCEPT ![p] = [good EXCEPT !.mem = disk']]

\* FileStore.Save of these events.  Whether it succeeds or not, they stay in
\* memory; the process goes on as good or as bad.
Save(p, events, good, bad) ==
  \/ /\ disk.stamp = proc[p].mem.stamp
     /\ disk' = [proc[p].mem EXCEPT !.stamp = disk.stamp + 1, !.events = events]
     /\ proc' = [proc EXCEPT ![p] = [good EXCEPT !.mem = disk']]
  \/ /\ disk.stamp # proc[p].mem.stamp \/ "write" \in Faults
     /\ proc' = [proc EXCEPT ![p] = [bad EXCEPT !.mem.events = events]]
     /\ UNCHANGED disk

\* A process whose command is over.
Ended == Idle

\* The command is loaded: get has one secret, the others may have several, and
\* mount, which selects them by scope as env does, only those that exist.
Start(p, c, S) ==
  /\ proc[p].phase = "idle"
  /\ started < MaxCommands
  /\ S # {}
  /\ c = "get" => Cardinality(S) = 1
  /\ c = "mount" => S \subseteq disk.kept
  /\ started' = started + 1
  /\ proc' = [proc EXCEPT ![p] = [Idle EXCEPT !.phase = "checking", !.cmd = c,
                                              !.id = started + 1, !.wants = S, !.mem = disk]]
  /\ UNCHANGED <<disk, keys, remote, changes, released>>

Readable(r, s) == s \in Allowed(r.mem) \cap r.mem.kept \cap keys

\* CheckPolicy, SecretMetadata and CheckSecretReadable, of the first secret
\* that does not pass: it is denied, it is not there, or it has no key.  The
\* event of a secret that get does not find names none.
CheckFails(p) ==
  LET r == proc[p]
      may == Allowed(r.mem)
      Refused(S, result) == [r EXCEPT !.phase = "recording", !.fails = TRUE,
                                      !.mem.events = @ \cup Made(r, S, result, FALSE)]
  IN
  /\ r.phase = "checking"
  /\ \E s \in r.wants :
       \/ /\ s \notin may
          /\ proc' = [proc EXCEPT ![p] =
               Refused(IF r.cmd = "get" THEN {s} \cap r.mem.kept ELSE {s}, "denied")]
       \/ /\ s \in may \ r.mem.kept
          /\ proc' = [proc EXCEPT ![p] = IF r.cmd = "get" THEN Ended ELSE Refused({}, "failed")]
       \/ /\ s \in (may \cap r.mem.kept) \ keys
          /\ proc' = [proc EXCEPT ![p] = Refused({s}, "failed")]
  /\ UNCHANGED <<disk, keys, remote, started, changes, released>>

\* Every secret passes: the strict ones go first.
CheckPasses(p) ==
  LET r == proc[p] IN
  /\ r.phase = "checking"
  /\ \A s \in r.wants : Readable(r, s)
  /\ proc' = [proc EXCEPT ![p].phase = IF Strict(r) = {} THEN "buffering" ELSE "saving strict"]
  /\ UNCHANGED <<disk, keys, remote, started, changes, released>>

\* Mutant: the release goes on to the control plane though it was not saved.
SaveStrictIgnored(p) ==
  LET r == proc[p]
      posting == [r EXCEPT !.phase = "posting", !.todo = {w \in Workspace : w \cap Strict(r) # {}}]
  IN
  /\ r.phase = "saving strict"
  /\ Save(p, r.mem.events \cup Made(r, Strict(r), "allowed", FALSE), posting, posting)
  /\ UNCHANGED <<keys, remote, started, changes, released>>

\* The strict events are appended and saved.
SaveStrict(p) ==
  LET r == proc[p]
      posting == [r EXCEPT !.phase = "posting", !.todo = {w \in Workspace : w \cap Strict(r) # {}}]
  IN
  /\ r.phase = "saving strict"
  /\ Save(p, r.mem.events \cup Made(r, Strict(r), "allowed", FALSE), posting, Ended)
  /\ UNCHANGED <<keys, remote, started, changes, released>>

\* Mutant: the acknowledgement of one workspace's batch is enough.
PostOne(p) ==
  LET r == proc[p] IN
  /\ r.phase = "posting"
  /\ r.mem.link # "none"
  /\ \A e \in Batch(r) : Attributable(e)
  /\ \E w \in r.todo :
       /\ remote' = remote \cup {Upload(e) : e \in InWorkspace(Batch(r), w)}
       /\ proc' = [proc EXCEPT ![p] = [r EXCEPT !.todo = {}, !.phase = "marking"]]
  /\ UNCHANGED <<disk, keys, started, changes, released>>

\* syncRuntimeAuditStrictBatch: one workspace's batch is recorded, and every
\* event of it acknowledged.
Post(p) ==
  LET r == proc[p] IN
  /\ r.phase = "posting"
  /\ r.mem.link # "none"
  /\ \A e \in Batch(r) : Attributable(e)
  /\ \E w \in r.todo :
       /\ remote' = remote \cup {Upload(e) : e \in InWorkspace(Batch(r), w)}
       /\ proc' = [proc EXCEPT ![p].todo = @ \ {w},
                               ![p].phase = IF r.todo = {w} THEN "marking" ELSE "posting"]
  /\ UNCHANGED <<disk, keys, started, changes, released>>

\* Mutant: the batches that were not posted yet stay queued.
PostFailsKeepsQueue(p) ==
  LET r == proc[p] IN
  /\ r.phase = "posting"
  /\ \/ r.mem.link = "none" \/ \E e \in Batch(r) : ~Attributable(e)
     \/ "network" \in Faults
  /\ proc' = [proc EXCEPT ![p].phase = "blocking"]
  /\ UNCHANGED <<disk, keys, remote, started, changes, released>>

\* There is no session, an event has no workspace, or the request, its answer
\* or some of its acknowledgements are lost or late: the control plane may have
\* recorded any part of the batch.
PostFails(p) ==
  LET r == proc[p] IN
  /\ r.phase = "posting"
  /\ \/ /\ r.mem.link = "none" \/ \E e \in Batch(r) : ~Attributable(e)
        /\ UNCHANGED remote
     \/ /\ "network" \in Faults
        /\ \E w \in r.todo : \E E \in SUBSET InWorkspace(Batch(r), w) :
             remote' = remote \cup {Upload(e) : e \in E}
  /\ proc' = [proc EXCEPT ![p].phase = "blocking", ![p].todo = {}]
  /\ UNCHANGED <<disk, keys, started, changes, released>>

AfterStrict(r) ==
  IF Buffered(r) = {} THEN [r EXCEPT !.phase = "reading", !.left = r.wants]
                      ELSE [r EXCEPT !.phase = "buffering"]

\* The acknowledged events are marked and saved; a save that fails counts as a
\* missing acknowledgement.
MarkAcked(p) ==
  LET r == proc[p] IN
  /\ r.phase = "marking"
  /\ Save(p, Marked(r.mem.events, {Upload(e) : e \in Batch(r)}),
          AfterStrict(r), [r EXCEPT !.phase = "blocking"])
  /\ UNCHANGED <<keys, remote, started, changes, released>>

\* Mutant: once the failure is on record, the command goes on.
BlockAndGoOn(p) ==
  LET r == proc[p] IN
  /\ r.phase = "blocking"
  /\ Save(p, r.mem.events \cup Made(r, Strict(r), "failed", TRUE), AfterStrict(r), Ended)
  /\ UNCHANGED <<keys, remote, started, changes, released>>

\* A "failed" event is appended for every strict event, and the command ends.
Block(p) ==
  LET r == proc[p] IN
  /\ r.phase = "blocking"
  /\ Save(p, r.mem.events \cup Made(r, Strict(r), "failed", TRUE), Ended, Ended)
  /\ UNCHANGED <<keys, remote, started, changes, released>>

\* Mutant: a release that could not be recorded is made all the same.
SaveBufferedIgnored(p) ==
  LET r == proc[p]
      syncing == [r EXCEPT !.phase = "syncing", !.left = r.wants]
  IN
  /\ r.phase = "buffering"
  /\ Save(p, r.mem.events \cup Made(r, Buffered(r), "allowed", FALSE), syncing, syncing)
  /\ UNCHANGED <<keys, remote, started, changes, released>>

\* The buffered events are appended and saved.
SaveBuffered(p) ==
  LET r == proc[p] IN
  /\ r.phase = "buffering"
  /\ Save(p, r.mem.events \cup Made(r, Buffered(r), "allowed", FALSE),
          [r EXCEPT !.phase = "syncing", !.left = r.wants], Ended)
  /\ UNCHANGED <<keys, remote, started, changes, released>>

AfterSync(r) == IF r.fails THEN Ended ELSE [r EXCEPT !.phase = "reading"]

\* syncRuntimeAuditBestEffort: a batch of what is pending per workspace; each
\* may be recorded, or not, and some of what is recorded acknowledged.
Sync(p) ==
  LET r == proc[p]
      U == {Upload(e) : e \in Pending(r.mem)}
  IN
  /\ r.phase = "syncing"
  /\ \E sent, acks \in (IF "network" \in Faults THEN SUBSET U ELSE {U}) :
       /\ acks \subseteq sent
       /\ remote' = remote \cup sent
       /\ proc' = [proc EXCEPT ![p] =
            IF acks = {} THEN AfterSync(r)
            ELSE [r EXCEPT !.phase = "keeping", !.mem.events = Marked(@, acks)]]
  /\ UNCHANGED <<disk, keys, started, changes, released>>

\* What was acknowledged is saved if possible.
Keep(p) ==
  LET r == proc[p] IN
  /\ r.phase = "keeping"
  /\ Save(p, r.mem.events, AfterSync(r), AfterSync(r))
  /\ UNCHANGED <<keys, remote, started, changes, released>>

Releases(r, S) ==
  {[secret |-> s, by |-> r.id, cmd |-> r.cmd, strict |-> s \in r.mem.strict,
    live |-> disk.stamp = r.mem.stamp] : s \in S}

\* GetSecret of one secret.  get prints it and mount writes its file; run
\* keeps it for the child's environment.
Read(p) ==
  LET r == proc[p] IN
  /\ r.phase = "reading"
  /\ \E s \in r.left \cap keys :
       /\ released' = IF r.cmd = "run" THEN released ELSE released \cup Releases(r, {s})
       /\ proc' = [proc EXCEPT ![p] =
            IF r.left # {s} THEN [r EXCEPT !.left = @ \ {s}]
            ELSE IF r.cmd = "get" THEN Ended
            ELSE [r EXCEPT !.left = {}, !.phase = "finishing"]]
  /\ UNCHANGED <<disk, keys, remote, started, changes>>

\* Its key is gone since the check, or the file it is to be written to fails.
ReadFails(p) ==
  LET r == proc[p] IN
  /\ r.phase = "reading"
  /\ \E s \in r.left :
       /\ s \notin keys \/ (r.cmd = "mount" /\ "write" \in Faults)
       /\ proc' = [proc EXCEPT ![p].phase = "recording", ![p].fails = TRUE,
                            ![p].mem.events = @ \cup Made(r, {s}, "failed", FALSE)]
  /\ UNCHANGED <<disk, keys, remote, started, changes, released>>

\* Mutant: the child is started whether or not the last save succeeds.
FinishAnyway(p) ==
  LET r == proc[p] IN
  /\ r.phase = "finishing"
  /\ Save(p, r.mem.events, Ended, Ended)
  /\ released' = IF r.cmd = "run" THEN released \cup Releases(r, r.wants) ELSE released
  /\ UNCHANGED <<keys, remote, started, changes>>

\* run and mount save once more and only then start the child.
Finish(p) ==
  LET r == proc[p] IN
  /\ r.phase = "finishing"
  /\ Save(p, r.mem.events, Ended, Ended)
  /\ released' = IF r.cmd = "run" /\ disk' # disk
                   THEN released \cup Releases(r, r.wants) ELSE released
  /\ UNCHANGED <<keys, remote, started, changes>>

\* The refusal is saved if possible, and synced if possible.
Record(p) ==
  LET r == proc[p] IN
  /\ r.phase = "recording"
  /\ Save(p, r.mem.events, [r EXCEPT !.phase = "syncing"], [r EXCEPT !.phase = "syncing"])
  /\ UNCHANGED <<keys, remote, started, changes, released>>

Crash(p) ==
  /\ "crash" \in Faults
  /\ proc[p].phase # "idle"
  /\ proc' = [proc EXCEPT ![p] = Ended]
  /\ UNCHANGED <<disk, keys, remote, started, changes, released>>

-----------------------------------------------------------------------------
(* What other commands do to the vault meanwhile.                          *)

\* Another command saves the state file f.
Change(f) ==
  /\ changes < MaxChanges
  /\ changes' = changes + 1
  /\ disk' = [f EXCEPT !.stamp = disk.stamp + 1]
  /\ UNCHANGED <<proc, remote, started, released>>

\* A pull brings other audit modes and, to a service account, other policies.
Pull ==
  /\ disk.link # "none"
  /\ \E granted, strict \in SUBSET Secret :
       /\ disk.link = "user" => granted = disk.granted
       /\ Change([disk EXCEPT !.granted = granted, !.strict = strict])
  /\ UNCHANGED keys

\* A secret is removed; its keys are deleted after the save.
Remove ==
  \E s \in disk.kept : Change([disk EXCEPT !.kept = @ \ {s}]) /\ UNCHANGED keys

\* Its keys go, as do all keys of a revoked device before that save.
Forget ==
  /\ \/ \E s \in keys \ disk.kept : keys' = keys \ {s}
     \/ keys' = {} /\ keys # {}
  /\ UNCHANGED <<disk, proc, remote, started, changes, released>>

\* A logout, or a login; a service account that logs in has no policies until
\* it pulls them.
Relink ==
  /\ \E link \in Link \ {disk.link} :
       Change([disk EXCEPT !.link = link, !.granted = IF link = "account" THEN {} ELSE @])
  /\ UNCHANGED keys

-----------------------------------------------------------------------------
\* A step of a running command.
Step(p) ==
  \/ CheckFails(p)
  \/ CheckPasses(p)
  \/ SaveStrict(p)
  \/ Post(p)
  \/ PostFails(p)
  \/ MarkAcked(p)
  \/ Block(p)
  \/ SaveBuffered(p)
  \/ Sync(p)
  \/ Keep(p)
  \/ Read(p)
  \/ ReadFails(p)
  \/ Finish(p)
  \/ Record(p)

Next ==
  \/ \E p \in Proc :
       \/ \E c \in Commands, S \in SUBSET Secret : Start(p, c, S)
       \/ Step(p)
       \/ Crash(p)
  \/ Pull
  \/ Remove
  \/ Forget
  \/ Relink

Spec == Init /\ [][Next]_vars

-----------------------------------------------------------------------------
(* Properties.                                                             *)

\* What is released from a strict envelope is on record at the control plane,
\* however requests, answers and saves were lost or raced on the way.
StrictIsRecorded ==
  \A x \in released : x.strict =>
    \E e \in remote : e.by = x.by /\ e.secret = x.secret /\ e.result = "allowed"

\* The local ledger never takes an event for synced that the control plane
\* does not have with the same content: it would never be sent again.
AckedIsRecorded ==
  \A e \in disk.events : e.acked => Upload(e) \in remote

\* The control plane never hears of a release that the local ledger does not
\* know: "allowed" events are saved before they are sent.
AllowedIsLocal ==
  \A e \in remote : e.result = "allowed" => \E d \in disk.events : Upload(d) = e

\* The local ledger and the control plane's agree on what they share.
LedgersAgree == TypeOK /\ AckedIsRecorded /\ AllowedIsLocal

\* A command whose strict batch failed releases nothing, of the batch or of
\* its buffered peers, and leaves no "allowed" event that is not contradicted.
BlockedReleasesNothing ==
  \A e \in disk.events : e.blocks =>
    /\ \A x \in released : x.by # e.by
    /\ \A a \in disk.events : a.by = e.by /\ a.result = "allowed" =>
         \E b \in disk.events : b.by = a.by /\ b.blocks /\ b.secret = a.secret

\* A child process gets secrets only from the vault as it still is: whatever
\* another command changed since they were decrypted, it is not started.
ChildIsCurrent ==
  \A x \in released : x.cmd = "run" => x.live

Releasing(E) == {[by |-> e.by, secret |-> e.secret] : e \in {d \in E : d.result = "allowed"}}

Gate == INSTANCE ReleaseGate WITH
  Command <- 1 .. MaxCommands,
  policy <- Allowed(disk),
  ledger <- Releasing(disk.events),
  told <- Releasing(remote),
  released <- {[by |-> x.by, secret |-> x.secret, strict |-> x.strict] : x \in released}

\* Every release follows an event that was allowed by the policies in force
\* when it was written and, in a strict envelope, that was told first.
ImplementsReleaseGate == Gate!Spec
=============================================================================
