----------------------------- MODULE VaultStore -----------------------------
(***************************************************************************)
(* The local vault: one state file, one keystore, and the processes of the *)
(* command line that change both.                                          *)
(*                                                                         *)
(* The two stores are not transactional with each other.  A command loads  *)
(* the state file, puts new keys in the keystore one at a time, replaces   *)
(* the state file, and only then deletes the keys it no longer needs.      *)
(* Lifecycle commands hold an exclusive file lock from before the load     *)
(* until they exit; the others take it only inside FileStore.save, which   *)
(* refuses to replace a file that is not the one they loaded.  A process   *)
(* may be killed between any two steps, and each store may fail.           *)
(*                                                                         *)
(* Nothing of the control plane is here: "bind" and "rename" are the part   *)
(* of a push that seals a workspace for its remote id.                     *)
(***************************************************************************)
EXTENDS Naturals, FiniteSets

CONSTANTS
  Proc,         \* command-line processes
  Secret,       \* paths scope/name a secret may be stored at
  Workspace,    \* the workspace prefixes, each as the set of paths under it
  MaxAccount,   \* bound: keystore accounts ever drawn
  MaxCommands,  \* bound: commands ever started
  Commands,     \* the commands a process may be started with
  Faults,       \* what may go wrong: "crash", "store", "write", "delete"
  NoProc        \* nobody holds the lock

ASSUME ConstantsAssumption ==
  /\ NoProc \notin Proc
  /\ Workspace \subseteq SUBSET Secret
  /\ MaxAccount \in Nat
  /\ MaxCommands \in Nat
  /\ Commands \subseteq {"init", "enroll", "add", "rm", "rekey", "bind",
                         "rename", "revoke", "wipe", "audit"}

VARIABLES
  disk,      \* the state file; Absent when there is none
  keystore,  \* the accounts that hold key material
  lock,      \* the process that holds the state-file lock
  proc,      \* what each process has in memory
  drawn,     \* accounts drawn so far: a random name is never drawn twice
  clock,     \* state files written so far
  started    \* commands started so far

\* History: accounts a wipe or a revocation has destroyed on purpose, and
\* accounts that a fault has left behind in the keystore.
VARIABLES cleared, leaked

vars == <<disk, keystore, lock, proc, drawn, clock, started, cleared, leaked>>

-----------------------------------------------------------------------------
(* State files and processes.                                              *)

\* An account names one keystore entry: the data key of one secret version,
\* the private keys of one device (by the device's id), or the key of the
\* audit ledger of one vault (by the vault's id).
Account == 1 .. MaxAccount
None == 0

\* One sealed version of a secret; bound: sealed for the workspace's
\* control-plane id instead of the local vault id.
Version == [n: Nat \ {0}, account: Account, active: BOOLEAN, bound: BOOLEAN]

\* stamp stands for the bytes of the file, and so for their digest.
StateFile ==
  [stamp:   Nat,
   ledger:  Account \cup {None},       \* the vault id; None: not initialized
   secrets: [Secret -> SUBSET Version],
   refs:    SUBSET Account,            \* State.KeyRefs
   trusted: SUBSET Account,            \* devices by status
   revoked: SUBSET Account,
   local:   Account \cup {None},       \* State.LocalDeviceID
   bound:   SUBSET Secret,             \* paths under a bound prefix
   events:  Nat]                       \* audit events in the ledger

Absent ==
  [stamp |-> 0, ledger |-> None, secrets |-> [s \in Secret |-> {}],
   refs |-> {}, trusted |-> {}, revoked |-> {}, local |-> None,
   bound |-> {}, events |-> 0]

Command == {"none", "init", "settle", "enroll", "add", "rm", "rekey", "bind",
            "rename", "revoke", "wipe", "audit"}

\* Every command but the ones that only record audit events is a lifecycle
\* command.
Lifecycle(c) == c \notin {"none", "audit"}

Phase == {"idle", "opening", "planning", "storing", "clearing", "saving",
          "keying", "writing", "undoing", "aborting", "sweeping", "wiping",
          "wiped", "closing"}

\* A data key in the making: the version of which path it will seal.
Slot == [secret: Secret, n: Nat \ {0}]
NewKey == [secret: Secret, n: Nat \ {0}, account: Account]

Process ==
  [phase: Phase,
   cmd:   Command,
   scope: SUBSET Secret,            \* the paths the command works on
   fresh: Account \cup {None},      \* the vault or device it creates or revokes
   snap:  StateFile,                \* the state file it loaded or wrote last
   blind: BOOLEAN,                  \* auditLedgerUnavailable
   todo:  SUBSET Slot,              \* data keys still to be stored
   new:   SUBSET NewKey,            \* data keys stored for versions to come
   made:  SUBSET Account,           \* accounts stored and not yet committed
   drop:  SUBSET Account]           \* accounts to be deleted

Idle ==
  [phase |-> "idle", cmd |-> "none", scope |-> {}, fresh |-> None,
   snap |-> Absent, blind |-> FALSE, todo |-> {}, new |-> {}, made |-> {},
   drop |-> {}]

TypeOK ==
  /\ disk \in StateFile
  /\ keystore \subseteq Account
  /\ lock \in Proc \cup {NoProc}
  /\ proc \in [Proc -> Process]
  /\ drawn \in 0 .. MaxAccount
  /\ clock \in Nat
  /\ started \in 0 .. MaxCommands
  /\ cleared \subseteq Account
  /\ leaked \subseteq Account

Init ==
  /\ disk = Absent
  /\ keystore = {}
  /\ lock = NoProc
  /\ proc = [p \in Proc |-> Idle]
  /\ drawn = 0
  /\ clock = 0
  /\ started = 0
  /\ cleared = {}
  /\ leaked = {}

-----------------------------------------------------------------------------
(* What the commands read from, and write to, a state file.                *)

Initialized(f) == f.ledger # None

\* ActiveDevice succeeds.
Usable(f) == f.local \in f.trusted

ActiveVersions(f, s) == {v \in f.secrets[s] : v.active}

\* nextSecretVersion: one past the largest version kept, 1 for a new secret.
NextVersions(f, s) ==
  {n \in {1} \cup {v.n + 1 : v \in f.secrets[s]} : \A v \in f.secrets[s] : v.n < n}

\* The device records of the file, whatever their status.
Devices(f) == f.trusted \cup f.revoked

\* The accounts the versions of a set of paths are sealed under.
Sealing(f, S) == UNION {{v.account : v \in f.secrets[s]} : s \in S}

\* Every key a wipe would look for.
Referenced(f) == f.refs \cup ({f.ledger} \ {None})

\* Mutant: a new vault's ledger key is filed under no vault id.
LedgerOfLoadedVault(r) == r.snap.ledger

\* The account whose key encrypts the audit ledger that r is about to write.
LedgerAccount(r) == IF r.cmd = "init" THEN r.fresh ELSE r.snap.ledger

\* Mutant: only the device's own keys are cleared, whichever device it is.
OwnAccountsOnly(f, d) == {d} \cap f.refs

\* RevokeDevice clears every key the file refers to when the device is this one.
RevokedAccounts(f, d) == IF f.local \in {d, None} THEN f.refs ELSE {d} \cap f.refs

\* Mutant: the version that was active stays active.
RotatedStillActive(r, s) ==
  r.snap.secrets[s]
    \cup {[n |-> k.n, account |-> k.account, active |-> TRUE,
           bound |-> s \in r.snap.bound] : k \in {j \in r.new : j.secret = s}}

\* Mutant: a new version is always sealed for the local vault id.
RotatedForVault(r, s) ==
  {[v EXCEPT !.active = FALSE] : v \in r.snap.secrets[s]}
    \cup {[n |-> k.n, account |-> k.account, active |-> TRUE,
           bound |-> FALSE] : k \in {j \in r.new : j.secret = s}}

\* The versions of s after its active ones went stale and a new one was added.
Rotated(r, s) ==
  {[v EXCEPT !.active = FALSE] : v \in r.snap.secrets[s]}
    \cup {[n |-> k.n, account |-> k.account, active |-> TRUE,
           bound |-> s \in r.snap.bound] : k \in {j \in r.new : j.secret = s}}

\* The new keys for version n of s: one or none.
KeysFor(r, s, n) == {k \in r.new : k.secret = s /\ k.n = n}

\* The versions of s after those with a new key were sealed again.
Resealed(r, s) ==
  {v \in r.snap.secrets[s] : KeysFor(r, s, v.n) = {}}
    \cup UNION {{[v EXCEPT !.account = k.account, !.bound = TRUE] : k \in KeysFor(r, s, v.n)} :
                  v \in r.snap.secrets[s]}

\* The state file r writes: the one it loaded, changed by its command.
Effect(r) ==
  LET f == r.snap
      keys == {k.account : k \in r.new}
  IN CASE r.cmd = "init" ->
            [Absent EXCEPT !.ledger = r.fresh, !.events = 1]
       [] r.cmd \in {"settle", "enroll"} ->
            [f EXCEPT !.trusted = @ \cup {r.fresh}, !.local = r.fresh,
                      !.refs = @ \cup {r.fresh}, !.events = @ + 1]
       [] r.cmd \in {"add", "rekey"} ->
            [f EXCEPT !.secrets = [s \in Secret |->
                                     IF s \in r.scope THEN Rotated(r, s) ELSE @[s]],
                      !.refs = @ \cup keys, !.events = @ + 1]
       [] r.cmd \in {"bind", "rename"} ->
            [f EXCEPT !.secrets = [s \in Secret |->
                                     IF s \in r.scope THEN Resealed(r, s) ELSE @[s]],
                      !.refs = (@ \ r.drop) \cup keys,
                      !.bound = @ \cup r.scope, !.events = @ + 1]
       [] r.cmd = "rm" ->
            [f EXCEPT !.secrets = [s \in Secret |-> IF s \in r.scope THEN {} ELSE @[s]],
                      !.refs = @ \ r.drop, !.events = @ + 1]
       [] r.cmd = "revoke" ->
            [f EXCEPT !.trusted = @ \ {r.fresh}, !.revoked = @ \cup {r.fresh},
                      !.refs = @ \ RevokedAccounts(f, r.fresh),
                      !.events = @ + (IF f.local \in {r.fresh, None} THEN 2 ELSE 1)]
       [] OTHER -> [f EXCEPT !.events = @ + 1]

-----------------------------------------------------------------------------
(* Starting a command.                                                     *)

Goto(p, phase) == proc' = [proc EXCEPT ![p].phase = phase]

Start(p, c) ==
  /\ proc[p].phase = "idle"
  /\ started < MaxCommands
  /\ started' = started + 1
  /\ proc' = [proc EXCEPT ![p] = [Idle EXCEPT !.phase = "opening", !.cmd = c]]
  /\ UNCHANGED <<disk, keystore, lock, drawn, clock, cleared, leaked>>

\* Mutant: lifecycle commands load without the lock.
OpenUnlocked(p) ==
  /\ proc[p].phase = "opening"
  /\ proc' = [proc EXCEPT ![p].phase = "planning", ![p].snap = disk,
                          ![p].blind = Initialized(disk) /\ disk.ledger \notin keystore]
  /\ UNCHANGED <<disk, keystore, lock, drawn, clock, started, cleared, leaked>>

\* LoadDefaultLocked or LoadDefault: a lifecycle command waits for the lock
\* and keeps it.  A ledger whose key is missing loads as unavailable.
Open(p) ==
  /\ proc[p].phase = "opening"
  /\ IF Lifecycle(proc[p].cmd) THEN lock = NoProc /\ lock' = p ELSE UNCHANGED lock
  /\ proc' = [proc EXCEPT ![p].phase = "planning", ![p].snap = disk,
                          ![p].blind = Initialized(disk) /\ disk.ledger \notin keystore]
  /\ UNCHANGED <<disk, keystore, drawn, clock, started, cleared, leaked>>

\* The arguments, the vault or the user's confirmation do not pass.
Refuse(p) ==
  /\ proc[p].phase = "planning"
  /\ Goto(p, "closing")
  /\ UNCHANGED <<disk, keystore, lock, drawn, clock, started, cleared, leaked>>

Room(k) == drawn + k <= MaxAccount

\* A command that passed its checks goes on from here, and has drawn k accounts.
Proceed(p, c, k, next) ==
  /\ proc[p].phase = "planning"
  /\ proc[p].cmd = c
  /\ proc' = [proc EXCEPT ![p] = next]
  /\ drawn' = drawn + k
  /\ UNCHANGED <<disk, keystore, lock, clock, started, cleared, leaked>>

\* InitializeLocal names the vault; the device is created after its save.
PlanInit(p) ==
  /\ ~Initialized(proc[p].snap)
  /\ Room(2)
  /\ Proceed(p, "init", 1, [proc[p] EXCEPT !.phase = "saving", !.fresh = drawn + 1])

PlanEnroll(p) ==
  /\ Initialized(proc[p].snap)
  /\ Room(1)
  /\ Proceed(p, "enroll", 1, [proc[p] EXCEPT !.phase = "storing", !.fresh = drawn + 1])

\* The phase of a command that has these data keys to store before it saves.
BeforeSave(slots) == IF slots = {} THEN "saving" ELSE "storing"

NextSlots(f, S) ==
  UNION {{[secret |-> s, n |-> n] : n \in NextVersions(f, s)} : s \in S}

\* AddSecretBytes, for add and for rotate.
PlanAdd(p, s) ==
  LET r == proc[p] IN
  /\ Usable(r.snap)
  /\ Room(1)
  /\ Proceed(p, "add", 0, [r EXCEPT !.phase = "storing", !.scope = {s},
                                    !.todo = NextSlots(r.snap, {s})])

\* rotateDataKeys: every active version of the workspace is decrypted first.
PlanRekey(p, w) ==
  LET r == proc[p]
      S == {s \in w : ActiveVersions(r.snap, s) # {}}
  IN
  /\ Usable(r.snap)
  /\ S # {}
  /\ \A s \in S : \A v \in ActiveVersions(r.snap, s) : v.account \in keystore
  /\ Room(Cardinality(S))
  /\ Proceed(p, "rekey", 0, [r EXCEPT !.phase = "storing", !.scope = S,
                                      !.todo = NextSlots(r.snap, S)])

\* BindWorkspacePrefix seals what is not yet sealed for the workspace's id;
\* RenameWorkspacePrefix seals every version again under its new path.
PlanReseal(p, c, w) ==
  LET r == proc[p]
      V(s) == {v \in r.snap.secrets[s] : c = "bind" => ~v.bound}
      slots == UNION {{[secret |-> s, n |-> v.n] : v \in V(s)} : s \in w}
  IN
  /\ Usable(r.snap)
  /\ Room(Cardinality(slots))
  /\ Proceed(p, c, 0, [r EXCEPT !.phase = BeforeSave(slots), !.scope = w, !.todo = slots,
                                !.drop = UNION {{v.account : v \in V(s)} : s \in w}])

\* RemoveSecret.
PlanRemove(p, s) ==
  LET r == proc[p] IN
  /\ r.snap.secrets[s] # {}
  /\ Proceed(p, "rm", 0, [r EXCEPT !.phase = "saving", !.scope = {s},
                                   !.drop = Sealing(r.snap, {s})])

\* Mutant: any device may be revoked.
PlanRevokeAny(p, d) ==
  LET r == proc[p] IN
  /\ d \in Devices(r.snap)
  /\ Proceed(p, "revoke", 0, [r EXCEPT !.phase = "clearing", !.fresh = d,
                                       !.drop = RevokedAccounts(r.snap, d)])

\* RevokeDevice: the last trusted device stays while active secrets exist.
PlanRevoke(p, d) ==
  LET r == proc[p] IN
  /\ d \in Devices(r.snap)
  /\ r.snap.trusted = {d} => \A s \in Secret : ActiveVersions(r.snap, s) = {}
  /\ Proceed(p, "revoke", 0, [r EXCEPT !.phase = "clearing", !.fresh = d,
                                       !.drop = RevokedAccounts(r.snap, d)])

PlanWipe(p) ==
  Proceed(p, "wipe", 0, [proc[p] EXCEPT !.phase = "wiping",
                                        !.drop = Referenced(proc[p].snap)])

PlanAudit(p) ==
  /\ Initialized(proc[p].snap)
  /\ Proceed(p, "audit", 0, [proc[p] EXCEPT !.phase = "saving"])

Plan(p) ==
  \/ PlanInit(p)
  \/ PlanEnroll(p)
  \/ \E s \in Secret : PlanAdd(p, s)
  \/ \E w \in Workspace : PlanRekey(p, w)
  \/ \E w \in Workspace, c \in {"bind", "rename"} : PlanReseal(p, c, w)
  \/ \E s \in Secret : PlanRemove(p, s)
  \/ \E d \in Account : PlanRevoke(p, d)
  \/ PlanWipe(p)
  \/ PlanAudit(p)

-----------------------------------------------------------------------------
(* Before the save: new keys go into the keystore.                         *)

\* createDevice: the two private keys of a device, taken as one.
StoreDeviceKey(p) ==
  LET r == proc[p] IN
  /\ r.phase = "storing"
  /\ r.cmd \in {"enroll", "settle"}
  /\ keystore' = keystore \cup {r.fresh}
  /\ proc' = [proc EXCEPT ![p].phase = "saving", ![p].made = {r.fresh}]
  /\ UNCHANGED <<disk, lock, drawn, clock, started, cleared, leaked>>

\* To seal a version again its present key is read first.
Readable(r, slot) ==
  r.cmd \in {"bind", "rename"} =>
    \A v \in r.snap.secrets[slot.secret] : v.n = slot.n => v.account \in keystore

\* newSecretDataKeyForWorkspace: a random account, a random key.
StoreDataKey(p) ==
  LET r == proc[p]
      a == drawn + 1
  IN \E slot \in r.todo :
  /\ r.phase = "storing"
  /\ Readable(r, slot)
  /\ a \in Account
  /\ drawn' = a
  /\ keystore' = keystore \cup {a}
  /\ proc' = [proc EXCEPT
       ![p].phase = BeforeSave(r.todo \ {slot}),
       ![p].todo = @ \ {slot},
       ![p].new = @ \cup {[secret |-> slot.secret, n |-> slot.n, account |-> a]},
       ![p].made = @ \cup {a}]
  /\ UNCHANGED <<disk, lock, clock, started, cleared, leaked>>

\* Mutant: a command that cannot save also deletes the keys it meant to replace.
AfterFailureDropsOld(r) ==
  CASE r.cmd = "settle" ->
         [r EXCEPT !.phase = "aborting", !.made = {},
                   !.drop = r.made \cup Referenced(r.snap)]
    [] r.cmd \in {"add", "rekey", "bind", "rename"} ->
         [r EXCEPT !.phase = "undoing", !.made = @ \cup r.drop, !.drop = {}]
    [] OTHER -> [r EXCEPT !.phase = "closing", !.made = {}, !.drop = {}]

\* Mutant: it leaves the data keys it made.
AfterFailureKeepsNew(r) ==
  IF r.cmd = "settle"
    THEN [r EXCEPT !.phase = "aborting", !.made = {},
                   !.drop = r.made \cup Referenced(r.snap)]
    ELSE [r EXCEPT !.phase = "closing", !.made = {}, !.drop = {}]

\* What a command does when it cannot store or save: initLocal removes the
\* vault it began, those that made data keys delete them, the rest just ends.
AfterFailure(r) ==
  CASE r.cmd = "settle" ->
         [r EXCEPT !.phase = "aborting", !.made = {},
                   !.drop = r.made \cup Referenced(r.snap)]
    [] r.cmd \in {"add", "rekey", "bind", "rename"} ->
         [r EXCEPT !.phase = "undoing", !.drop = {}]
    [] OTHER -> [r EXCEPT !.phase = "closing", !.made = {}, !.drop = {}]

\* The keystore refuses, or a version to be sealed again has no key.
StoreFails(p) ==
  /\ proc[p].phase = "storing"
  /\ "store" \in Faults \/ \E slot \in proc[p].todo : ~Readable(proc[p], slot)
  /\ proc' = [proc EXCEPT ![p] = AfterFailure(@)]
  /\ UNCHANGED <<disk, keystore, lock, drawn, clock, started, cleared, leaked>>

\* keystore.Delete, which may fail and is then not tried again.
Forget(a) ==
  \/ keystore' = keystore \ {a} /\ UNCHANGED leaked
  \/ "delete" \in Faults /\ leaked' = leaked \cup ({a} \cap keystore) /\ UNCHANGED keystore

\* A revocation deletes keys before it saves, and goes on when that fails.
Clear(p) ==
  /\ proc[p].phase = "clearing"
  /\ IF proc[p].drop = {}
       THEN Goto(p, "saving") /\ UNCHANGED <<keystore, cleared, leaked>>
       ELSE \E a \in proc[p].drop :
              /\ Forget(a)
              /\ cleared' = cleared \cup {a}
              /\ proc' = [proc EXCEPT ![p].drop = @ \ {a}]
  /\ UNCHANGED <<disk, lock, drawn, clock, started>>

-----------------------------------------------------------------------------
(* FileStore.save.                                                         *)

Unlocked(p) == IF Lifecycle(proc[p].cmd) THEN lock ELSE NoProc

\* A save that fails leaves the file alone.  What the command made and does
\* not take back itself stays behind.
SaveFails(p) ==
  /\ proc' = [proc EXCEPT ![p] =
       AfterFailure([proc[p] EXCEPT !.made = @ \ {LedgerAccount(proc[p])}])]
  /\ lock' = Unlocked(p)
  /\ leaked' = IF proc[p].cmd = "enroll"
                 THEN leaked \cup (proc[p].made \ {LedgerAccount(proc[p])}) ELSE leaked
  /\ UNCHANGED <<disk, drawn, clock, started, cleared>>

\* Mutant: the file is replaced whatever it has become since it was loaded.
CheckNothing(p) ==
  /\ proc[p].phase = "saving"
  /\ lock \in {NoProc, p}
  /\ lock' = p
  /\ Goto(p, "keying")
  /\ UNCHANGED <<disk, keystore, drawn, clock, started, cleared, leaked>>

\* Mutant: save takes the lock again though the command holds it.
CheckRelocks(p) ==
  /\ proc[p].phase = "saving"
  /\ lock = NoProc
  /\ disk.stamp = proc[p].snap.stamp
  /\ lock' = p
  /\ Goto(p, "keying")
  /\ UNCHANGED <<disk, keystore, drawn, clock, started, cleared, leaked>>

\* requireCurrentStateSnapshot, under the lock.
CheckSnapshot(p) ==
  /\ proc[p].phase = "saving"
  /\ lock \in {NoProc, p}
  /\ disk.stamp = proc[p].snap.stamp
  /\ lock' = p
  /\ Goto(p, "keying")
  /\ UNCHANGED <<disk, keystore, drawn, clock, started, cleared, leaked>>

\* ErrConcurrentStateChange.
Stale(p) ==
  /\ proc[p].phase = "saving"
  /\ lock \in {NoProc, p}
  /\ disk.stamp # proc[p].snap.stamp
  /\ SaveFails(p)
  /\ UNCHANGED keystore

\* rebuildAuditLedger finds the ledger's key, or makes one.
KeyLedger(p) ==
  LET a == LedgerAccount(proc[p]) IN
  /\ proc[p].phase = "keying"
  /\ ~proc[p].blind
  /\ keystore' = keystore \cup {a}
  /\ proc' = [proc EXCEPT ![p].phase = "writing", ![p].made = @ \cup ({a} \ keystore)]
  /\ UNCHANGED <<disk, lock, drawn, clock, started, cleared, leaked>>

\* It refuses to replace a ledger it could not read, or cannot store a key.
KeyLedgerFails(p) ==
  /\ proc[p].phase = "keying"
  /\ proc[p].blind \/ ("store" \in Faults /\ LedgerAccount(proc[p]) \notin keystore)
  /\ SaveFails(p)
  /\ UNCHANGED keystore

\* Mutant: the keys that were replaced or removed are left alone.
AfterSaveNoSweep(r) ==
  IF r.cmd = "init"
    THEN [r EXCEPT !.phase = "storing", !.cmd = "settle", !.fresh = drawn + 1]
    ELSE [r EXCEPT !.phase = "closing"]

\* Where a command goes after a save that succeeded.  initLocal creates the
\* device of the vault it has just saved.
AfterSave(r) ==
  IF r.cmd = "init"
    THEN [r EXCEPT !.phase = "storing", !.cmd = "settle", !.fresh = drawn + 1]
    ELSE [r EXCEPT !.phase = IF r.drop = {} THEN "closing" ELSE "sweeping"]

\* writeFileAtomically: the new file replaces the old one.
Write(p) ==
  LET r == proc[p]
      f == [Effect(r) EXCEPT !.stamp = clock + 1]
  IN
  /\ r.phase = "writing"
  /\ disk' = f
  /\ clock' = clock + 1
  /\ proc' = [proc EXCEPT ![p] = [AfterSave(r) EXCEPT !.snap = f, !.made = {}]]
  /\ drawn' = IF r.cmd = "init" THEN drawn + 1 ELSE drawn
  /\ lock' = Unlocked(p)
  /\ UNCHANGED <<keystore, started, cleared, leaked>>

\* The old file stays, and a ledger key made for this save is deleted.
WriteFails(p) ==
  LET a == LedgerAccount(proc[p]) IN
  /\ proc[p].phase = "writing"
  /\ "write" \in Faults
  /\ SaveFails(p)
  /\ keystore' = IF a \in proc[p].made THEN keystore \ {a} ELSE keystore

-----------------------------------------------------------------------------
(* After the save.                                                         *)

\* The keys that the new file no longer refers to; errors are ignored.
Sweep(p) ==
  /\ proc[p].phase = "sweeping"
  /\ IF proc[p].drop = {}
       THEN Goto(p, "closing") /\ UNCHANGED <<keystore, leaked>>
       ELSE \E a \in proc[p].drop :
              /\ Forget(a)
              /\ proc' = [proc EXCEPT ![p].drop = @ \ {a}]
  /\ UNCHANGED <<disk, lock, drawn, clock, started, cleared>>

\* deleteDataKeyAccounts after a failure; errors are ignored.
Undo(p) ==
  /\ proc[p].phase = "undoing"
  /\ IF proc[p].made = {}
       THEN Goto(p, "closing") /\ UNCHANGED <<keystore, leaked>>
       ELSE \E a \in proc[p].made :
              /\ Forget(a)
              /\ proc' = [proc EXCEPT ![p].made = @ \ {a}]
  /\ UNCHANGED <<disk, lock, drawn, clock, started, cleared>>

\* DeletePlatformKeys: the key references in order, then the ledger's key.
NextDelete(r) == IF r.drop = {r.snap.ledger} THEN r.drop ELSE r.drop \ {r.snap.ledger}

DeleteNext(p) ==
  \E a \in NextDelete(proc[p]) :
    /\ keystore' = keystore \ {a}
    /\ cleared' = cleared \cup {a}
    /\ proc' = [proc EXCEPT ![p].drop = @ \ {a}]
    /\ UNCHANGED <<disk, leaked>>

\* initLocal gives up: it deletes keys until one cannot be deleted, and then
\* the state file whatever came of that.
Abort(p) ==
  /\ proc[p].phase = "aborting"
  /\ \/ DeleteNext(p)
     \/ /\ proc[p].drop = {} \/ "delete" \in Faults
        /\ disk' \in {Absent} \cup (IF "write" \in Faults THEN {disk} ELSE {})
        /\ leaked' = leaked \cup (proc[p].drop \cap keystore)
        /\ proc' = [proc EXCEPT ![p].phase = "closing", ![p].drop = {}]
        /\ UNCHANGED <<keystore, cleared>>
  /\ UNCHANGED <<lock, drawn, clock, started>>

\* wipeLocalState: all the keys, then the state file; any error ends it.
Wipe(p) ==
  /\ proc[p].phase = "wiping"
  /\ \/ DeleteNext(p)
     \/ /\ proc[p].drop = {}
        /\ disk' = Absent
        /\ Goto(p, "wiped")
        /\ UNCHANGED <<keystore, cleared, leaked>>
     \/ /\ IF proc[p].drop = {} THEN "write" \in Faults ELSE "delete" \in Faults
        /\ proc' = [proc EXCEPT ![p].phase = "closing", ![p].drop = {}]
        /\ UNCHANGED <<disk, keystore, cleared, leaked>>
  /\ UNCHANGED <<lock, drawn, clock, started>>

\* The process exits and its lock is released.
Close(p) ==
  /\ proc[p].phase \in {"closing", "wiped"}
  /\ lock' = IF lock = p THEN NoProc ELSE lock
  /\ proc' = [proc EXCEPT ![p] = Idle]
  /\ UNCHANGED <<disk, keystore, drawn, clock, started, cleared, leaked>>

\* The process is killed: its memory is gone and so is its lock, but not the
\* keys that only it knew of.
Crash(p) ==
  /\ "crash" \in Faults
  /\ proc[p].phase # "idle"
  /\ lock' = IF lock = p THEN NoProc ELSE lock
  /\ proc' = [proc EXCEPT ![p] = Idle]
  /\ leaked' = leaked \cup (((proc[p].made \cup proc[p].drop) \cap keystore)
                              \ Referenced(disk))
  /\ UNCHANGED <<disk, keystore, drawn, clock, started, cleared>>

-----------------------------------------------------------------------------
\* A step of a running command.
Step(p) ==
  \/ Open(p)
  \/ Refuse(p)
  \/ Plan(p)
  \/ StoreDeviceKey(p)
  \/ StoreDataKey(p)
  \/ StoreFails(p)
  \/ Clear(p)
  \/ CheckSnapshot(p)
  \/ Stale(p)
  \/ KeyLedger(p)
  \/ KeyLedgerFails(p)
  \/ Write(p)
  \/ WriteFails(p)
  \/ Sweep(p)
  \/ Undo(p)
  \/ Abort(p)
  \/ Wipe(p)
  \/ Close(p)

Next ==
  \E p \in Proc :
    \/ \E c \in Commands : Start(p, c)
    \/ Step(p)
    \/ Crash(p)

Spec == Init /\ [][Next]_vars

-----------------------------------------------------------------------------
(* Properties.                                                             *)

\* What the state file points at can be read: every version it keeps, the
\* trusted devices and its own audit ledger have their keys, unless a wipe, an
\* abandoned init or a revocation destroyed them on purpose.  Keys are stored
\* before the save and deleted after it for this.
KeysBacked ==
  Sealing(disk, Secret) \cup disk.trusted \cup ({disk.ledger} \ {None})
    \subseteq keystore \cup cleared

\* No key is forgotten: the keystore holds only keys that the state file
\* refers to, that a running command will keep or delete, or that a fault left.
NoOrphanKeys ==
  keystore \subseteq
    Referenced(disk) \cup leaked
      \cup UNION {proc[p].made \cup proc[p].drop : p \in Proc}

\* A secret that exists has one active version, and it is the newest; and in a
\* bound workspace every version is sealed for the workspace's remote id,
\* whatever was added, rotated, rekeyed, bound or renamed since.
VersionsSound ==
  /\ \A s \in Secret : disk.secrets[s] # {} =>
       \E v \in ActiveVersions(disk, s) :
         \A w \in disk.secrets[s] : w # v => w.n < v.n /\ ~w.active
  /\ \A s \in disk.bound : \A v \in disk.secrets[s] : v.bound

\* A lifecycle command never finds its snapshot stale: it is the audit of the
\* unlocked ones that gives way.
LockedNeverStale ==
  \A p \in Proc :
    proc[p].phase = "saving" /\ Lifecycle(proc[p].cmd) => disk.stamp = proc[p].snap.stamp

\* No save loses what another process saved: the ledger only grows, until the
\* vault is removed.
AuditGrows ==
  [][disk' # disk /\ disk # Absent =>
       \/ disk' = Absent
       \/ disk'.ledger = disk.ledger /\ disk'.events > disk.events]_vars

\* While commands run one of them can go on: nobody waits for a lock that will
\* not be released, least of all for its own.  No command takes a step twice, so
\* a command that keeps running ends.
NobodyWaits ==
  (\E p \in Proc : proc[p].phase # "idle") => \E p \in Proc : ENABLED Step(p)

\* What is left of a state file when its accounts are taken away.
Contents(f) ==
  [exists  |-> Initialized(f),
   secrets |-> [s \in Secret |-> {[n |-> v.n, active |-> v.active, bound |-> v.bound] :
                                    v \in f.secrets[s]}],
   trusted |-> f.trusted, revoked |-> f.revoked, local |-> f.local,
   bound   |-> f.bound, events |-> f.events]

Vault == INSTANCE AtomicVault WITH Device <- Account, vault <- Contents(disk)

\* Each command changes the vault at one instant and as a whole, or not at
\* all, whatever other processes, crashes and failures do in between.
ImplementsAtomicVault == Vault!Spec

\* After a wipe the keystore holds nothing of Asiri's, as the help text of
\* "local wipe" says.
WipeRemovesKeyMaterial ==
  \A p \in Proc : proc[p].phase = "wiped" => keystore = {}
=============================================================================
