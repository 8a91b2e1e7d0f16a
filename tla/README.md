# Asiri CLI: verification project

TLA+ models of the Asiri command line (`src/cli/internal`), TLC runs that check
them on small instances, and TLAPS proofs of what matters most for every
instance. `PROJECT.json` lists components, runs, a mutant for each property, the
source lines each definition stands for, hazards and theorems; this file says
how they fit together.

1. [The system](#1-the-system)
2. [The modules](#2-the-modules)
3. [The runs](#3-the-runs)
4. [What the runs found](#4-what-the-runs-found)
5. [The proofs](#5-the-proofs)
6. [What is not modelled](#6-what-is-not-modelled)

## 1. The system

Asiri is a local-first secret vault. One user, on one machine, runs many short
commands; some are long (`run`, `env`, `mount`, `broker` stay alive while they
prepare or serve secrets). Every command is a process of its own, and all of
them share

* the **state file**: versions (ciphertexts), devices, references to key
  accounts, workspaces and their bindings, policies, audit modes, the encrypted
  audit ledger;
* the **keystore** (macOS keychain or an encrypted file): data keys, device
  keys, the ledger key, session tokens, each under an account name;
* the **control plane**, over HTTP: encrypted versions, tombstones, workspaces,
  policies, trusted devices, recovery recipients, and the remote copy of the
  runtime audit. Other devices and members use it too.

Nothing is transactional across these three, and that is where the hard
behaviours come from.

### Inventory

| Component | State | Operations | What makes it correct | Module |
|---|---|---|---|---|
| Vault store (`store/store.go`, `state_lock_*.go`) | state file, loaded snapshot, lock | load, save, init, add/rotate, rm, rekey, bind and rename a prefix, enroll, revoke, wipe | no save is lost; no needed key is lost; no key is left behind | `VaultStore`, `AtomicVault` |
| Keystore (`keystore/`) | accounts | store, load, delete | an account is durable once stored | in `VaultStore`, `Import` |
| Secret release (`cli/audit.go`, `runtime_run.go`, `runtime_env.go`, `secret_local.go`) | loaded state, audit events | get, run, env, mount; strict and best-effort upload | nothing leaves the vault without an event on record; strict: on record remotely | `AuditGate`, `ReleaseGate` |
| Broker (`broker/broker.go`, `cli/broker.go`) | server, timer, once-claim, mutex | start, request, upload, stop | nothing after the stop; once means once | `Broker`, `ReleaseGate` |
| Sync (`sync_push.go`, `sync_pull.go`, `sync.go`) | versions, tombstones, remote records | push, pull, sync | nothing deleted comes back; no live value is overwritten; a sync that succeeds is in step, as far as its user may write | `Sync` |
| Import (`store.go` `importRemoteSecretVersions`) | versions, data keys | import in three modes, undo | a failure costs no key | `Import` |
| Remote deletion (`secret_remote.go`) | remote records, confirmation token | delete one or many, roll back, restore | what is reported is true; only what was shown is deleted | `RemoteDelete` |
| Session (`http.go`, `auth.go`) | tokens, link | login, refresh, retry, logout | whatever failed before, the next request or logout works | `Session` |
| Recovery, rewrap (`recovery.go`) | recovery recipient, wrapped keys | setup, restore, status, rewrap | the active key is held and opens what it promises | `Recovery` |
| Workspaces (`workspace.go`, `store.go`) | identities, aliases, bindings | create, alias, bind, rename, adopt, register | identity, binding and secrets agree | `Workspaces` |
| Audit ledger (`store.go`) | encrypted records, head, key | rebuild, verify, load | what verifies is what one save wrote | `AuditLedger` |
| Devices (`device.go`) | devices, remote trust | enroll, trust, revoke | a revoked device holds no key | partly: `VaultStore`, `Recovery` |
| Members, service accounts; command line; packaging | none, or remote only | requests, parsing, scripts | | not modelled |

### Interactions

`App.Run` loads the state, with the lock for lifecycle commands
(`commandUsesLifecycleStateLock`) and without it for the others, and hands one
`FileStore` to the command. The command changes it in memory, calls the
keystore and the control plane directly, and ends in one or more
`FileStore.Save`, which takes the lock if the command has none, compares the
file with the bytes it loaded, rebuilds the audit ledger and renames a
temporary file over the state file. `get`, `run`, `env`, `mount` and the
broker put every release behind `gateSecretRelease` or its batch form. `sync` is
a pull and a push in one command; a pull is tombstones, then an import, then a
save; a push prepares the workspace (`Workspaces`), plans against the remote
records, and sends one batch with the wrapped keys (`Recovery`).

### Hard behaviours

Two processes between load and save; kills between keystore and file; a
keystore call or write that fails half way through a sequence; remote batches
acknowledged in part; answers that are lost although the request was served;
policies, modes and keys that change while a release is under way; devices
that publish, delete and restore past each other; files and keystores that are
put back from a backup. `PROJECT.json` "hazards" has them line by line, each
with the properties that would catch it.

## 2. The modules

One module per component. A process, goroutine or device is a record with a
phase; each action is one call on a store (keystore, file, control plane), with
everything the code does up to the next call. Errors are actions of their own;
what may go wrong is chosen by a constant `Faults`, and what the environment
may do by `Environment`. Bounds are constants named `Max...`.

The modules cut the system at the calls they share. `VaultStore` has every
keystore and file call of the local commands. It implements `AtomicVault`, and that
is why the others take a save as one step that succeeds or fails: `AuditGate`,
`Broker`, `Sync`, `Recovery`, `Session` and `Workspaces` never look inside it.
`Import` is the exception: it has its own keystore calls. `AuditGate` and `Broker`
implement the same `ReleaseGate`.

### `VaultStore` and `AtomicVault`: state file, keystore, lock, processes

`disk` is the state file, `keystore` the set of accounts that hold a key,
`lock` the owner of the flock, `proc[p]` the command a process runs and the
`FileStore` it has in memory (`snap`, what it loaded or wrote last). `drawn`,
`clock` and `started` count accounts, files and commands; `cleared` and
`leaked` are history variables (keys destroyed on purpose, keys a fault left).

| Actions | Code |
|---|---|
| `Start`, `Open`, `Refuse` | `App.Run`, `Load`, `LoadDefaultLocked`, the early returns |
| `PlanInit` ... `PlanAudit` | what each command decides from its loaded state |
| `StoreDeviceKey`, `StoreDataKey`, `StoreFails` | `createDevice`, `newSecretDataKeyForWorkspace`, their failures |
| `Clear` | key deletion *before* the save of a revocation |
| `CheckSnapshot`, `Stale` | lock and `requireCurrentStateSnapshot` |
| `KeyLedger`, `Write`, `KeyLedgerFails`, `WriteFails` | `rebuildAuditLedger`, `writeFileAtomically`, errors of `save` |
| `Sweep`, `Undo`, `DeleteNext`, `Abort`, `Wipe` | deletions after a save, after a failure, of an abandoned init, on wipe |
| `Close`, `Crash` | release of the lock, a kill |

Abstractions: a device's two private keys are one account; a version is its
number, account, status and what it is sealed for; the file's bytes are a
`stamp`; name collisions and binding conflicts take the `Refuse` branch.
`AtomicVault` is the promise: a vault without processes, keys or failures on
which each command acts at one instant; the mapping is `Contents(disk)`.

### `AuditGate` and `ReleaseGate`: the release of secrets

`disk` keeps what the gate reads and writes: events, session link, granted
secrets, strict secrets, existing secrets. `proc[p]` is a `get`, `run`
(`env` has the same steps as `run`) or `mount` with the state it loaded;
`remote` is the set of events the control plane recorded (external); `keys`
are the secrets whose data key is there. `released` is a history variable.

| Actions | Code |
|---|---|
| `Start` | command loaded, secrets selected (`selectedSecretPaths`) |
| `CheckFails`, `CheckPasses` | `prepareSecretRelease`, the checks of `get` |
| `SaveStrict`, `Post`, `PostFails`, `MarkAcked`, `Block` | strict half of `gatePreparedSecretReleases` and of `gateSecretRelease`, `syncRuntimeAuditStrictBatch` |
| `SaveBuffered`, `Sync`, `Keep` | buffered half, `syncRuntimeAuditBestEffort` |
| `Read`, `ReadFails`, `Finish`, `Record` | `GetSecret`, the last save before the child, failed events |
| `Pull`, `Remove`, `Forget`, `Relink` | other commands: policies and modes, removal, key deletion, login and logout |

Abstractions: one runtime and at most one service account; a policy that
expires is a policy that a pull changes; a session refresh inside a request is
part of that request's success or failure; several mappings of one secret are
one. `ReleaseGate` is the promise: append only what the policies of that instant
allow, tell only what is appended, release only what is appended and, in a
strict envelope, told.

### `Broker`: the goroutines of a local broker

One process, `asiri broker start`, and its goroutines `go[g]`: one per request,
the `timer`, the upload `worker`, and `main`. `mu` is the mutex they share,
`current` the store loaded last under it (`brokerRuntimeStore`), `latest` the
worker's, `wanted` the channel of capacity one that asks for an upload,
`claimed` the `--once` claim, `context` what has ended so far, `answered` a
history variable. Other processes appear as `Change` and `Forget`.

| Actions | Code |
|---|---|
| `Arrive`, `Refuse`, `Claim`, `Malformed`, `Call`, `Answer`, `TooLate` | the HTTP handler in `broker.Run`, before and after the value handler |
| `Enter`, `EnterFails`, `CheckFails`, `CheckPasses`, `Read` | `handleBrokerValueRequest`, under the mutex |
| `Gate`, `Post`, `PostFails`, `Mark`, `Block`, `Sync`, `Keep` | `gateSecretRelease`, `syncRuntimeAuditStrictBatch`, `syncRuntimeAuditBestEffort` |
| `Begin`, `Note`, `NoteFails` | `brokerRuntimeStore.audit`, for `OnReady`, `OnEvent` and the stop |
| `SeesEnd`, `IdleFires`, `Stop`, `Close`, `Return`, `Exit` | the goroutine of the timer, `stop`, the end of `Serve`, the end of the command |
| `Take`, `Look`, `Refresh`, `Send`, `Reload`, `Settle`, `WorkerEnds` | `startRuntimeAuditSyncWorker`, `syncRuntimeAuditBestEffortFromPath` |
| `Signal`, `MaxRuntime`, `Expire` | the ends of the process's and the server's contexts, and of the token |

Abstractions: requests ask for one secret of one workspace, so that an upload
is one batch; which check refuses a request is open, as long as it is refused;
timers fire whenever they may; the session is renewed during the worker's upload
only. The value counts as given when it is written to the connection; the
process may exit before it is sent.

### `Sync`: devices, tombstones, the control plane's records

`history[d][n]` are the versions device `d` has of secret `n`, each in an
envelope (value and seal); `ledger[d][n]` its entry for a deletion and the versions
it created since; `remote[n]` and `tombstone[n]` the control plane's; `job[d]` the
command under the state lock; `trusted` the devices.

| Actions | Code |
|---|---|
| `Add`, `RemoveSecret` | `AddSecretBytes`, `RemoveSecret` |
| `Fetch`, `Absorb`, `AbsorbFails`, `AbsorbHalf` | `pullOneWorkspaceWithBundle`: the bundle, `ReconcileRemoteTombstones`, the import as one step, both saves, and a kill between them |
| `Push`, `Publish` | `pushWithMode` alone and as the second half of `sync`: `selectPushRefs`, `writablePushRefs` (`Writable`), `reconcilePushVersionsWithTombstones` |
| `Commit`, `CommitFails`, `Stop` | `commitRemotePushBatch`, its lost or refused answers, a kill |
| `Delete`, `Restore`, `Trust` | other members, at the control plane (external) |

Write permission is open (`"readonly"`): each plan is told anew which of its secrets the user may
write (`Writable`). `push` fails unless it is all of them. `sync` leaves the others out and
succeeds, also where it may write none, as for a member that only receives and for a service account;
its plan keeps the names (`writes`). A sync ends well (`Succeeds`) when its plan refuses nothing and
has nothing to do, or its batch is taken. A permission taken back between plan and batch refuses the
batch. `Aligned` asks of what the user may not write only that the device has
received it (`SKILL.md:201`).

Taken from how the code uses it: the control plane takes a batch or none of it
and checks the floor a recreated secret names; a restore lowers that floor; a
member may be shown an old bundle, or one that hides a secret. A version that was
imported never counts as created since a deletion. `Seen(n)` is what the properties know
of secret `n` at the control plane: it differs after every publication, deletion or restore.

### `Import`: an import, call by call

`importRemoteSecretVersions` puts the key of every record into the keystore,
possibly over a key the file still names (a record equal inside to a version
takes over its account), saves, and restores the accounts if a later call fails.
`file` has versions and key references, `keystore` maps an account to the
envelope its key opens, `job` is the import under way.

| Actions | Code |
|---|---|
| `Begin` | the verdict on every record (`SyncVerdict`, `PullVerdict`), the account it takes over (`Reused`) |
| `StoreKey`, `StoreFails` | the load of the previous key and the store of the new one |
| `Save`, `SaveFails` | the save of the state file |
| `Undo`, `Undone` | `restoreStoredAccounts`, whose errors are dropped |
| `Kill` | a kill between any two calls |

### `RemoteDelete`: bulk deletes and their rollback

`remote[r]` is active or deleted by this device or by others, `local` what the device
has, `token` the plan the last dry run printed.

| Actions | Code |
|---|---|
| `DryRun`, `TokenExpires`, `BeginDelete`, `Preflight` | `newRemoteDeletePlan`, `verifyRemoteDeleteConfirmationToken`, the preflight requests |
| `Delete` | one request, with a refusal, a loss, or a lost answer |
| `RestoreTarget`, `CheckTarget`, `RestoreEarlier`, `EndRollback` | `rollbackRemoteSecretDeletes` |
| `RestoreCommand` | `secret restore` |
| `OtherDeletes`, `OtherRestores` | other members (external) |

### `Session`: tokens, link, refresh, login, logout

`file` has the link and the expiry, `keystore` the two tokens, `user[u]` a process
that makes requests without the lock, `job` the command that holds it, `server` the
sessions. `orphan` (sessions a failure lost) and `alone` (the process that alone
took steps since it loaded) are history variables.

| Actions | Code |
|---|---|
| `Load`, `Ensure`, `AskRefresh`, `StoreRefresh`, `Answer` | `ensureControlPlaneAccess`, `refreshControlPlaneAccess`, a request and its retry after a 401 (`refreshBearerAfterUnauthorized`) |
| `SaveEvent` | a save without a request |
| `Begin`, `LoginRefreshes`, `LoginStores`, `RemoteLogout`, `DeviceCode`, `LinkTokens`, `SaveLink` | `login`, `login --force`, `LinkControlPlaneForDevice` |
| `ClearTokens`, `SaveClear` | `logout`, `ClearControlPlane`; a token the keystore does not delete stays, and `logout` goes on (such a logout has failed as far as `AloneItWorks` asks) |
| `Expire`, `End`, `KillJob` | time, the control plane, a kill |

### `Recovery`: recovery keys and wrapped keys

A version's data key is named by the device that made it; a wrapped key is the
data key inside, which need not open the version: two devices may create a version
of the same number apart. `server` has the active recovery key, the trusted
devices and the records, `local[d]` the data keys of a device, `config[d]` its
recovery recipient, `given` the keys the user was shown, `late` (history) the
versions uploaded after the active key's setup had listed them.

| Actions | Code |
|---|---|
| `SetupCheck`, `SetupListsEncrypted`, `SetupPrepares`, `SetupDelivers`, `SetupCommits`, `SetupSaves` | `recovery setup`, with `prepareRemoteRecoveryReplacementKeys` |
| `RestoreLists`, `RestoreImports`, `RestoreRegisters`, `RestoreSaves` | `recovery restore` |
| `RewrapLists`, `RewrapPlans`, `RewrapPosts` | `rewrap`, in batches |
| `PushPlans`, `PushCommits`, `PushSaves`, `Pull`, `Status` | what push, pull and `recovery status` do with recipients |

Taken from how the code uses it: the control plane refuses to register a key
while one is active, and a batch if a version was uploaded meanwhile; it adds a
device's wrapped key only if it has none.

### `Workspaces`: identities, aliases and bindings

`ids[d]` are the identities of a vault (slug, alias, hosted workspace),
`bindings[d]` its prefixes, `secrets[d][k]` the prefix of a secret and what it is
sealed for, `hosted` the control plane's workspaces, `job[d]` what is left of a command
after its first save.

| Actions | Code |
|---|---|
| `CreateLocalWorkspace`, `SetLocalWorkspaceAlias`, `PutAlias`, `SaveAlias`, `Add` | `workspace create`, `workspace alias set`, `add` |
| `PushSyncs`, `PushRenames`, `PushUploads` | `prepareLocalWorkspacePush`, `RenameWorkspacePrefix`, `BindWorkspacePrefix` and the upload |
| `PullRegisters`, `PullAdopts`, `PullAdopted` | `registerPullWorkspace`, `RegisterRemoteWorkspace`, `AdoptRemoteWorkspace`, which saves twice |
| `Restore` | `ImportRecoveryRemoteSecretVersions` and its bindings |
| `Stopped` | a kill or a refused save between the steps |

One account; aliases are unique among the workspaces it sees (`SKILL.md:46`); the
control plane syncs a local identity to one workspace however often it is asked
(`SKILL.md:64-66`).

### `AuditLedger`: the chain of encrypted events

`file` has the audit fields of the state file (plain events of an old version, records,
head), `key` the ledger's key, `written` (history) what every save wrote. A hash is
named by the save that computed it and the record's place; a record changed in
any field is `Altered` and never verifies. A command that could not read the events is
`blind` if its file had anything of a ledger.

| Actions | Code |
|---|---|
| `Read`, `Load` | `Load` of the file, then `loadAuditFromLedger` and `decryptAuditLedger` with the key |
| `BeginSave`, `GiveUp`, `FindKey`, `Write`, `WriteFails` | `save`, `rebuildAuditLedger`, `auditLedgerKey`, `writeStateFile` |
| `Exit`, `Kill` | the end of a command |
| `LoseKey`, `ReturnKey`, `Edit` | outside the program: the keychain is reset or restored; the file is put together from parts of older ones |

The environment acts only while no save is under way. That a whole older file was
put back is not detected by the program, and nothing here says so.

## 3. The runs

`tlc -workers 2 -config <cfg> <module>` in this directory. Each takes from a few
seconds to about three minutes.

| Run | Asks | Bounds |
|---|---|---|
| `vault` | do interleaved, killed and failing commands keep keys, versions and seals, does nobody wait for ever, is each command atomic | 2 processes, 2 secrets of one workspace, 4 commands of any kind, 7 accounts, every fault |
| `gate` | is every release on record, do the ledgers agree, is a blocked command silent, is the child's vault current | 1 command of any kind, 2 secrets in 2 workspaces, 2 changes under it, every fault |
| `broker` | does `--once` release once and nothing after the stop; do the goroutines spoil each other's saves; is everything uploaded at exit | 2 requests, every way to end, nothing fails |
| `broker_live` | does the broker end | 1 request, failing loads, a renewed session, 1 change by another process |
| `sync` | are live values kept, deletions held, deleted secrets created again only knowingly; has a successful sync received what is live, and is it in step where it may write | 2 devices, 1 secret, 2 values, 2 versions, 1 deletion, restores, stops, permission that changes |
| `import` | does an import lose or leave a key, share one, or import what it cannot open | 1 secret, 3 seals (two of one value), 2 versions, 3 accounts, 3 modes, every fault |
| `delete` | is what a bulk delete reports true, and only what was shown deleted | 3 records, every fault, other members |
| `session` | does the next request or logout work whatever was left behind; is every live session held | 2 unlocked processes, 2 sessions, 2 expiries, login, login --force, logout |
| `recovery` | is the active key held, does it open what it should, is a restore complete | 2 devices, 1 version created on both, 2 recovery keys, every fault |
| `recovery_diverge` | is a version that cannot be decrypted refused by the setup (it is not: section 4) | 2 devices, 1 version, 1 key, no fault |
| `workspaces` | do identities, bindings and secrets agree | 2 devices, 2 names, 2 secrets, 2 hosted workspaces, 2 identities a vault, lost answers, kills |
| `ledger` | is what loads what was saved; does a save drop an event, the program its key, or a load call a sound vault damaged | 2 processes, 2 events, 2 saves, 2 keys, files of every age, every fault |

Why the bounds are enough. The hazards are between two commands, or a command
and one failure, over at most one earlier command that sets the vault up. Four
commands allow init, add, bind or rename, and one that races; an account is drawn per
key, so seven let every such sequence complete (`Room` keeps commands that would
exceed the bound from being planned). Two secrets are the least that has a batch,
a batch of two workspaces, and a mixed strict and buffered run. A broker with two
requests has five goroutines, two of them symmetric. A sync's conflict needs two
values under one number on two devices, an import's needs a seal that is equal
inside and one that is not, a version that stayed unpublished a second sync, a rollback one record before and one after the one that
fails, a retired recovery key two keys.

What the bounds leave out, because the runs would take too long: two
commands at the gate, two secrets of `Import`, a broker whose network fails, two secrets of
`Sync` (and so a batch of which a part may be written: TLC passes that too, apart from the rest, with
`Names = {n1, n2}`, one value, `MaxVersion = 1`, `Commands = {"sync"}` and `Environment = {"readonly"}`),
two versions of `Recovery`, requests of `Session` that fail remotely, `pull --force` and
bundles that hide secrets in `Sync` (what a run enables is named in its constants). The proofs cover
all of these, under the hypotheses named in section 5. In `Sync` a second deletion of one secret is outside the bound on
purpose: see section 4.

Deadlock is checked where a run never comes to rest. It is not in `vault`, `gate`, the
broker's runs and `workspaces`, where the commands are bounded, a process ends, or a
vault's names are taken; in `vault`, `NobodyWaits` tells rest from a deadlock.

Fairness is assumed by `broker_live` alone: each goroutine that can run does
(weak fairness); one that waits for the mutex gets it in the end, as Go's mutex hands over
to the longest waiter; and the longest run time ends, which
`options.withDefaults` always sets. Everything else is safety, or `NobodyWaits`, which says
of every state that some command can go on.

## 4. What the runs found

**`recovery_diverge` (a bug).** `recovery setup` covers a remote version it cannot decrypt
with the data key of *any* local version of the same path and number
(`recovery.go:666`), without comparing the two. If two devices created the version
apart, the new recovery key is given the wrong data key, the setup reports
success, and a restore finds the version cannot be decrypted; the error at
`recovery.go:681` promises that such a version fails the setup. `rewrap` has the
same fallback. `WrappedKeysOpen` therefore assumes `"matching"` in `recovery`.

Divergences seen while modelling. None of them is a run; each can be
reproduced with the property and constants named, which the passing runs avoid.

| Code | Says otherwise | Reproduce with |
|---|---|---|
| `device.go:286`: `device enroll` leaves the keys it stored when its save fails, and a wipe does not find them | `help.go:187`: `local wipe` deletes "Asiri key material for this machine" | `VaultStore`, `WipeRemovesKeyMaterial`, 1 secret, 3 commands, fault `"write"` |
| `sync_push.go:485`: a deletion is told from another by its version only, so that a second deletion of the same version counts as reconciled | `sync_push.go:488`, `store_test.go:136` | `Sync`, `RecreatedKnowingly`, `MaxDeletions = 2` |
| `secret_remote.go:310`: the listing that should tell whether a failed target is active gets token and workspace swapped, so that it always fails | `secret_remote.go:263`, `secret_remote_test.go:971` | `RemoteDelete`, `CheckedTargetCounts` |
| `store.go:2597`: an identity can be bound through its alias | `SKILL.md:74` | `Workspaces`, `AliasNeverBinds`, environment `"clash"` |
| `sync_push.go:280`: secrets restored under an unbound prefix are published a second time | `SKILL.md:45` | `Workspaces`, `PublishedOnce`, command `"restore"` |
| `broker.go:83`: a release whose save failed stays in `runtimeStore.current`; if the load at the stop fails, the last flush uploads this event, which no file has | `README.md:11`, `SKILL.md:110` | `Broker`, `AllowedIsLocal`, 1 request, faults `"load"` and `"write"` |
| `store.go:509`: a failed write whose key deletion fails too leaves a key with a legacy file, which the next load calls damaged | `store_test.go:693` | `AuditLedger`, `LegacyLoads`, faults `"delete"` and `"write"` |

Two smaller ones are outside the models: a `device trust` whose claim answer is
lost says "already trusted" when it is run again and its automatic rewrap never
runs (`device.go:181-226`, `auth.go:393-445`); and mounted files survive a killed
process (`runtime_env.go:180`).

## 5. The proofs

Checked by `tlapm` for any devices, processes, secrets, workspaces, bounds and faults
that the assumptions of the modules allow: `ConstantsAssumption`, `LedgerAssumption`,
`ImportAssumption`, `RecoveryAssumption`, `SessionAssumption`, `WorkspacesAssumption`,
`RemoteDeleteAssumption` and `SyncAssumption`. They give the constants their types and
say what the model needs of them (workspaces are sets of secrets, `NoProc` is no process);
TLC evaluates each in a run. A theorem about a property of a run names that property. Where a
theorem has a further hypothesis this section says why it is needed; the constants of the runs
satisfy it.

Every safety and action property of the passing runs is proved; what is left to TLC is named at the
end. The inductive invariants were given to TLC before they were proved, on instances like those of
the runs.

### `VaultStoreProofs`

* `TypeCorrect`: `TypeOK`. `LockedSaveIsCurrent`: `LockedNeverStale`. `NoLostSave`: `AuditGrows`.

`TypeOK` is not inductive for any of them. `Invariance` adds who holds the lock in each phase
(`LockHeld`); that equal stamps mean equal files and none is later than the clock
(`StampsTell`); that from the check of the snapshot to the write it is still the file
(`SnapCurrent`); and what the plan of a command established (`Planned`). One lemma for each
action or group of alike actions; `FileChanges` says which ones touch the file.

**Keys and versions.**

* `NothingUnreadable`: `KeysBacked`. `NothingForgotten`: `NoOrphanKeys`.
* `VersionsStaySound`: `VersionsSound`.

None of the three can be proved alone. That a key is not deleted while the file needs it rests on what a
command remembers (`drop`, `made`), on no two versions sharing an account, and on what the
file looked like when the command planned. `KInv` has, on top of the invariant above:

* of the file, `FileSound`: no account in use was drawn later than now; an account seals one version,
  and is no device's or ledger's (`OneOwner`); the newest version and only it is active (`Ordered`);
  bound paths are sealed as bound (`Bound`);
* of the keystore: it has every key the file needs (`Needed`) but the `cleared` ones, and only keys
  that the file, a fault or a command's memory accounts for (`Known`);
* of each command, `InMemory`: its new keys are its own, none twice, and together with what is still to
  be stored they are exactly those its plan asks for (`KeysMade`, `Fits`);
* of the one that holds the lock, `InStores`: its new keys are stored, and what it is about to
  delete (after its save, after a failure, in a wipe) is not needed by the file that is there then.

One lemma per action. For the write, `GoodSave` collects what the new file owes to
the old one, with a lemma for each command.

**Atomicity.**

* `AtomicVaultImplemented`: `ImplementsAtomicVault`. A command acts at its `Write`, as the one step of
  `AtomicVault` that is its own: one lemma each, from what `KInv` says of the new keys (the versions
  that `Rotated` and `Resealed` make are those the atomic vault makes, without their accounts).
  `Abort` and `Wipe` may remove the vault; no other step changes the file (`FileChanges`).

### `AuditGateProofs`

* `StrictIsOnRecord`, `LedgersDoAgree`, `BlockedIsContradicted`, `ChildSeesTheVault`: the
  four invariants of the run `gate`, here for any number of processes and commands, whereas TLC
  follows one.
* `GateIsImplemented`: every step of every command is a step of `ReleaseGate` or a stutter.

`Invariance` has what each phase of a command may rely on while others save. The
argument: a save succeeds only if the stamp is still the one that was loaded, so
what a command has in memory is either stale, and its save will be refused, or has the upload of
every event of the file (`Current`); and it has nothing that the file lacks but its own refusals
and failures (`Known`), so a save never brings back what somebody else removed. What a
phase has achieved (the events saved, the batches acknowledged: `InPhase`) cannot be undone by
another command, because files only grow in uploads and the control plane forgets nothing. The
proof has one lemma for what another's step leaves true (`SoundCarries`), two for a
command's own (`SoundEvents`, `SoundGoesOn`), and one per action.

### `BrokerProofs`

* `OneIsServed`: `OnceReleasesOne`, whatever fails.
* `OwnSavesAreCurrent`: `OwnSavesCurrent`, whatever writes and requests fail, if the state file
  can be loaded and the session is not renewed. Both are needed: a stop whose load fails flushes an
  older copy, and a renewal saves without the mutex.
* `MutexIsEnough`: `MutexSuffices`, that and `SyncedAtExit`, if at most the listener fails.

`LedgersInvariance` is their invariant. `Control`: where each goroutine may be (`Placed`), that one
in a critical phase has the mutex (`Locked`), and that a `--once` broker let one request in
(`OneClaims`). `Ledgers`: every event in any copy of the ledger (file, `current`, `latest`) is
`Sound`: recorded if marked, of an eligible request if it is a release, and with main past
its stop and no request at its check if it is the stop. One lemma per kind of goroutine says what it may
become (`Turns`, `Becomes`), one what it does to the copies (`Derived`). On top of it, `Timely` says
that who has the mutex works on the file's stamp, and `Calm` that it works on its very contents, and
that main leaves no event unmarked behind it.

**What is released and recorded.**

* `NothingIsReleasedLater`: `NothingAfterStop`. `AckedAreRecorded`: `AckedIsRecorded`. Both whatever fails.
* `BrokerLedgersAgree`: `LedgersAgree`. `BrokerKeepsPromise`: `ImplementsReleaseGate`. Both if the state
  file can be loaded; with failing loads both are false (section 4).

`BrokerInvariance` adds what the copies are worth: one with the file's stamp has the file's policy and
all its releases (`Descends`), and no copy that may be saved or uploaded has a release that the file has not
(`Grounded`), except the one that main flushes when it could not load (`Stale`); and what each
request has achieved (`Achieved`): the policy allowed it, its release is in the file, and in a strict
envelope at the control plane. `Steps` sums up what any goroutine does to these, so that the three
results about releases need no case for each action.

### `ImportProofs`

* `AccountsAreApart`: `OneAccountPerVersion`. `NothingIsLostOrLeft`: `NothingLostOrLeft`.
* `ImportedIsReadable`: `ImportedOpens`.

For bundles of any number of secrets, in any order of the keystore calls, whichever of them fail.
`ImportInvariance` has three parts beyond the types. `Sound`: a secret's versions have an account each, none
made later than now, which is what keeps a new account from hitting an old version. `Planned`: the
file to be saved is the old one with exactly the items stored so far live in it, so that an import
that ends with nothing left to store saves all it reports. `Was`: what an account held before the import,
in the keystore if nothing was stored there and in the backup otherwise; no call changes it unless
a load or an undo failed (`spoiled`), so that with every backup put back the keystore is as it was. `ItemSound`
carries the verdict of `Begin` through the import: an account that is taken over held an equal value,
which bounds what a kill may cost.

**Deletions and sessions.** A proof module is about one component, except that this one also
instantiates the two an import stands between: `Deletion` (`RemoteDelete`) and `Login`
(`Session`), with variables of their own. Their assumptions are hypotheses there
(`DeletionAssumption`, `LoginAssumption`).

* `RollbacksAreReported`: `Deletion!RollbackReportsTruly`. `DeletesWereShown`: `Deletion!OnlyWhatWasShown`.
  `DInv`: the plan of a command is what the last dry run's token names, and in bulk the device has none of
  its secrets (`Shown`); in each phase, what this device has deleted of the plan is among what it remembers
  as deleted, the target whose answer was lost, and the failures (`Accounted`).
* `SessionsAlwaysHeld`: `Login!SessionsHeld`. `AloneItAlwaysWorks`: `Login!AloneItWorks`.
  `SInv`: a live session's refresh token is in the keystore, was lost to a failure, or has just been
  granted to the login under way (`Held`), and where a command is about to drop a token its session is
  over (`Leaving`). `AInv` adds what a process may rely on while it is alone: the session of its
  request is live, and the token it holds, or will ask for again, is the valid one (`Undisturbed`); a
  logout's snapshot is the state file (`LogsOut`). That the leftovers of failures cannot
  disturb it is the point: nothing is assumed of them.

### `SyncProofs`

* `TypesHold`: `TypeOK`. `ValuesAreKept`: `ValuesKept`. In every environment.
* `SyncsAlign`: `Aligned`. `RecreationsAreKnowing`: `RecreatedKnowingly`. `DeletionsAlwaysHold`:
  `DeletionsHold`. Under `OneFloor`: a secret is deleted once, or no deleted record is restored.

With two deletions and a restore in between TLC refutes the last three: an older version
is active under a newer deleted one, a device that has the newer one skips it, and the second deletion
is of a lower version than the ledger has. `OneFloor` excludes just that, and holds in the run
`sync`.

`BaseInv` (`SyncInvariance`): one version of a secret is active on a device and at the control
plane (`LocalSound`, `RemoteSound`), what a bundle names is above its tombstone and still a record
(`BundleSound`), and a plan uploads what is live on the device and rewraps what the control plane has
the same of (`PlanSound`). `SInv` (`FloorInvariance`) adds `FloorInv`: the newest record is the active one or the one that was
deleted (`NewestCounts`, `DeletionsCount`); an entry of a device's ledger is an older state of the
tombstone (`Older`); no live version is deleted as far as both the device and the control plane
say (`NoneLiveDeleted`); and `JobSound`, what a command may rely on that has read the control
plane: what it was told is an older state of it (`Told`, `Past`), after the import the device has at
least what it was told (`Caught`), which is what a sync has received, and the secrets that it may write
and its plan leaves alone agree if they look as they did (`Agrees`). The key lemma says that a secret `Passes`: whatever a step does, what was known of
its past stays so, and if it looks as seen nothing happened to it. `AbsorbedFloor` then settles what
the import leaves, and `CommitAgrees` what the batch uploads and rewraps.

The proof corrected the property: `Aligned` had compared active versions alone, and two secrets are
enough for TLC to find that a deletion and a restore in between escape it. `Seen` now tells every
publication, deletion and restore. Where the user may not write a secret, only the receiving half of
`Aligned` holds, so `JobSound` keeps `Caught` until the batch is sent (`CaughtReceived`).

### `RecoveryProofs`

* `RecoveryKeyIsHeld`: the active recovery key is one the user was given; no hypothesis.
* `RecoveryKeyAlwaysWorks`: `RecoveryKeyWorks`. `WrappedKeysAlwaysOpen`: `WrappedKeysOpen`.
  `RestoreIsAlwaysComplete`: `RestoreIsComplete`. Under `Agreed`: devices never create versions of one
  number apart, or whoever wraps a key checks that it opens the version. Without it the three
  are false, which the run `recovery_diverge` shows of the code.

`HInv` is enough for the first: a setup writes the key down before it sends its recipient. The
others need `IInv` (`RecoveryInvariance`): where no device creates a version a second time, all have the
same data key of it (`OneOrigin`); every wrapped key opens its version (`RecordSound`); the active key opens all but the late versions
(`ActiveKeyOpens`); and, for each phase of each command, what it has listed that is still so when it
acts (`Relied`), given that the control plane forgets neither records nor recipients.

### `WorkspacesProofs`

* `NamesStayDistinct`: `IdentitiesDistinct`. `BindingsAgree`: `BindingAgrees`. `SecretsStaySealed`:
  `SecretsSealed`. Under `NoClash`: no alias is the slug of another workspace's domain. With one TLC
  refutes all three.

`WInv` (`WorkspacesInvariance`): what the control plane hosts is apart by name and slug (`HostedIn`);
a vault's identities are apart, tell what is hosted, and agree with bindings and secrets
(`VaultIn`: `IdentitiesHold`, `BindingHolds`, `SecretHolds`); and a command that was left half done finds
the prefix it is about to rename or adopt as its first save left it (`JobIn`). Two
lemmas carry it: the control plane only grows, and a migration of a prefix finds nothing of it missing.

### `AuditLedgerProofs`

* `LedgersAreSaves`: `LoadedWasSaved`; what verifies is the whole ledger of one save.
* `NoEventLost`: `AppendOnly`. `KeyIsKept`: `KeyKept`. `NoAlarmIsFalse`: `NoFalseAlarm`.

The heart is `ChainIsOneSave`: records of one key whose hashes chain up to a
head are the records of the head's save, by the least place at which they
would not be. The invariant adds that files are `Genuine` (made of parts of saves),
that a command that may save continues the last save, and that a key is made only while no
ledger was ever saved.

For the last theorem two more parts. `Fits`: no command has more events than were drawn, and one that
saves has room left. `Quiet`: as long as nobody else touched file or keychain, every file that was read
has nothing of a ledger or is the ledger of one save, under the key that is there. No
induction over the records is needed: what one save wrote is chained by construction.

### What stays with TLC

* Liveness and `ENABLED`: `BrokerStops`, `NobodyWaits`.
* What the hypotheses above exclude, where the code does not promise the property: section 4.

## 6. What is not modelled

* Members and service accounts: one remote request per command. What a service
  account's policies allow is in `AuditGate`.
* The macOS keychain calls and the passphrase file: I/O behind store, load, delete.
* Argument parsing, help, progress, and the format of requests and files;
  cryptography (a key opens what was sealed with it, a changed record does not verify).
* Packaging and installation.
* Of components that are modelled in part: backups and migration of older schemas
  (`VaultStore`); file names and removal of mounted files (`AuditGate`); listening, the
  client file and the token comparison (`Broker`); dry runs and the purge of tombstones
  (`Sync`); the polling of `device trust` and the deletion of a device at the control
  plane (devices); request signing and the checks of answers (`Session`).
