------------------------------ MODULE Recovery ------------------------------
(***************************************************************************)
(* recovery setup, restore and status, and rewrap (cli/recovery.go), for   *)
(* the devices of one remote workspace, with the parts of push and pull    *)
(* that add recipients to a version or read it.                            *)
(*                                                                         *)
(* A slot is a name and a version.  The data key that encrypts a version   *)
(* is named by the device that created it: two devices that each create    *)
(* the slot before either pushes it have different keys for it.  A wrapped *)
(* key is the data key inside, which need not be the one that opens the    *)
(* version: only a decryption tells, and only the importing commands do    *)
(* decrypt.                                                                *)
(***************************************************************************)
EXTENDS Naturals, FiniteSets

CONSTANTS Devices,
          Slots,
          First,       \* the device that is trusted from the start
          MaxKeys,     \* bound: recovery keys generated
          Batch,       \* entries of a rewrap that are sent together
          Commands,    \* subset of {"setup", "restore", "rewrap", "push", "pull", "status"}
          Environment, \* subset of {"diverge", "matching"}: slots are created on two devices;
                       \* setup and rewrap run where no such slot stands in for a remote key
          Faults       \* subset of {"refuse", "lost", "save", "file", "kill"}

ASSUME RecoveryAssumption ==
    /\ First \in Devices
    /\ MaxKeys \in Nat /\ Batch \in Nat \ {0}
    /\ Commands \subseteq {"setup", "restore", "rewrap", "push", "pull", "status"}
    /\ Environment \subseteq {"diverge", "matching"}
    /\ Faults \subseteq {"refuse", "lost", "save", "file", "kill"}

VARIABLES server,  \* the active recovery key, the trusted devices, the records
          local,   \* local[d][s]: the data key d has for the slot, or None
          config,  \* config[d]: the recovery recipient in d's state file
          job,     \* job[d]: the command d runs under its state lock
          made,    \* recovery keys generated
          given,   \* those written or shown to the user
          late     \* history: slots uploaded after the active key's setup had listed them

vars == <<server, local, config, job, made, given, late>>

None == "none"
NoKey == 0
Keys == 1 .. MaxKeys
Idle(cmd, last) == [at |-> "idle", cmd |-> cmd, last |-> last]
Busy(d) == job[d].at # "idle"

\* The data keys for the slots; none of them.
NoneHeld == [s \in Slots |-> None]
NoRecord == [env |-> None, dev |-> [d \in Devices |-> None], rec |-> [k \in Keys |-> None]]

Present(recs) == {s \in Slots : recs[s].env # None}

\* dataKeyForSecretVersion; RemoteWrappedKeyForSecretVersionPublicKey
LocalKey(d, s) == local[d][s]

\* UnwrapDeviceDataKey, for a listing: the keys wrapped to d.
Unwrapped(d, recs) == [s \in Slots |-> recs[s].dev[d]]

\* The remote key if the listing holds one, else that of the local version with
\* the same number.
KeyFor(d, opens, s) == IF opens[s] # None THEN opens[s] ELSE LocalKey(d, s)

Matching(d, opens) ==
    "matching" \in Environment => \A s \in Present(server.recs) : KeyFor(d, opens, s) \in {None, server.recs[s].env}

Init ==
    /\ server = [active |-> NoKey, trusted |-> {First}, recs |-> [s \in Slots |-> NoRecord]]
    /\ local = [d \in Devices |-> NoneHeld]
    /\ config = [d \in Devices |-> NoKey]
    /\ job = [d \in Devices |-> Idle("none", "ok")]
    /\ made = 0 /\ given = {} /\ late = {}

Goes(d, next) == job' = [job EXCEPT ![d] = next]
Ends(d, last) == Goes(d, Idle(job[d].cmd, last))

\* The state file is saved, or the save fails and with it the command.
Saves(d, next) ==
    \/ config' = [config EXCEPT ![d] = next] /\ Ends(d, "ok")
    \/ "save" \in Faults /\ UNCHANGED config /\ Ends(d, "failed")

\* A request is applied and answered, applied with the answer lost, or neither.
Answered(d, next) == Goes(d, next)
Unanswered(d) == "lost" \in Faults /\ Ends(d, "failed")
Refused(d) == "refuse" \in Faults /\ Ends(d, "failed") /\ UNCHANGED <<server, late>>

Starts(d, cmd) == cmd \in Commands /\ ~Busy(d) /\ d \in server.trusted

-----------------------------------------------------------------------------
(* recovery setup.                                                         *)

\* --force is needed, and used, only to replace a key.
SetupCheck(d, force) ==
    /\ Starts(d, "setup")
    /\ made < MaxKeys
    /\ IF server.active # NoKey /\ ~force
       THEN Goes(d, Idle("setup", "refused"))
       ELSE Goes(d, [at |-> "encrypted", cmd |-> "setup", replaces |-> server.active # NoKey])
    /\ UNCHANGED <<server, local, config, made, given, late>>

SetupListsEncrypted(d) ==
    /\ job[d].at = "encrypted"
    /\ Goes(d, [at |-> "metadata", cmd |-> "setup", replaces |-> job[d].replaces,
                opens |-> Unwrapped(d, server.recs)])
    /\ UNCHANGED <<server, local, config, made, given, late>>

\* (bug: the versions without a key are left out)
CoverageOfSome(d, opens, listed) == {s \in listed : KeyFor(d, opens, s) # None}

Coverage(d, opens, listed) == listed

\* prepareRemoteRecoveryReplacementKeys
SetupPrepares(d) ==
    /\ job[d].at = "metadata"
    /\ Matching(d, job[d].opens)
    /\ LET covered == Coverage(d, job[d].opens, Present(server.recs))
           keys == [s \in Slots |-> IF s \in covered THEN KeyFor(d, job[d].opens, s) ELSE None] IN
       IF \E s \in covered : keys[s] = None
       THEN Ends(d, "refused") /\ UNCHANGED made
       ELSE /\ made < MaxKeys
            /\ made' = made + 1
            /\ Goes(d, [at |-> "deliver", cmd |-> "setup", replaces |-> job[d].replaces,
                        key |-> made + 1, keys |-> keys, listed |-> Present(server.recs)])
    /\ UNCHANGED <<server, local, config, given, late>>

\* (bug: the key is counted when the next one is made)
DeliversUncounted(d) == given' = given \cup {made + 1} /\ Goes(d, [job[d] EXCEPT !.at = "commit"])

\* (bug: the file is not waited for)
DeliversLater(d) ==
    \/ given' = given \cup {job[d].key} /\ Goes(d, [job[d] EXCEPT !.at = "commit"])
    \/ "file" \in Faults /\ UNCHANGED given /\ Goes(d, [job[d] EXCEPT !.at = "commit"])

\* The key is written to the file reserved for it, or shown; without that
\* nothing is sent.
Delivers(d) ==
    \/ given' = given \cup {job[d].key} /\ Goes(d, [job[d] EXCEPT !.at = "commit"])
    \/ "file" \in Faults /\ UNCHANGED given /\ Ends(d, "failed")

SetupDelivers(d) ==
    /\ job[d].at = "deliver"
    /\ Delivers(d)
    /\ UNCHANGED <<server, local, config, made, late>>

WithRecovery(recs, k, keys) == [s \in Slots |-> IF keys[s] = None THEN recs[s] ELSE [recs[s] EXCEPT !.rec[k] = keys[s]]]

\* registerRemoteRecoveryRecipient, replaceRemoteRecoveryRecipient: the key and
\* its wrapped keys together.  A registration is refused when a key is active.
SetupCommits(d) ==
    /\ job[d].at = "commit"
    /\ LET j == job[d] IN
       \/ /\ j.replaces \/ server.active = NoKey
          /\ server' = [server EXCEPT !.active = j.key, !.recs = WithRecovery(@, j.key, j.keys)]
          /\ late' = Present(server.recs) \ j.listed
          /\ \/ Answered(d, [at |-> "commitLocal", cmd |-> "setup", key |-> j.key])
             \/ Unanswered(d)
       \/ ~j.replaces /\ server.active # NoKey /\ Ends(d, "refused") /\ UNCHANGED <<server, late>>
       \/ Refused(d)
    /\ UNCHANGED <<local, config, made, given>>

\* CommitRecoverySetup and MarkRecoveryWrapped.
SetupSaves(d) ==
    /\ job[d].at = "commitLocal"
    /\ Saves(d, job[d].key)
    /\ UNCHANGED <<server, local, made, given, late>>

-----------------------------------------------------------------------------
(* recovery restore.                                                       *)

\* The key is any the user was ever given; the listing is of the versions
\* wrapped to it.
RestoreLists(d, k, force) ==
    /\ Starts(d, "restore")
    /\ k \in given
    /\ LET listed == {s \in Slots : server.recs[s].rec[k] # None} IN
       Goes(d, [at |-> IF listed = {} THEN "identity" ELSE "import", cmd |-> "restore", key |-> k,
                force |-> force, listed |-> listed, recs |-> server.recs])
    /\ UNCHANGED <<server, local, config, made, given, late>>

\* ImportRecoveryRemoteSecretVersions: a key that does not open its version is
\* skipped and, once the rest is saved, an error; a different local version of
\* the same number is a conflict unless forced.
RestoreImports(d) ==
    /\ job[d].at = "import"
    /\ LET j == job[d]
           opened == {s \in j.listed : j.recs[s].rec[j.key] = j.recs[s].env}
           conflicts == {s \in opened : local[d][s] \notin {None, j.recs[s].env}} IN
       \/ conflicts # {} /\ ~j.force /\ Ends(d, "conflict") /\ UNCHANGED local
       \/ /\ conflicts = {} \/ j.force
          /\ local' = [local EXCEPT ![d] = [s \in Slots |-> IF s \in opened THEN j.recs[s].env ELSE @[s]]]
          /\ IF opened = j.listed THEN Goes(d, [j EXCEPT !.at = "register"]) ELSE Ends(d, "skipped")
       \/ "save" \in Faults /\ Ends(d, "failed") /\ UNCHANGED local
    /\ UNCHANGED <<server, config, made, given, late>>

Unregistered(d) == {s \in job[d].listed : job[d].recs[s].dev[d] = None /\ LocalKey(d, s) # None}

\* (bug: a version that could not be registered is passed over)
RegisterNext(d, s) == Goes(d, [job[d] EXCEPT !.listed = @ \ {s}])
RegisterFailsPassesOver(d, s) == "refuse" \in Faults /\ RegisterNext(d, s) /\ UNCHANGED <<server, late>>

RegisterFails(d, s) == Refused(d)

Added(recs, s, d, key) == IF recs[s].dev[d] = None THEN [recs EXCEPT ![s].dev[d] = key] ELSE recs

\* addRecoveredDeviceWrappedKeys: one request for each version.
RestoreRegisters(d) ==
    /\ job[d].at = "register"
    /\ IF Unregistered(d) = {}
       THEN Goes(d, [job[d] EXCEPT !.at = "identity"]) /\ UNCHANGED <<server, late>>
       ELSE LET s == CHOOSE x \in Unregistered(d) : TRUE IN
            \/ /\ server' = [server EXCEPT !.recs = Added(@, s, d, LocalKey(d, s))]
               /\ Answered(d, [job[d] EXCEPT !.recs[s].dev[d] = LocalKey(d, s)]) \/ Unanswered(d)
               /\ UNCHANGED late
            \/ RegisterFails(d, s)
    /\ UNCHANGED <<local, config, made, given>>

\* commitRecoveryIdentity: whether or not the key is still the active one.
RestoreSaves(d) ==
    /\ job[d].at = "identity"
    /\ Saves(d, job[d].key)
    /\ UNCHANGED <<server, local, made, given, late>>

-----------------------------------------------------------------------------
(* rewrap.                                                                 *)

RewrapLists(d) ==
    /\ Starts(d, "rewrap")
    /\ Goes(d, [at |-> "targets", cmd |-> "rewrap", recs |-> server.recs])
    /\ UNCHANGED <<server, local, config, made, given, late>>

\* (bug: a device that is a recipient already is wrapped for again)
MissingAll(recs, s, t) == TRUE

Missing(recs, s, t) == recs[s].dev[t] = None

\* rewrapWorkspace: the targets are asked for after the records; a version this
\* device has no key for is skipped.
RewrapPlans(d) ==
    /\ job[d].at = "targets"
    /\ Matching(d, Unwrapped(d, job[d].recs))
    /\ LET recs == job[d].recs
           entries == {e \in Present(recs) \X server.trusted :
                         Missing(recs, e[1], e[2]) /\ KeyFor(d, Unwrapped(d, recs), e[1]) # None} IN
       Goes(d, [at |-> "post", cmd |-> "rewrap", entries |-> entries,
                keys |-> [s \in Slots |-> KeyFor(d, Unwrapped(d, recs), s)]])
    /\ UNCHANGED <<server, local, config, made, given, late>>

Wrapped(recs, entries, keys) ==
    [s \in Slots |-> [recs[s] EXCEPT !.dev = [t \in Devices |->
        IF <<s, t>> \in entries /\ @[t] = None THEN keys[s] ELSE @[t]]]]

\* Batches, in the order of the listing; an error leaves those before it.
RewrapPosts(d) ==
    /\ job[d].at = "post"
    /\ LET j == job[d]
           left == {e[1] : e \in j.entries} IN
       IF left = {}
       THEN (Ends(d, "ok") \/ ("save" \in Faults /\ Ends(d, "failed"))) /\ UNCHANGED <<server, late>>
       ELSE \E part \in SUBSET left :
              /\ Cardinality(part) = IF Cardinality(left) < Batch THEN Cardinality(left) ELSE Batch
              /\ LET sent == {e \in j.entries : e[1] \in part} IN
                 \/ /\ server' = [server EXCEPT !.recs = Wrapped(@, sent, j.keys)]
                    /\ Answered(d, [j EXCEPT !.entries = @ \ sent]) \/ Unanswered(d)
                    /\ UNCHANGED late
                 \/ Refused(d)
    /\ UNCHANGED <<local, config, made, given>>

-----------------------------------------------------------------------------
(* push, pull and status, as far as recipients go.                         *)

\* A slot is created here and nowhere else, unless the devices diverge.
Creates(d, s) ==
    /\ ~Busy(d)
    /\ local[d][s] = None
    /\ \/ "diverge" \in Environment
       \/ server.recs[s].env = None /\ \A o \in Devices : local[o][s] = None
    /\ local' = [local EXCEPT ![d][s] = d]
    /\ UNCHANGED <<server, config, job, made, given, late>>

\* (bug: only the number of the version counts)
DiffersNever(d, s) == FALSE

\* remoteSecretEnvelopeMatches
Differs(d, s) == server.recs[s].env # local[d][s]

\* The plan names the active recovery recipient.  A version that is already there gets the device keys it lacks; it conflicts
\* when it is another one, or lacks the recovery key.
PushPlans(d) ==
    /\ Starts(d, "push")
    /\ LET mine == {s \in Slots : local[d][s] # None}
           there == mine \cap Present(server.recs)
           k == server.active
           conflict == \E s \in there : \/ Differs(d, s)
                                        \/ k # NoKey /\ server.recs[s].rec[k] = None IN
       /\ mine # {}
       /\ IF conflict THEN Goes(d, Idle("push", "conflict"))
          ELSE Goes(d, [at |-> "batch", cmd |-> "push", key |-> k, active |-> server.active, targets |-> server.trusted,
                        uploads |-> mine \ there, rewraps |-> there])
    /\ UNCHANGED <<server, local, config, made, given, late>>

Uploaded(d, j) ==
    [s \in Slots |->
       LET r == server.recs[s]
           wrapped == [t \in Devices |-> IF t \in j.targets \cup {d} /\ r.dev[t] = None THEN local[d][s] ELSE r.dev[t]] IN
       IF s \in j.uploads THEN [env |-> local[d][s], dev |-> wrapped,
                                rec |-> [k \in Keys |-> IF k = j.key THEN local[d][s] ELSE None]]
       ELSE IF s \in j.rewraps THEN [r EXCEPT !.dev = wrapped] ELSE r]

\* One batch, all or nothing; refused when another device uploaded meanwhile.
PushCommits(d) ==
    /\ job[d].at = "batch"
    /\ LET j == job[d] IN
       \/ /\ j.uploads \cap Present(server.recs) = {}
          /\ server' = [server EXCEPT !.recs = Uploaded(d, j)]
          /\ late' = IF j.active = server.active THEN late ELSE late \cup j.uploads
          /\ Answered(d, [at |-> "pushed", cmd |-> "push", key |-> j.key]) \/ Unanswered(d)
       \/ j.uploads \cap Present(server.recs) # {} /\ Ends(d, "refused") /\ UNCHANGED <<server, late>>
       \/ Refused(d)
    /\ UNCHANGED <<local, config, made, given>>

\* The recipient in the state file follows the plan.
PushSaves(d) ==
    /\ job[d].at = "pushed"
    /\ Saves(d, job[d].key)
    /\ UNCHANGED <<server, local, made, given, late>>

\* A pull skips what its key does not open, and imports nothing if a local
\* version of the same number is another one.
Pull(d) ==
    /\ Starts(d, "pull")
    /\ LET opened == {s \in Slots : server.recs[s].env # None /\ server.recs[s].dev[d] = server.recs[s].env} IN
       /\ opened # {}
       /\ IF \A s \in opened : local[d][s] \in {None, server.recs[s].env}
          THEN /\ local' = [local EXCEPT ![d] = [s \in Slots |-> IF s \in opened THEN server.recs[s].env ELSE @[s]]]
               /\ Goes(d, Idle("pull", "ok"))
          ELSE UNCHANGED local /\ Goes(d, Idle("pull", "conflict"))
    /\ UNCHANGED <<server, config, made, given, late>>

\* recovery status drops or replaces a recipient that is not the active one.
Status(d) ==
    /\ Starts(d, "status")
    /\ config' = [config EXCEPT ![d] = server.active]
    /\ Goes(d, Idle("status", "ok"))
    /\ UNCHANGED <<server, local, made, given, late>>

-----------------------------------------------------------------------------
Kill(d) ==
    /\ "kill" \in Faults
    /\ Busy(d)
    /\ Ends(d, "killed")
    /\ UNCHANGED <<server, local, config, made, given, late>>

Trust(d) ==
    /\ d \notin server.trusted
    /\ server' = [server EXCEPT !.trusted = @ \cup {d}]
    /\ UNCHANGED <<local, config, job, made, given, late>>

Step(d) ==
    \/ \E force \in BOOLEAN : SetupCheck(d, force)
    \/ SetupListsEncrypted(d) \/ SetupPrepares(d) \/ SetupDelivers(d) \/ SetupCommits(d) \/ SetupSaves(d)
    \/ \E k \in Keys, force \in BOOLEAN : RestoreLists(d, k, force)
    \/ RestoreImports(d) \/ RestoreRegisters(d) \/ RestoreSaves(d)
    \/ RewrapLists(d) \/ RewrapPlans(d) \/ RewrapPosts(d)
    \/ PushPlans(d) \/ PushCommits(d) \/ PushSaves(d)
    \/ Pull(d) \/ Status(d)

Next == \E d \in Devices : Step(d) \/ Kill(d) \/ Trust(d) \/ \E s \in Slots : Creates(d, s)

Spec == Init /\ [][Next]_vars

-----------------------------------------------------------------------------
(* Properties.                                                             *)

TypeOK ==
    /\ server.active \in Keys \cup {NoKey}
    /\ server.trusted \subseteq Devices
    /\ \A s \in Slots : server.recs[s] \in [env : Devices \cup {None}, dev : [Devices -> Devices \cup {None}],
                                            rec : [Keys -> Devices \cup {None}]]
    /\ local \in [Devices -> [Slots -> Devices \cup {None}]]
    /\ config \in [Devices -> Keys \cup {NoKey}]
    /\ given \subseteq 1 .. made

\* The key the control plane wraps new versions to is one the user has: a setup
\* that fails or is killed anywhere never leaves one nobody holds
\* (recovery setup writes the key before it sends the recipient).
ActiveKeyIsHeld == server.active # NoKey => server.active \in given

\* Every version can be restored with the active key, whatever setups, pushes
\* and rewraps crossed, except those uploaded between the listing and the
\* commit of its setup or from a plan made before it
\* (prepareRemoteRecoveryReplacementKeys, the push plan's recipient).
ActiveKeyOpens ==
    server.active # NoKey =>
        \A s \in Present(server.recs) \ late : server.recs[s].rec[server.active] = server.recs[s].env

\* The recovery key that new versions are wrapped to is worth having.
RecoveryKeyWorks == TypeOK /\ ActiveKeyIsHeld /\ ActiveKeyOpens

\* Although no command that wraps a key tries it, and devices create versions
\* of the same number apart, every wrapped key opens its version, so long as
\* setup and rewrap are not run where such a version stands in for a remote key
\* (remoteSecretEnvelopeMatches, the import's decryption).
WrappedKeysOpen ==
    \A s \in Present(server.recs) :
        /\ \A d \in Devices : server.recs[s].dev[d] \in {None, server.recs[s].env}
        /\ \A k \in Keys : server.recs[s].rec[k] \in {None, server.recs[s].env}

\* A restore that ends well leaves this device with every version it listed, and
\* as a recipient of each: it can pull them ever after (recoveryRestore).
RestoreIsComplete ==
    [][\A d \in Devices :
         (job[d].at = "identity" /\ job'[d] = Idle("restore", "ok")) =>
            \A s \in {x \in Slots : job[d].recs[x].rec[job[d].key] # None} :
                local[d][s] = server.recs[s].env /\ server.recs[s].dev[d] = server.recs[s].env]_vars

\* A version this device cannot decrypt is not covered: it fails the setup.  A
\* device's own version of the same number and another content has no part in it.
CoveredCanBeDecrypted ==
    \A d \in Devices : job[d].at = "commitLocal" =>
        \A s \in Present(server.recs) : server.recs[s].rec[job[d].key] \in {None, server.recs[s].env}

=============================================================================
