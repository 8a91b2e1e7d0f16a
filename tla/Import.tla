------------------------------- MODULE Import -------------------------------
(***************************************************************************)
(* One device imports bundles of encrypted records                         *)
(* (importRemoteSecretVersions in store/store.go): every key that a record *)
(* brings is put in the keystore, one call at a time, before the state     *)
(* file that names it is saved, and is taken back when a later call or the *)
(* save fails.  A record that is equal inside to the version it replaces   *)
(* reuses that version's account, so that an import may overwrite a key    *)
(* the state file still needs.                                             *)
(*                                                                         *)
(* An envelope is a version number and a seal; every envelope has a data   *)
(* key of its own, so an account holds the envelope its key opens.         *)
(***************************************************************************)
EXTENDS Naturals, FiniteSets, Functions

CONSTANTS Names,       \* the secrets
          Seals,       \* seals of an envelope
          Same,        \* these seal the same value
          MaxVersion,  \* bound: version numbers
          MaxAccounts, \* bound: accounts ever made, per name
          Modes,       \* subset of {"pull", "force", "sync"}
          Faults       \* subset of {"store", "save", "undo", "kill", "load"}

ASSUME ImportAssumption ==
    /\ Same \subseteq Seals
    /\ MaxVersion \in Nat /\ MaxAccounts \in Nat
    /\ Modes \subseteq {"pull", "force", "sync"}
    /\ Faults \subseteq {"store", "save", "undo", "kill", "load"}

VARIABLES file,     \* the state file: secrets (name -> versions) and refs (KeyRefs)
          keystore, \* account -> the envelope its key opens
          made,     \* made[n]: accounts made for n so far (names of accounts are random, never used twice)
          job       \* the import under way, or how the last one ended

vars == <<file, keystore, made, job>>

Envelopes == (1 .. MaxVersion) \X Seals
Ends == {"done", "failed", "killed"}

Equal(e, f) == e = f \/ (e[1] = f[1] /\ {e[2], f[2]} \subseteq Same)
Live(secret) == {x \in secret : x.status = "active"}
At(secret, v) == {x \in secret : x.env[1] = v}
Opens(keys, x) == x.account \in DOMAIN keys /\ keys[x.account] = x.env
Opened == {x \in UNION {file.secrets[n] : n \in Names} : Opens(keystore, x)}
Free == job.at \in Ends

Firsts == [Names -> {{}} \cup {{[status |-> s, env |-> <<v, t>>]} :
                        s \in {"active", "deleted"}, v \in 1 .. MaxVersion, t \in Same}]

\* A vault with at most one version of each name, whose key may be lost.
Start(first, kept) ==
    LET own(n) == {[status |-> x.status, env |-> x.env, account |-> <<n, 1>>] : x \in first[n]}
    IN  /\ file = [secrets |-> [n \in Names |-> own(n)],
                   refs |-> {<<n, 1>> : n \in {m \in Names : first[m] # {}}}]
        /\ keystore = [a \in {<<n, 1>> : n \in kept} |-> (CHOOSE x \in first[a[1]] : TRUE).env]
        /\ made = [n \in Names |-> IF first[n] = {} THEN 0 ELSE 1]

Init ==
    /\ \E first \in Firsts : \E kept \in SUBSET {n \in Names : first[n] # {}} : Start(first, kept)
    /\ job = [at |-> "done"]

-----------------------------------------------------------------------------
(* What the import makes of a record, and the account it would take over.  *)

\* A sync lets a newer local version stand.
SyncVerdict(secret, env) ==
    LET live == Live(secret)
        rival == {x \in At(live, env[1]) : x.env # env}
    IN  IF \E x \in live : x.env[1] > env[1] THEN "skip"
        ELSE IF \E x \in rival : ~Opens(keystore, x) THEN "blocked"
        ELSE IF \E x \in rival : ~Equal(x.env, env) THEN "conflict"
        ELSE "take"

\* A pull without --force takes what the device never had, has already, or
\* has as a deleted version with this envelope.
PullVerdict(secret, env) ==
    LET live == At(Live(secret), env[1])
        rival == {x \in live : x.env # env}
        buried == {x \in secret : Live(secret) = {} /\ x.status = "deleted" /\ x.env = env}
    IN  IF secret = {} THEN "take"
        ELSE IF live \cup buried = {} THEN "conflict"
        ELSE IF \E x \in rival : ~Opens(keystore, x) THEN "blocked"
        ELSE IF \E x \in rival : ~Equal(x.env, env) THEN "conflict"
        ELSE "take"

\* A record is "locked" when the device cannot unwrap or decrypt it, "foreign"
\* when its prefix is bound to another workspace.
Verdict(mode, secret, record) ==
    LET verdict == CASE mode = "sync" -> SyncVerdict(secret, record.env)
                     [] mode = "pull" -> PullVerdict(secret, record.env)
                     [] OTHER         -> "take"
    IN  CASE record.kind = "locked"                        -> "partial"
          [] record.kind = "foreign" /\ verdict = "take"   -> "blocked"
          [] OTHER                                         -> verdict

\* (bug: the account of the live version, whatever its number)
ReusedLive(mode, secret, env) == Live(secret)

\* The version whose account the record takes over, if any: the one with its
\* envelope, or the live one with its number, which is equal inside unless the
\* pull is forced.
Reused(mode, secret, env) ==
    LET live == At(Live(secret), env[1])
    IN  IF mode # "force" /\ live # {} THEN live ELSE {x \in secret : x.env = env}

Item(mode, n, env) ==
    LET old == Reused(mode, file.secrets[n], env)
    IN  [name |-> n, env |-> env,
         account |-> IF old = {} THEN <<n, made[n] + 1>> ELSE (CHOOSE x \in old : TRUE).account]

-----------------------------------------------------------------------------
Records == {[kind |-> k, env |-> e] : k \in {"ok", "locked", "foreign"}, e \in Envelopes}

\* A bundle arrives.  A conflict, a blocked record, or in a sync one that
\* cannot be opened, fails the whole import before it touches the keystore.
Begin(mode, bundle) ==
    LET verdict == [n \in DOMAIN bundle |-> Verdict(mode, file.secrets[n], bundle[n])]
        items == {Item(mode, n, bundle[n].env) : n \in {m \in DOMAIN bundle : verdict[m] = "take"}}
        new == {i \in items : i.account = <<i.name, made[i.name] + 1>>}
        bad == {"conflict", "blocked"} \cup (IF mode = "sync" THEN {"partial"} ELSE {})
        partial == \E n \in DOMAIN bundle : verdict[n] = "partial"
    IN  /\ Free
        /\ UNCHANGED <<file, keystore>>
        /\ \/ /\ \E n \in DOMAIN bundle : verdict[n] \in bad
              /\ job' = [at |-> "failed"]
              /\ UNCHANGED made
           \/ /\ \A n \in DOMAIN bundle : verdict[n] \notin bad
              /\ items = {}
              /\ job' = [at |-> IF partial THEN "failed" ELSE "done"]
              /\ UNCHANGED made
           \/ /\ \A n \in DOMAIN bundle : verdict[n] \notin bad
              /\ items # {}
              /\ \A i \in new : i.account[2] <= MaxAccounts
              /\ made' = [n \in Names |-> IF \E i \in new : i.name = n THEN made[n] + 1 ELSE made[n]]
              /\ job' = [at |-> "items", todo |-> items, items |-> items, stored |-> {},
                         file |-> file, opened |-> Opened, stray |-> DOMAIN keystore \ file.refs,
                         spoiled |-> FALSE]

\* (bug: the version that was live stays live)
WithLiveToo(secret, item) ==
    {y \in secret : y.env[1] # item.env[1]}
      \cup {[status |-> "active", env |-> item.env, account |-> item.account]}

\* The secret with the item's version live, in the place of the one with its number.
WithLive(secret, item) ==
    {IF x.status = "active" THEN [x EXCEPT !.status = "stale"] ELSE x :
        x \in {y \in secret : y.env[1] # item.env[1]}}
      \cup {[status |-> "active", env |-> item.env, account |-> item.account]}

\* (bug: the account is not listed)
TakeUnlisted(files, item) == [files EXCEPT !.secrets[item.name] = WithLive(@, item)]

Take(files, item) ==
    [secrets |-> [files.secrets EXCEPT ![item.name] = WithLive(@, item)],
     refs |-> files.refs \cup {item.account}]

\* The key that is put back if the import fails: what the keystore held.
Previous(account) == IF account \in DOMAIN keystore THEN {keystore[account]} ELSE {}

\* The keystore with the key of this envelope in the account.
Stored(account, env) ==
    [a \in DOMAIN keystore \cup {account} |-> IF a = account THEN env ELSE keystore[a]]

\* (bug: a key that is there is left as it is)
PutIfAbsent(item) ==
    IF item.account \in DOMAIN keystore THEN keystore ELSE Stored(item.account, item.env)

Put(item) == Stored(item.account, item.env)

\* A load that fails is taken for an account that does not exist.
StoreKey(item) ==
    /\ job.at = "items"
    /\ item \in job.todo
    /\ keystore' = Put(item)
    /\ \E was \in {Previous(item.account)} \cup (IF "load" \in Faults THEN {{}} ELSE {}) :
         job' = [job EXCEPT !.todo = @ \ {item},
                            !.stored = @ \cup {[account |-> item.account, was |-> was]},
                            !.spoiled = @ \/ was # Previous(item.account),
                            !.file = Take(@, item)]
    /\ UNCHANGED <<file, made>>

StoreFails ==
    /\ "store" \in Faults
    /\ job.at = "items"
    /\ job.todo # {}
    /\ job' = [job EXCEPT !.at = "undo"]
    /\ UNCHANGED <<file, keystore, made>>

Save ==
    /\ job.at = "items"
    /\ job.todo = {}
    /\ file' = job.file
    /\ job' = [at |-> "done"]
    /\ UNCHANGED <<keystore, made>>

SaveFails ==
    /\ "save" \in Faults
    /\ job.at = "items"
    /\ job.todo = {}
    /\ job' = [job EXCEPT !.at = "undo"]
    /\ UNCHANGED <<file, keystore, made>>

\* (bug: what was stored is deleted, whatever was there before)
RestoredToNothing(s) == Restrict(keystore, DOMAIN keystore \ {s.account})

Restored(s) == IF s.was = {} THEN Restrict(keystore, DOMAIN keystore \ {s.account})
               ELSE Stored(s.account, CHOOSE e \in s.was : TRUE)

\* restoreStoredAccounts, one account at a time; its errors are dropped.
Undo(s) ==
    /\ job.at = "undo"
    /\ s \in job.stored
    /\ \E fails \in {FALSE} \cup (IF "undo" \in Faults THEN {TRUE} ELSE {}) :
         /\ keystore' = IF fails THEN keystore ELSE Restored(s)
         /\ job' = [job EXCEPT !.stored = @ \ {s}, !.spoiled = @ \/ fails]
    /\ UNCHANGED <<file, made>>

Undone ==
    /\ job.at = "undo"
    /\ job.stored = {}
    /\ job' = [at |-> "failed"]
    /\ UNCHANGED <<file, keystore, made>>

Kill ==
    /\ "kill" \in Faults
    /\ ~Free
    /\ job' = [at |-> "killed"]
    /\ UNCHANGED <<file, keystore, made>>

Next ==
    \/ \E mode \in Modes, names \in SUBSET Names : \E bundle \in [names -> Records] : Begin(mode, bundle)
    \/ ~Free /\ \E item \in job.todo : StoreKey(item)
    \/ StoreFails \/ Save \/ SaveFails
    \/ ~Free /\ \E s \in job.stored : Undo(s)
    \/ Undone \/ Kill

Spec == Init /\ [][Next]_vars

-----------------------------------------------------------------------------
(* Properties.                                                             *)

\* Each secret has at most one live version and one version per number, and
\* no key is stored under a name that was never made.
TypeOK ==
    /\ \A n \in Names : \A x, y \in file.secrets[n] :
         /\ x.account[1] = n /\ x.env \in Envelopes
         /\ x.env[1] = y.env[1] => x = y
         /\ x.status = "active" /\ y.status = "active" => x = y
    /\ \A a \in DOMAIN keystore : a[2] <= made[a[1]]

\* No two versions share an account: a key stored for one would destroy the
\* key of the other (store.go, reusedDataKeyAccount).
OneAccountPerVersion ==
    TypeOK /\ \A n \in Names : \A x, y \in file.secrets[n] : x.account = y.account => x = y

\* The state file after the step still names the key that opens x.
Named(x) == \E y \in file'.secrets[x.account[1]] : y.account = x.account /\ y.env = x.env

\* An import that ends, well or badly, costs no key: what the device could
\* read when it began it can read when it ends, unless the import replaced it
\* (restoreStoredAccounts).  Killed, or failing to take back what it stored, it
\* costs at most the keys whose accounts it took over for an envelope of the
\* same value.
NoKeyLost ==
    [][ ~Free /\ Free' =>
          \A x \in job.opened :
             \/ Named(x) => Opens(keystore', x)
             \/ /\ job.spoiled \/ job'.at = "killed"
                /\ \E i \in job.items : i.account = x.account /\ Equal(i.env, x.env) ]_vars

\* An import that could take back what it stored leaves no key that the state
\* file does not list: a wipe or a removal would not find it.
NoStrayKey ==
    [][ ~Free /\ Free' /\ ~job.spoiled /\ job'.at # "killed" =>
          DOMAIN keystore' \ file'.refs \subseteq job.stray ]_vars

NothingLostOrLeft == NoKeyLost /\ NoStrayKey

\* What an import reports as imported, the device can read, whatever an
\* earlier one left in the keystore; a pull --force thus repairs it.
ImportedOpens ==
    [][ ~Free /\ job'.at = "done" =>
          \A i \in job.items : \E x \in Live(file'.secrets[i.name]) :
             x.env = i.env /\ Opens(keystore', x) ]_vars
=============================================================================
