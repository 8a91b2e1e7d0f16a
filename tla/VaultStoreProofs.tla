-------------------------- MODULE VaultStoreProofs --------------------------
(***************************************************************************)
(* What holds of the local vault for any number of processes, secrets,     *)
(* workspaces, accounts and commands, and any faults, in three parts.  The *)
(* lock and the file: no save overwrites another's.  The keys: none that   *)
(* is needed is lost, none is left behind, and the versions stay in order. *)
(* The atomic vault: one lemma for each command's save, one for the        *)
(* removal of the vault; no other step changes the state file.             *)
(***************************************************************************)
EXTENDS VaultStore, TLAPS

-----------------------------------------------------------------------------
(* The lock and the file: the inductive invariant.                         *)

\* A state file that exists belongs to a vault.
WellFormed(f) == IF f.stamp = 0 THEN f = Absent ELSE f.ledger # None

\* The processes that the code lets run only with the lock.
NeedsLock(r) ==
  /\ r.phase \notin {"idle", "opening"}
  /\ Lifecycle(r.cmd) \/ r.phase \in {"keying", "writing"}

\* The phases between loading the state file and having changed it.
Prepares(r) ==
  r.phase \in {"planning", "storing", "clearing", "saving", "keying", "writing"}

\* What the checks of each command leave true until its save, when n accounts
\* have been drawn.
PlannedAt(r, n) ==
  /\ r.phase \in {"storing", "clearing", "saving", "keying", "writing"} =>
       /\ r.cmd \in {"init", "audit", "none"} => r.phase \notin {"storing", "clearing"}
       /\ r.cmd = "init" => ~Initialized(r.snap) /\ n < MaxAccount
       /\ r.cmd # "init" => Initialized(r.snap)
       /\ r.cmd \in {"init", "settle", "enroll", "revoke"} => r.fresh \in Account
  /\ r.phase \in {"aborting", "wiping"} => Lifecycle(r.cmd)

LockHeld == \A p \in Proc : NeedsLock(proc[p]) => lock = p

\* The digest of a file tells it from every other: files that were loaded are
\* older than the next one to be written, and the same stamp means the same file.
StampsTell ==
  /\ WellFormed(disk)
  /\ disk.stamp <= clock
  /\ \A p \in Proc :
       /\ WellFormed(proc[p].snap)
       /\ proc[p].snap.stamp <= clock
       /\ proc[p].snap.stamp = disk.stamp => proc[p].snap = disk

\* Under the lock what was loaded is what is there.
SnapCurrent ==
  \A p \in Proc : NeedsLock(proc[p]) /\ Prepares(proc[p]) => proc[p].snap = disk

Planned == \A p \in Proc : PlannedAt(proc[p], drawn)

IInv == TypeOK /\ LockHeld /\ StampsTell /\ SnapCurrent /\ Planned

-----------------------------------------------------------------------------
(* Types of the operators.                                                 *)

LEMMA AbsentType == Absent \in StateFile /\ Absent.stamp = 0 /\ Absent.ledger = None
  BY DEF Absent, StateFile, None

LEMMA IdleType == Idle \in Process
  BY AbsentType DEF Idle, Process, Phase, Command, None

LEMMA NextSlotsType ==
  ASSUME NEW f \in StateFile, NEW S \in SUBSET Secret
  PROVE  NextSlots(f, S) \subseteq Slot
  <1>1. \A s \in S : NextVersions(f, s) \subseteq Nat \ {0}
    <2> SUFFICES ASSUME NEW s \in S, NEW n \in NextVersions(f, s)
                 PROVE  n \in Nat \ {0}
      OBVIOUS
    <2>1. f.secrets[s] \subseteq Version
      BY DEF StateFile
    <2>2. \A v \in f.secrets[s] : v.n \in Nat
      BY <2>1 DEF Version
    <2> QED BY <2>2 DEF NextVersions
  <1> QED BY <1>1 DEF NextSlots, Slot

LEMMA SealingType ==
  ASSUME NEW f \in StateFile, NEW S \in SUBSET Secret
  PROVE  Sealing(f, S) \subseteq Account
  <1>1. \A s \in S : \A v \in f.secrets[s] : v.account \in Account
    BY DEF StateFile, Version
  <1> QED BY <1>1 DEF Sealing

LEMMA RotatedType ==
  ASSUME NEW r \in Process, NEW s \in Secret
  PROVE  Rotated(r, s) \subseteq Version
  <1>1. r.snap \in StateFile /\ r.new \subseteq NewKey
    BY DEF Process
  <1>2. r.snap.secrets[s] \subseteq Version /\ (s \in r.snap.bound) \in BOOLEAN
    BY <1>1 DEF StateFile
  <1>3. \A v \in r.snap.secrets[s] : [v EXCEPT !.active = FALSE] \in Version
    BY <1>2 DEF Version
  <1>4. \A k \in r.new : k.n \in Nat \ {0} /\ k.account \in Account
    BY <1>1 DEF NewKey
  <1>5. \A k \in r.new :
          [n |-> k.n, account |-> k.account, active |-> TRUE, bound |-> s \in r.snap.bound]
            \in Version
    BY <1>2, <1>4 DEF Version
  <1> QED BY <1>3, <1>5 DEF Rotated

LEMMA ResealedType ==
  ASSUME NEW r \in Process, NEW s \in Secret
  PROVE  Resealed(r, s) \subseteq Version
  <1>1. r.snap \in StateFile /\ r.new \subseteq NewKey
    BY DEF Process
  <1>2. r.snap.secrets[s] \subseteq Version
    BY <1>1 DEF StateFile
  <1>3. \A v \in r.snap.secrets[s], k \in r.new :
          [v EXCEPT !.account = k.account, !.bound = TRUE] \in Version
    BY <1>1, <1>2 DEF Version, NewKey
  <1>4. \A v \in r.snap.secrets[s] : KeysFor(r, s, v.n) \subseteq r.new
    BY DEF KeysFor
  <1>5. \A v \in r.snap.secrets[s] :
          {[v EXCEPT !.account = k.account, !.bound = TRUE] : k \in KeysFor(r, s, v.n)}
            \subseteq Version
    BY <1>3, <1>4
  <1> QED BY <1>2, <1>5, Zenon DEF Resealed

\* The five ways a command changes fields of a state file.
SetInit(f, ledger, events) == [f EXCEPT !.ledger = ledger, !.events = events]

SetSecrets(f, secrets, refs, events) ==
  [f EXCEPT !.secrets = secrets, !.refs = refs, !.events = events]

SetBound(f, secrets, refs, bound, events) ==
  [f EXCEPT !.secrets = secrets, !.refs = refs, !.bound = bound, !.events = events]

SetEnrolled(f, trusted, local, refs, events) ==
  [f EXCEPT !.trusted = trusted, !.local = local, !.refs = refs, !.events = events]

SetRevoked(f, trusted, revoked, refs, events) ==
  [f EXCEPT !.trusted = trusted, !.revoked = revoked, !.refs = refs, !.events = events]

LEMMA EventsUpdate ==
  ASSUME NEW f \in StateFile, NEW events \in Nat
  PROVE  [f EXCEPT !.events = events] \in StateFile
  BY DEF StateFile

LEMMA InitUpdate ==
  ASSUME NEW f \in StateFile, NEW ledger \in Account, NEW events \in Nat
  PROVE  SetInit(f, ledger, events) \in StateFile
  BY DEF StateFile, SetInit

LEMMA SecretsUpdate ==
  ASSUME NEW f \in StateFile, NEW events \in Nat, NEW refs \in SUBSET Account,
         NEW secrets \in [Secret -> SUBSET Version]
  PROVE  SetSecrets(f, secrets, refs, events) \in StateFile
  BY DEF StateFile, SetSecrets

LEMMA BoundUpdate ==
  ASSUME NEW f \in StateFile, NEW events \in Nat, NEW refs \in SUBSET Account,
         NEW secrets \in [Secret -> SUBSET Version], NEW bound \in SUBSET Secret
  PROVE  SetBound(f, secrets, refs, bound, events) \in StateFile
  BY DEF StateFile, SetBound

LEMMA EnrollUpdate ==
  ASSUME NEW f \in StateFile, NEW events \in Nat, NEW refs \in SUBSET Account,
         NEW trusted \in SUBSET Account, NEW local \in Account \cup {None}
  PROVE  SetEnrolled(f, trusted, local, refs, events) \in StateFile
  BY DEF StateFile, SetEnrolled

LEMMA RevokeUpdate ==
  ASSUME NEW f \in StateFile, NEW events \in Nat, NEW refs \in SUBSET Account,
         NEW trusted \in SUBSET Account, NEW revoked \in SUBSET Account
  PROVE  SetRevoked(f, trusted, revoked, refs, events) \in StateFile
  BY DEF StateFile, SetRevoked

\* The file a command is about to write is a state file of the same vault,
\* with more events than the one it loaded.
LEMMA EffectType ==
  ASSUME NEW r \in Process,
         r.cmd \in {"init", "settle", "enroll", "revoke"} => r.fresh \in Account,
         r.cmd # "init" => Initialized(r.snap)
  PROVE  /\ Effect(r) \in StateFile
         /\ Effect(r).ledger # None
         /\ r.cmd # "init" => /\ Effect(r).ledger = r.snap.ledger
                              /\ Effect(r).events > r.snap.events
  <1> DEFINE f == r.snap
             keys == {k.account : k \in r.new}
             next == [s \in Secret |->
                        IF s \in r.scope
                          THEN IF r.cmd \in {"add", "rekey"} THEN Rotated(r, s)
                               ELSE IF r.cmd \in {"bind", "rename"} THEN Resealed(r, s)
                               ELSE {}
                          ELSE f.secrets[s]]
  <1>1. f \in StateFile /\ r.new \subseteq NewKey /\ r.scope \subseteq Secret
    BY DEF Process
  <1>2. keys \subseteq Account
    BY <1>1 DEF NewKey
  <1>3. next \in [Secret -> SUBSET Version]
    BY <1>1, RotatedType, ResealedType DEF StateFile
  <1>4. /\ f.events + 1 \in Nat /\ f.events + 1 > f.events
        /\ f.events + 2 \in Nat /\ f.events + 2 > f.events
    BY <1>1 DEF StateFile
  <1>5. /\ f.refs \cup keys \in SUBSET Account
        /\ f.refs \ r.drop \in SUBSET Account
        /\ (f.refs \ r.drop) \cup keys \in SUBSET Account
        /\ f.refs \ RevokedAccounts(f, r.fresh) \in SUBSET Account
        /\ f.bound \cup r.scope \in SUBSET Secret
    BY <1>1, <1>2 DEF StateFile
  <1>6. ASSUME r.fresh \in Account
        PROVE  /\ r.fresh \in Account \cup {None}
               /\ f.refs \cup {r.fresh} \in SUBSET Account
               /\ f.trusted \cup {r.fresh} \in SUBSET Account
               /\ f.revoked \cup {r.fresh} \in SUBSET Account
               /\ f.trusted \ {r.fresh} \in SUBSET Account
    BY <1>1, <1>6 DEF StateFile
  <1>7. CASE r.cmd = "init"
    <2>1. Effect(r) = SetInit(Absent, r.fresh, 1)
      BY <1>7 DEF Effect, SetInit
    <2>2. Effect(r).ledger = r.fresh
      BY <2>1 DEF Absent, SetInit
    <2>3. Effect(r) \in StateFile
      BY <1>7, <2>1, AbsentType, InitUpdate
    <2> QED BY <1>7, <2>2, <2>3 DEF None, Account
  <1>8. CASE r.cmd # "init"
    <2>1. CASE r.cmd \in {"settle", "enroll"}
      <3>1. Effect(r) = SetEnrolled(f, f.trusted \cup {r.fresh}, r.fresh,
                                    f.refs \cup {r.fresh}, f.events + 1)
        BY <1>1, <2>1 DEF Effect, SetEnrolled
      <3>2. Effect(r) \in StateFile
        BY <1>1, <1>4, <1>6, <2>1, <3>1, EnrollUpdate
      <3>3. Effect(r).ledger = f.ledger /\ Effect(r).events = f.events + 1
        BY <1>1, <3>1 DEF StateFile, SetEnrolled
      <3> QED BY <1>4, <1>8, <3>2, <3>3 DEF Initialized
    <2>2. CASE r.cmd \in {"add", "rekey", "rm"}
      <3> DEFINE refs == IF r.cmd = "rm" THEN f.refs \ r.drop ELSE f.refs \cup keys
      <3>1. Effect(r) = SetSecrets(f, next, refs, f.events + 1)
        BY <1>1, <2>2 DEF Effect, SetSecrets
      <3>2. refs \in SUBSET Account
        BY <1>5
      <3> HIDE DEF refs, next
      <3>3. Effect(r) \in StateFile
        BY <1>1, <1>3, <1>4, <3>1, <3>2, SecretsUpdate
      <3>4. Effect(r).ledger = f.ledger /\ Effect(r).events = f.events + 1
        BY <1>1, <3>1 DEF StateFile, SetSecrets
      <3> QED BY <1>4, <1>8, <3>3, <3>4 DEF Initialized
    <2>3. CASE r.cmd \in {"bind", "rename"}
      <3> DEFINE refs == (f.refs \ r.drop) \cup keys
                 bound == f.bound \cup r.scope
      <3>1. Effect(r) = SetBound(f, next, refs, bound, f.events + 1)
        BY <1>1, <2>3 DEF Effect, SetBound
      <3>2. refs \in SUBSET Account /\ bound \in SUBSET Secret
        BY <1>5
      <3> HIDE DEF refs, next, bound
      <3>3. Effect(r) \in StateFile
        BY <1>1, <1>3, <1>4, <3>1, <3>2, BoundUpdate
      <3>4. Effect(r).ledger = f.ledger /\ Effect(r).events = f.events + 1
        BY <1>1, <3>1 DEF StateFile, SetBound
      <3> QED BY <1>4, <1>8, <3>3, <3>4 DEF Initialized
    <2>4. CASE r.cmd = "revoke"
      <3> DEFINE refs == f.refs \ RevokedAccounts(f, r.fresh)
                 events == f.events + (IF f.local \in {r.fresh, None} THEN 2 ELSE 1)
                 trusted == f.trusted \ {r.fresh}
                 revoked == f.revoked \cup {r.fresh}
      <3>1. Effect(r) = SetRevoked(f, trusted, revoked, refs, events)
        BY <1>1, <2>4 DEF Effect, SetRevoked
      <3>2. /\ refs \in SUBSET Account /\ trusted \in SUBSET Account
            /\ revoked \in SUBSET Account
        BY <1>5, <1>6, <2>4
      <3>3. events \in Nat /\ events > f.events
        BY <1>4
      <3> HIDE DEF refs, events, trusted, revoked
      <3>4. Effect(r) \in StateFile
        BY <1>1, <3>1, <3>2, <3>3, RevokeUpdate
      <3>5. Effect(r).ledger = f.ledger /\ Effect(r).events = events
        BY <1>1, <3>1 DEF StateFile, SetRevoked
      <3> QED BY <1>8, <3>3, <3>4, <3>5 DEF Initialized
    <2>5. CASE r.cmd \in {"none", "wipe", "audit"}
      <3>1. Effect(r) = [f EXCEPT !.events = f.events + 1]
        BY <1>1, <2>5 DEF Effect
      <3>2. Effect(r) \in StateFile
        BY <1>1, <1>4, <3>1, EventsUpdate
      <3>3. Effect(r).ledger = f.ledger /\ Effect(r).events = f.events + 1
        BY <1>1, <3>1 DEF StateFile
      <3> QED BY <1>4, <1>8, <3>2, <3>3 DEF Initialized
    <2> QED BY <1>8, <2>1, <2>2, <2>3, <2>4, <2>5 DEF Process, Command
  <1> QED BY <1>7, <1>8

-----------------------------------------------------------------------------
(* Steps.                                                                  *)

\* Process p becomes q, and the file, the lock and the counters change only as
\* the lock allows.
Moves(p, q) ==
  /\ q \in Process
  /\ proc' = [proc EXCEPT ![p] = q]
  /\ \/ lock' = lock
     \/ lock' = p /\ lock \in {NoProc, p}
     \/ lock' = NoProc /\ lock = p
  /\ NeedsLock(q) => lock' = p
  /\ \/ disk' = disk /\ clock' = clock
     \/ /\ lock = p
        /\ WellFormed(disk')
        /\ disk' = Absent \/ disk'.stamp > clock
        /\ disk'.stamp <= clock'
        /\ clock' \in Nat /\ clock <= clock'
  /\ q.snap \in {proc[p].snap, disk', Absent}
  /\ NeedsLock(q) /\ Prepares(q) => q.snap = disk'
  /\ PlannedAt(q, drawn')
  /\ drawn' = drawn \/ lock = p

LEMMA MovesKeepInvariant ==
  ASSUME IInv, NEW p \in Proc, NEW q, Moves(p, q), disk' \in StateFile
  PROVE  LockHeld' /\ StampsTell' /\ SnapCurrent' /\ Planned'
  <1> USE DEF Moves
  <1>1. \A o \in Proc : o # p => proc'[o] = proc[o]
    BY DEF IInv, TypeOK
  <1>2. proc'[p] = q
    BY DEF IInv, TypeOK
  <1>3. p # NoProc
    BY ConstantsAssumption
  <1>4. \A o \in Proc : o # p /\ NeedsLock(proc[o]) => lock = o /\ lock' = o
    BY <1>3, ConstantsAssumption DEF IInv, LockHeld
  <1>5. LockHeld'
    BY <1>1, <1>2, <1>4 DEF LockHeld
  <1>6. StampsTell'
    <2>1. /\ clock \in Nat /\ clock' \in Nat /\ clock <= clock'
          /\ disk.stamp \in Nat /\ disk'.stamp \in Nat
          /\ \A o \in Proc : proc[o].snap.stamp \in Nat
      BY DEF IInv, TypeOK, Process, StateFile
    <2>2. WellFormed(disk') /\ disk'.stamp <= clock'
      BY <2>1 DEF IInv, StampsTell
    <2>3. ASSUME NEW f, WellFormed(f), f.stamp \in Nat, f.stamp <= clock,
                 f.stamp = disk.stamp => f = disk
          PROVE  /\ f.stamp <= clock'
                 /\ f.stamp = disk'.stamp => f = disk'
      BY <2>1, <2>2, <2>3, AbsentType DEF WellFormed
    <2>4. \A o \in Proc :
            /\ WellFormed(proc[o].snap)
            /\ proc[o].snap.stamp <= clock'
            /\ proc[o].snap.stamp = disk'.stamp => proc[o].snap = disk'
      BY <2>1, <2>3 DEF IInv, StampsTell
    <2>5. /\ WellFormed(q.snap)
          /\ q.snap.stamp <= clock'
          /\ q.snap.stamp = disk'.stamp => q.snap = disk'
      <3>1. CASE q.snap = proc[p].snap
        BY <3>1, <2>4
      <3>2. CASE q.snap = disk'
        BY <3>2, <2>2
      <3>3. CASE q.snap = Absent
        BY <3>3, <2>1, <2>2, AbsentType DEF WellFormed
      <3> QED BY <3>1, <3>2, <3>3
    <2> QED BY <1>1, <1>2, <2>2, <2>4, <2>5 DEF StampsTell
  <1>7. SnapCurrent'
    <2>1. \A o \in Proc : o # p /\ NeedsLock(proc[o]) => disk' = disk
      BY <1>4
    <2> QED BY <1>1, <1>2, <2>1 DEF IInv, SnapCurrent
  <1>8. Planned'
    <2>1. \A o \in Proc : o # p => PlannedAt(proc[o], drawn')
      <3> SUFFICES ASSUME NEW o \in Proc, o # p
                   PROVE  PlannedAt(proc[o], drawn')
        OBVIOUS
      <3>1. PlannedAt(proc[o], drawn)
        BY DEF IInv, Planned
      <3>2. CASE drawn' = drawn
        BY <3>1, <3>2
      <3>3. CASE lock = p
        <4>1. ~NeedsLock(proc[o])
          BY <1>4, <3>3
        <4> QED BY <3>1, <4>1 DEF PlannedAt, NeedsLock, Lifecycle
      <3> QED BY <3>2, <3>3
    <2> QED BY <1>1, <1>2, <2>1 DEF Planned
  <1> QED BY <1>5, <1>6, <1>7, <1>8

LEMMA MovesKeepIInv ==
  ASSUME IInv, NEW p \in Proc, NEW q, Moves(p, q),
         disk' \in StateFile, keystore' \subseteq Account, drawn' \in 0 .. MaxAccount,
         started' \in 0 .. MaxCommands, cleared' \subseteq Account, leaked' \subseteq Account
  PROVE  IInv'
  <1>1. proc' \in [Proc -> Process] /\ lock' \in Proc \cup {NoProc} /\ clock' \in Nat
    BY DEF IInv, TypeOK, Moves
  <1>2. TypeOK'
    BY <1>1 DEF TypeOK
  <1> QED BY <1>2, MovesKeepInvariant DEF IInv

\* A command moves on without changing the state file.
LEMMA QuietStep ==
  ASSUME IInv, NEW p \in Proc, NEW q \in Process,
         proc' = [proc EXCEPT ![p] = q],
         UNCHANGED <<disk, clock, started>>,
         keystore' \subseteq Account, cleared' \subseteq Account, leaked' \subseteq Account,
         drawn' \in 0 .. MaxAccount, drawn' = drawn \/ lock = p,
         \/ lock' = lock
         \/ lock' = p /\ lock \in {NoProc, p}
         \/ lock' = NoProc /\ lock = p,
         NeedsLock(q) => lock' = p,
         q.snap \in {proc[p].snap, disk, Absent},
         NeedsLock(q) /\ Prepares(q) => q.snap = disk,
         PlannedAt(q, drawn')
  PROVE  IInv'
  <1>1. Moves(p, q)
    BY DEF Moves
  <1>2. disk' \in StateFile /\ started' \in 0 .. MaxCommands
    BY DEF IInv, TypeOK
  <1> QED BY <1>1, <1>2, MovesKeepIInv

\* What the invariant says of one process.
LEMMA OfOne ==
  ASSUME IInv, NEW p \in Proc
  PROVE  /\ proc[p] \in Process /\ proc[p].snap \in StateFile
         /\ NeedsLock(proc[p]) => lock = p
         /\ NeedsLock(proc[p]) /\ Prepares(proc[p]) => proc[p].snap = disk
         /\ PlannedAt(proc[p], drawn)
         /\ WellFormed(proc[p].snap)
         /\ disk \in StateFile /\ keystore \subseteq Account
         /\ cleared \subseteq Account /\ leaked \subseteq Account
         /\ drawn \in 0 .. MaxAccount /\ clock \in Nat
         /\ started \in 0 .. MaxCommands
  BY DEF IInv, TypeOK, Process, LockHeld, SnapCurrent, Planned, StampsTell

LEMMA StartKeeps ==
  ASSUME IInv, NEW p \in Proc, NEW c \in Commands, Start(p, c)
  PROVE  IInv'
  <1> DEFINE q == [Idle EXCEPT !.phase = "opening", !.cmd = c]
  <1>1. c \in Command
    BY ConstantsAssumption DEF Command
  <1>2. q \in Process
    BY <1>1, IdleType DEF Process, Phase
  <1>3. q.snap = Absent /\ q.phase = "opening"
    BY DEF Idle
  <1>4. Moves(p, q)
    BY <1>2, <1>3 DEF Start, Moves, NeedsLock, PlannedAt
  <1>5. started' \in 0 .. MaxCommands
    BY ConstantsAssumption DEF Start, IInv, TypeOK
  <1> QED BY <1>4, <1>5, OfOne, MovesKeepIInv DEF Start

LEMMA OpenKeeps ==
  ASSUME IInv, NEW p \in Proc, Open(p)
  PROVE  IInv'
  <1> DEFINE blind == Initialized(disk) /\ disk.ledger \notin keystore
             q == [proc[p] EXCEPT !.phase = "planning", !.snap = disk, !.blind = blind]
  <1>1. proc' = [proc EXCEPT ![p] = q]
    BY DEF Open
  <1>2. blind \in BOOLEAN
    BY DEF Initialized
  <1>3. q \in Process
    <2> HIDE DEF blind
    <2> QED BY <1>2, OfOne, ZenonT(40) DEF Process, Phase
  <1>4. q.snap = disk /\ q.phase = "planning" /\ q.cmd = proc[p].cmd
    BY OfOne DEF Process
  <1> HIDE DEF q
  <1> QED BY <1>1, <1>3, <1>4, OfOne, QuietStep DEF Open, NeedsLock, PlannedAt

LEMMA RefuseKeeps ==
  ASSUME IInv, NEW p \in Proc, Refuse(p)
  PROVE  IInv'
  <1> DEFINE q == [proc[p] EXCEPT !.phase = "closing"]
  <1>1. proc' = [proc EXCEPT ![p] = q]
    BY DEF Refuse, Goto
  <1>2. /\ q \in Process /\ q.snap = proc[p].snap
        /\ q.phase = "closing" /\ q.cmd = proc[p].cmd
    BY OfOne DEF Process, Phase
  <1> HIDE DEF q
  <1> QED BY <1>1, <1>2, OfOne, QuietStep DEF Refuse, NeedsLock, PlannedAt, Prepares

\* A command that passed its checks.
LEMMA PlanStep ==
  ASSUME IInv, NEW p \in Proc, NEW c, NEW k \in Nat, NEW q \in Process,
         Proceed(p, c, k, q),
         drawn + k <= MaxAccount, k = 0 \/ Lifecycle(c),
         q.cmd = c, q.snap = proc[p].snap, q.phase \notin {"keying", "writing"},
         PlannedAt(q, drawn + k)
  PROVE  IInv'
  <1>1. proc[p].phase = "planning" /\ proc[p].cmd = q.cmd
    BY DEF Proceed
  <1>2. drawn' \in 0 .. MaxAccount
    BY OfOne, ConstantsAssumption DEF Proceed
  <1>3. NeedsLock(q) => NeedsLock(proc[p])
    BY <1>1 DEF NeedsLock
  <1>4. drawn' = drawn \/ lock = p
    <2>1. k # 0 => NeedsLock(proc[p])
      BY <1>1 DEF NeedsLock
    <2> QED BY <2>1, OfOne DEF Proceed
  <1>5. PlannedAt(q, drawn')
    BY DEF Proceed
  <1> QED BY <1>1, <1>2, <1>3, <1>4, <1>5, OfOne, QuietStep DEF Proceed, Prepares

\* A file with a usable device, with a secret or with a device is a vault's.
LEMMA VaultFile ==
  ASSUME NEW f \in StateFile, WellFormed(f),
         \/ Usable(f)
         \/ \E s \in Secret : f.secrets[s] # {}
         \/ \E d \in Account : d \in Devices(f)
  PROVE  Initialized(f)
  BY DEF WellFormed, Absent, Usable, Devices, Initialized, StateFile

LEMMA PlanKeeps ==
  ASSUME IInv, NEW p \in Proc, Plan(p)
  PROVE  IInv'
  <1> DEFINE r == proc[p]
  <1>1. /\ r \in Process /\ r.snap \in StateFile /\ WellFormed(r.snap)
        /\ drawn \in Nat /\ MaxAccount \in Nat
    BY OfOne, ConstantsAssumption
  <1>2. CASE PlanInit(p)
    <2> DEFINE q == [r EXCEPT !.phase = "saving", !.fresh = drawn + 1]
    <2>1. Proceed(p, "init", 1, q) /\ drawn + 2 <= MaxAccount /\ ~Initialized(r.snap)
      BY <1>2 DEF PlanInit, Room
    <2>2. drawn + 1 \in Account /\ drawn + 1 < MaxAccount
      BY <1>1, <2>1 DEF Account
    <2>3. /\ q \in Process /\ q.cmd = "init" /\ q.snap = r.snap /\ q.phase = "saving"
          /\ q.fresh \in Account
      BY <1>1, <2>1, <2>2 DEF Process, Phase, Proceed
    <2> HIDE DEF q
    <2>4. PlannedAt(q, drawn + 1)
      BY <2>1, <2>2, <2>3 DEF PlannedAt
    <2> QED BY <1>1, <2>1, <2>2, <2>3, <2>4, PlanStep DEF Lifecycle
  <1>3. CASE PlanEnroll(p)
    <2> DEFINE q == [r EXCEPT !.phase = "storing", !.fresh = drawn + 1]
    <2>1. Proceed(p, "enroll", 1, q) /\ drawn + 1 <= MaxAccount /\ Initialized(r.snap)
      BY <1>3 DEF PlanEnroll, Room
    <2>2. drawn + 1 \in Account
      BY <1>1, <2>1 DEF Account
    <2>3. /\ q \in Process /\ q.cmd = "enroll" /\ q.snap = r.snap /\ q.phase = "storing"
          /\ q.fresh \in Account
      BY <1>1, <2>1, <2>2 DEF Process, Phase, Proceed
    <2> HIDE DEF q
    <2>4. PlannedAt(q, drawn + 1)
      BY <2>1, <2>3 DEF PlannedAt
    <2> QED BY <1>1, <2>1, <2>3, <2>4, PlanStep DEF Lifecycle
  <1>4. ASSUME NEW s \in Secret, PlanAdd(p, s) PROVE IInv'
    <2> DEFINE slots == NextSlots(r.snap, {s})
               q == [r EXCEPT !.phase = "storing", !.scope = {s}, !.todo = slots]
    <2>1. Proceed(p, "add", 0, q) /\ Initialized(r.snap)
      BY <1>1, <1>4, VaultFile DEF PlanAdd
    <2>2. slots \in SUBSET Slot /\ {s} \in SUBSET Secret
      BY <1>1, NextSlotsType
    <2>3. /\ q \in Process /\ q.cmd = "add" /\ q.snap = r.snap /\ q.phase = "storing"
      <3> HIDE DEF slots
      <3> QED BY <1>1, <2>1, <2>2 DEF Process, Phase, Proceed
    <2> HIDE DEF q
    <2>4. PlannedAt(q, drawn + 0)
      BY <2>1, <2>3 DEF PlannedAt
    <2>5. drawn + 0 <= MaxAccount
      BY OfOne
    <2> QED BY <1>1, <2>1, <2>3, <2>4, <2>5, PlanStep
  <1>5. ASSUME NEW w \in Workspace, PlanRekey(p, w) PROVE IInv'
    <2> DEFINE S == {s \in w : ActiveVersions(r.snap, s) # {}}
               slots == NextSlots(r.snap, S)
               q == [r EXCEPT !.phase = "storing", !.scope = S, !.todo = slots]
    <2>1. Proceed(p, "rekey", 0, q) /\ Initialized(r.snap)
      BY <1>1, <1>5, VaultFile DEF PlanRekey
    <2>2. S \in SUBSET Secret
      <3>1. S \subseteq w /\ w \subseteq Secret
        BY ConstantsAssumption
      <3> QED BY <3>1
    <2>3. slots \in SUBSET Slot
      BY <1>1, <2>2, NextSlotsType
    <2>4. /\ q \in Process /\ q.cmd = "rekey" /\ q.snap = r.snap /\ q.phase = "storing"
      <3> HIDE DEF slots, S
      <3> QED BY <1>1, <2>1, <2>2, <2>3 DEF Process, Phase, Proceed
    <2> HIDE DEF q
    <2>5. PlannedAt(q, drawn)
      BY <2>1, <2>4 DEF PlannedAt
    <2> QED BY <1>1, <2>1, <2>4, <2>5, OfOne, PlanStep
  <1>6. ASSUME NEW w \in Workspace, NEW c \in {"bind", "rename"}, PlanReseal(p, c, w)
        PROVE  IInv'
    <2> DEFINE V(s) == {v \in r.snap.secrets[s] : c = "bind" => ~v.bound}
               slots == UNION {{[secret |-> s, n |-> v.n] : v \in V(s)} : s \in w}
               drop == UNION {{v.account : v \in V(s)} : s \in w}
               q == [r EXCEPT !.phase = BeforeSave(slots), !.scope = w, !.todo = slots,
                              !.drop = drop]
    <2>1. Proceed(p, c, 0, q) /\ Initialized(r.snap)
      BY <1>1, <1>6, VaultFile DEF PlanReseal
    <2>2. w \in SUBSET Secret
      BY ConstantsAssumption
    <2>3. \A s \in w : \A v \in V(s) : v.n \in Nat \ {0} /\ v.account \in Account
      BY <1>1, <2>2 DEF StateFile, Version
    <2>4. slots \in SUBSET Slot /\ drop \in SUBSET Account
      BY <2>2, <2>3 DEF Slot
    <2> HIDE DEF slots, drop
    <2>5. BeforeSave(slots) \in {"storing", "saving"}
      BY DEF BeforeSave
    <2>6. q \in Process /\ q.cmd = c /\ q.snap = r.snap /\ q.phase \in {"storing", "saving"}
      BY <1>1, <2>1, <2>2, <2>4, <2>5 DEF Process, Phase, Proceed
    <2> HIDE DEF q
    <2>7. PlannedAt(q, drawn)
      BY <2>1, <2>6 DEF PlannedAt
    <2> QED BY <1>1, <2>1, <2>6, <2>7, OfOne, PlanStep
  <1>7. ASSUME NEW s \in Secret, PlanRemove(p, s) PROVE IInv'
    <2> DEFINE drop == Sealing(r.snap, {s})
               q == [r EXCEPT !.phase = "saving", !.scope = {s}, !.drop = drop]
    <2>1. Proceed(p, "rm", 0, q) /\ Initialized(r.snap)
      BY <1>1, <1>7, VaultFile DEF PlanRemove
    <2>2. drop \in SUBSET Account /\ {s} \in SUBSET Secret
      BY <1>1, SealingType
    <2>3. q \in Process /\ q.cmd = "rm" /\ q.snap = r.snap /\ q.phase = "saving"
      <3> HIDE DEF drop
      <3> QED BY <1>1, <2>1, <2>2 DEF Process, Phase, Proceed
    <2> HIDE DEF q
    <2>4. PlannedAt(q, drawn)
      BY <2>1, <2>3 DEF PlannedAt
    <2> QED BY <1>1, <2>1, <2>3, <2>4, OfOne, PlanStep
  <1>8. ASSUME NEW d \in Account, PlanRevoke(p, d) PROVE IInv'
    <2> DEFINE drop == RevokedAccounts(r.snap, d)
               q == [r EXCEPT !.phase = "clearing", !.fresh = d, !.drop = drop]
    <2>1. Proceed(p, "revoke", 0, q) /\ Initialized(r.snap)
      BY <1>1, <1>8, VaultFile DEF PlanRevoke
    <2>2. drop \in SUBSET Account
      BY <1>1 DEF RevokedAccounts, StateFile
    <2>3. /\ q \in Process /\ q.cmd = "revoke" /\ q.snap = r.snap /\ q.phase = "clearing"
          /\ q.fresh = d
      <3> HIDE DEF drop
      <3> QED BY <1>1, <2>1, <2>2 DEF Process, Phase, Proceed
    <2> HIDE DEF q
    <2>4. PlannedAt(q, drawn)
      BY <2>1, <2>3 DEF PlannedAt
    <2> QED BY <1>1, <2>1, <2>3, <2>4, OfOne, PlanStep
  <1>9. CASE PlanWipe(p)
    <2> DEFINE drop == Referenced(r.snap)
               q == [r EXCEPT !.phase = "wiping", !.drop = drop]
    <2>1. Proceed(p, "wipe", 0, q)
      BY <1>9 DEF PlanWipe
    <2>2. drop \in SUBSET Account
      BY <1>1 DEF Referenced, StateFile
    <2>3. q \in Process /\ q.cmd = "wipe" /\ q.snap = r.snap /\ q.phase = "wiping"
      <3> HIDE DEF drop
      <3> QED BY <1>1, <2>1, <2>2 DEF Process, Phase, Proceed
    <2> HIDE DEF q
    <2>4. PlannedAt(q, drawn)
      BY <2>3 DEF PlannedAt, Lifecycle
    <2> QED BY <1>1, <2>1, <2>3, <2>4, OfOne, PlanStep
  <1>10. CASE PlanAudit(p)
    <2> DEFINE q == [r EXCEPT !.phase = "saving"]
    <2>1. Proceed(p, "audit", 0, q) /\ Initialized(r.snap)
      BY <1>10 DEF PlanAudit
    <2>2. q \in Process /\ q.cmd = "audit" /\ q.snap = r.snap /\ q.phase = "saving"
      BY <1>1, <2>1 DEF Process, Phase, Proceed
    <2> HIDE DEF q
    <2>3. PlannedAt(q, drawn)
      BY <2>1, <2>2 DEF PlannedAt
    <2> QED BY <1>1, <2>1, <2>2, <2>3, OfOne, PlanStep
  <1> QED BY <1>2, <1>3, <1>4, <1>5, <1>6, <1>7, <1>8, <1>9, <1>10 DEF Plan

\* A running command moves on with what it loaded, and keeps what it locked.
LEMMA RunningStep ==
  ASSUME IInv, NEW p \in Proc, NEW q \in Process,
         proc' = [proc EXCEPT ![p] = q],
         UNCHANGED <<disk, clock, started, lock>>,
         keystore' \subseteq Account, cleared' \subseteq Account, leaked' \subseteq Account,
         drawn' \in 0 .. MaxAccount,
         drawn' = drawn \/ lock = p,
         proc[p].phase \notin {"idle", "opening"},
         q.cmd = proc[p].cmd, q.snap = proc[p].snap,
         q.phase \in {"keying", "writing"} => lock = p /\ Prepares(proc[p]),
         Prepares(q) /\ NeedsLock(q) => Prepares(proc[p]) /\ q.snap = disk,
         PlannedAt(q, drawn')
  PROVE  IInv'
  <1>1. NeedsLock(q) => lock = p
    BY OfOne DEF NeedsLock
  <1> QED BY <1>1, QuietStep

\* A running command leaves off: the lock stays, and nothing is left to save.
LEMMA LeavingStep ==
  ASSUME IInv, NEW p \in Proc, NEW q \in Process,
         proc' = [proc EXCEPT ![p] = q],
         UNCHANGED <<disk, clock, started, drawn>>,
         lock' = lock \/ (lock' = p /\ lock \in {NoProc, p}) \/ (lock' = NoProc /\ lock = p),
         keystore' \subseteq Account, cleared' \subseteq Account, leaked' \subseteq Account,
         proc[p].phase \notin {"idle", "opening"},
         q.snap = proc[p].snap, ~Prepares(q),
         q.phase \in {"aborting", "wiping"} => Lifecycle(q.cmd),
         Lifecycle(q.cmd) => Lifecycle(proc[p].cmd) /\ lock' = lock
  PROVE  IInv'
  <1>1. NeedsLock(q) => lock' = p
    BY OfOne DEF NeedsLock, Prepares
  <1>2. PlannedAt(q, drawn')
    BY DEF PlannedAt, Prepares
  <1> QED BY <1>1, <1>2, OfOne, QuietStep

LEMMA StoreDeviceKeyKeeps ==
  ASSUME IInv, NEW p \in Proc, StoreDeviceKey(p)
  PROVE  IInv'
  <1> DEFINE r == proc[p]
             q == [r EXCEPT !.phase = "saving", !.made = {r.fresh}]
  <1>1. /\ r \in Process /\ r.phase = "storing" /\ r.cmd \in {"enroll", "settle"}
        /\ PlannedAt(r, drawn)
        /\ proc' = [proc EXCEPT ![p] = q]
    BY OfOne DEF StoreDeviceKey
  <1>2. r.fresh \in Account
    BY <1>1 DEF PlannedAt
  <1>3. {r.fresh} \in SUBSET Account /\ keystore' \subseteq Account
    BY <1>2, OfOne DEF StoreDeviceKey
  <1>4. /\ q \in Process /\ q.phase = "saving" /\ q.cmd = r.cmd
        /\ q.snap = r.snap /\ q.fresh = r.fresh
    BY <1>1, <1>3 DEF Process, Phase
  <1> HIDE DEF q
  <1>5. PlannedAt(q, drawn')
    BY <1>1, <1>4 DEF PlannedAt, StoreDeviceKey
  <1>6. NeedsLock(q) => Prepares(r) /\ q.snap = disk
    BY <1>1, <1>4, OfOne DEF NeedsLock, Prepares
  <1> QED BY <1>1, <1>3, <1>4, <1>5, <1>6, OfOne, RunningStep DEF StoreDeviceKey

LEMMA StoreDataKeyKeeps ==
  ASSUME IInv, NEW p \in Proc, StoreDataKey(p)
  PROVE  IInv'
  <1> DEFINE r == proc[p]
             a == drawn + 1
  <1>1. r \in Process /\ r.phase = "storing" /\ PlannedAt(r, drawn) /\ a \in Account
    BY OfOne DEF StoreDataKey
  <1>2. PICK slot \in r.todo :
          proc' = [proc EXCEPT
            ![p].phase = BeforeSave(r.todo \ {slot}),
            ![p].todo = @ \ {slot},
            ![p].new = @ \cup {[secret |-> slot.secret, n |-> slot.n, account |-> a]},
            ![p].made = @ \cup {a}]
    BY DEF StoreDataKey
  <1> DEFINE phase == BeforeSave(r.todo \ {slot})
             todo == r.todo \ {slot}
             new == r.new \cup {[secret |-> slot.secret, n |-> slot.n, account |-> a]}
             made == r.made \cup {a}
             q == [r EXCEPT !.phase = phase, !.todo = todo, !.new = new, !.made = made]
  <1>3. proc' = [proc EXCEPT ![p] = q]
    BY <1>2
  <1>4. slot \in Slot
    BY <1>1 DEF Process
  <1>5. todo \in SUBSET Slot /\ new \in SUBSET NewKey /\ made \in SUBSET Account
    BY <1>1, <1>4 DEF Process, Slot, NewKey
  <1>6. phase \in {"storing", "saving"}
    BY DEF BeforeSave
  <1> HIDE DEF todo, new, made, phase
  <1>7. /\ q \in Process /\ q.phase \in {"storing", "saving"} /\ q.cmd = r.cmd
        /\ q.snap = r.snap /\ q.fresh = r.fresh
    BY <1>1, <1>5, <1>6 DEF Process, Phase
  <1> HIDE DEF q
  <1>8. PlannedAt(r, drawn) => r.cmd # "init"
    BY <1>1 DEF PlannedAt
  <1>9. PlannedAt(q, drawn')
    BY <1>1, <1>7, <1>8 DEF PlannedAt
  <1>10. keystore' \subseteq Account /\ drawn' \in 0 .. MaxAccount
    BY <1>1, OfOne, ConstantsAssumption DEF StoreDataKey, Account
  <1>11. NeedsLock(q) => Prepares(r) /\ q.snap = disk
    BY <1>1, <1>7, OfOne DEF NeedsLock, Prepares
  <1>12. Lifecycle(r.cmd)
    BY <1>1 DEF PlannedAt, Lifecycle
  <1>13. lock = p
    BY <1>1, <1>12, OfOne DEF NeedsLock
  <1> QED BY <1>1, <1>3, <1>7, <1>9, <1>10, <1>11, <1>13, OfOne, RunningStep DEF StoreDataKey

\* What a command becomes when it fails is a process that has left its save.
LEMMA AfterFailureType ==
  ASSUME NEW r \in Process
  PROVE  /\ AfterFailure(r) \in Process
         /\ AfterFailure(r).snap = r.snap
         /\ AfterFailure(r).cmd = r.cmd
         /\ ~Prepares(AfterFailure(r))
         /\ AfterFailure(r).phase \in {"aborting", "wiping"} => Lifecycle(r.cmd)
  <1>1. r.made \cup Referenced(r.snap) \in SUBSET Account
    BY DEF Process, Referenced, StateFile
  <1>2. CASE r.cmd = "settle"
    <2> DEFINE drop == r.made \cup Referenced(r.snap)
    <2>1. AfterFailure(r) = [r EXCEPT !.phase = "aborting", !.made = {}, !.drop = drop]
      BY <1>2 DEF AfterFailure
    <2> HIDE DEF drop
    <2>2. drop \in SUBSET Account
      BY <1>1 DEF drop
    <2>3. Lifecycle(r.cmd)
      BY <1>2 DEF Lifecycle
    <2> QED BY <2>1, <2>2, <2>3 DEF Process, Phase, Prepares
  <1>3. CASE r.cmd \in {"add", "rekey", "bind", "rename"}
    <2>1. AfterFailure(r) = [r EXCEPT !.phase = "undoing", !.drop = {}]
      BY <1>3 DEF AfterFailure
    <2> QED BY <2>1 DEF Process, Phase, Prepares
  <1>4. CASE r.cmd \notin {"settle", "add", "rekey", "bind", "rename"}
    <2>1. AfterFailure(r) = [r EXCEPT !.phase = "closing", !.made = {}, !.drop = {}]
      BY <1>4 DEF AfterFailure
    <2> QED BY <2>1 DEF Process, Phase, Prepares
  <1> QED BY <1>2, <1>3, <1>4

LEMMA StoreFailsKeeps ==
  ASSUME IInv, NEW p \in Proc, StoreFails(p)
  PROVE  IInv'
  <1> DEFINE q == AfterFailure(proc[p])
  <1>1. proc' = [proc EXCEPT ![p] = q] /\ proc[p] \in Process
    BY OfOne DEF StoreFails
  <1>2. q \in Process /\ q.snap = proc[p].snap /\ q.cmd = proc[p].cmd /\ ~Prepares(q)
        /\ (q.phase \in {"aborting", "wiping"} => Lifecycle(q.cmd))
    BY <1>1, AfterFailureType
  <1> HIDE DEF q
  <1> QED BY <1>1, <1>2, OfOne, LeavingStep DEF StoreFails

\* Deleting a key keeps the types.
LEMMA ForgetType ==
  ASSUME NEW a, Forget(a), keystore \subseteq Account, leaked \subseteq Account
  PROVE  keystore' \subseteq Account /\ leaked' \subseteq Account
  BY DEF Forget

LEMMA ClearKeeps ==
  ASSUME IInv, NEW p \in Proc, Clear(p)
  PROVE  IInv'
  <1> DEFINE r == proc[p]
  <1>1. r \in Process /\ r.phase = "clearing" /\ PlannedAt(r, drawn)
    BY OfOne DEF Clear
  <1>2. NeedsLock(r) => r.snap = disk
    BY <1>1, OfOne DEF Prepares
  <1>3. CASE r.drop = {}
    <2> DEFINE q == [r EXCEPT !.phase = "saving"]
    <2>1. proc' = [proc EXCEPT ![p] = q] /\ UNCHANGED <<keystore, cleared, leaked>>
      BY <1>3 DEF Clear, Goto
    <2>2. /\ q \in Process /\ q.phase = "saving" /\ q.cmd = r.cmd
          /\ q.snap = r.snap /\ q.fresh = r.fresh
      BY <1>1 DEF Process, Phase
    <2> HIDE DEF q
    <2>3. PlannedAt(q, drawn)
      BY <1>1, <2>2 DEF PlannedAt
    <2>4. NeedsLock(q) => q.snap = disk
      BY <1>1, <1>2, <2>2 DEF NeedsLock
    <2> QED BY <1>1, <2>1, <2>2, <2>3, <2>4, OfOne, RunningStep DEF Clear, Prepares
  <1>4. CASE r.drop # {}
    <2>1. PICK a \in r.drop : /\ Forget(a)
                              /\ cleared' = cleared \cup {a}
                              /\ proc' = [proc EXCEPT ![p].drop = @ \ {a}]
      BY <1>4 DEF Clear
    <2> DEFINE drop == r.drop \ {a}
               q == [r EXCEPT !.drop = drop]
    <2>2. proc' = [proc EXCEPT ![p] = q]
      BY <2>1
    <2>3. drop \in SUBSET Account /\ a \in Account
      BY <1>1 DEF Process
    <2> HIDE DEF drop
    <2>4. /\ q \in Process /\ q.phase = "clearing" /\ q.cmd = r.cmd
          /\ q.snap = r.snap /\ q.fresh = r.fresh
      BY <1>1, <2>3 DEF Process
    <2> HIDE DEF q
    <2>5. PlannedAt(q, drawn)
      BY <1>1, <2>4 DEF PlannedAt
    <2>6. NeedsLock(q) => q.snap = disk
      BY <1>1, <1>2, <2>4 DEF NeedsLock
    <2>7. keystore' \subseteq Account /\ leaked' \subseteq Account /\ cleared' \subseteq Account
      BY <2>1, <2>3, OfOne, ForgetType
    <2> QED BY <1>1, <2>2, <2>4, <2>5, <2>6, <2>7, OfOne, RunningStep DEF Clear, Prepares
  <1> QED BY <1>3, <1>4

LEMMA CheckSnapshotKeeps ==
  ASSUME IInv, NEW p \in Proc, CheckSnapshot(p)
  PROVE  IInv'
  <1> DEFINE r == proc[p]
             q == [r EXCEPT !.phase = "keying"]
  <1>1. /\ r \in Process /\ r.phase = "saving" /\ PlannedAt(r, drawn)
        /\ proc' = [proc EXCEPT ![p] = q]
    BY OfOne DEF CheckSnapshot, Goto
  <1>2. /\ q \in Process /\ q.phase = "keying" /\ q.cmd = r.cmd
        /\ q.snap = r.snap /\ q.fresh = r.fresh
    BY <1>1 DEF Process, Phase
  <1> HIDE DEF q
  <1>3. PlannedAt(q, drawn)
    BY <1>1, <1>2 DEF PlannedAt
  <1>4. q.snap = disk
    BY <1>2 DEF CheckSnapshot, IInv, StampsTell
  <1> QED BY <1>1, <1>2, <1>3, <1>4, OfOne, QuietStep DEF CheckSnapshot

LEMMA SaveFailsKeeps ==
  ASSUME IInv, NEW p \in Proc, SaveFails(p), UNCHANGED <<clock, started>>,
         keystore' \subseteq Account,
         \/ proc[p].phase = "saving" /\ lock \in {NoProc, p}
         \/ proc[p].phase \in {"keying", "writing"}
  PROVE  IInv'
  <1> DEFINE r == proc[p]
             kept == r.made \ {LedgerAccount(r)}
             s == [r EXCEPT !.made = kept]
             q == AfterFailure(s)
  <1>1. r \in Process /\ proc' = [proc EXCEPT ![p] = q]
    BY OfOne DEF SaveFails
  <1>2. kept \in SUBSET Account
    BY <1>1 DEF Process
  <1>3. s \in Process /\ s.snap = r.snap /\ s.cmd = r.cmd
    <2> HIDE DEF kept
    <2> QED BY <1>1, <1>2 DEF Process
  <1> HIDE DEF s
  <1>4. q \in Process /\ q.snap = r.snap /\ q.cmd = r.cmd /\ ~Prepares(q)
        /\ (q.phase \in {"aborting", "wiping"} => Lifecycle(q.cmd))
    BY <1>3, AfterFailureType
  <1>5. leaked' \subseteq Account
    BY <1>2, OfOne DEF SaveFails
  <1> HIDE DEF q
  <1>6. r.phase \in {"keying", "writing"} => lock = p
    BY <1>1, OfOne DEF NeedsLock
  <1>7. \/ lock' = lock
        \/ lock' = NoProc /\ lock = p
    BY <1>6 DEF SaveFails, Unlocked
  <1>8. Lifecycle(q.cmd) => Lifecycle(r.cmd) /\ lock' = lock
    BY <1>4 DEF SaveFails, Unlocked
  <1> QED BY <1>1, <1>4, <1>5, <1>7, <1>8, OfOne, LeavingStep DEF SaveFails

LEMMA FailedSaveKeeps ==
  ASSUME IInv, NEW p \in Proc, Stale(p) \/ KeyLedgerFails(p) \/ WriteFails(p)
  PROVE  IInv'
  <1>1. CASE Stale(p)
    BY <1>1, OfOne, SaveFailsKeeps DEF Stale, SaveFails
  <1>2. CASE KeyLedgerFails(p)
    BY <1>2, OfOne, SaveFailsKeeps DEF KeyLedgerFails, SaveFails
  <1>3. CASE WriteFails(p)
    <2>1. keystore' \subseteq Account
      BY <1>3, OfOne DEF WriteFails
    <2> QED BY <1>3, <2>1, SaveFailsKeeps DEF WriteFails, SaveFails
  <1> QED BY <1>1, <1>2, <1>3

LEMMA KeyLedgerKeeps ==
  ASSUME IInv, NEW p \in Proc, KeyLedger(p)
  PROVE  IInv'
  <1> DEFINE r == proc[p]
             a == LedgerAccount(r)
             made == r.made \cup ({a} \ keystore)
             q == [r EXCEPT !.phase = "writing", !.made = made]
  <1>1. /\ r \in Process /\ r.phase = "keying" /\ PlannedAt(r, drawn)
        /\ r.snap = disk /\ lock = p
    BY OfOne DEF KeyLedger, NeedsLock, Prepares
  <1>2. proc' = [proc EXCEPT ![p] = q]
    BY DEF KeyLedger
  <1>3. a \in Account
    <2>1. r.snap \in StateFile
      BY OfOne
    <2>2. r.cmd # "init" => r.snap.ledger # None
      BY <1>1 DEF PlannedAt, Initialized
    <2>3. r.cmd = "init" => r.fresh \in Account
      BY <1>1 DEF PlannedAt
    <2> QED BY <2>1, <2>2, <2>3 DEF LedgerAccount, StateFile
  <1>4. made \in SUBSET Account /\ keystore' \subseteq Account
    BY <1>1, <1>3, OfOne DEF Process, KeyLedger
  <1> HIDE DEF made
  <1>5. /\ q \in Process /\ q.phase = "writing" /\ q.cmd = r.cmd
        /\ q.snap = r.snap /\ q.fresh = r.fresh
    BY <1>1, <1>4 DEF Process, Phase
  <1> HIDE DEF q
  <1>6. PlannedAt(q, drawn)
    BY <1>1, <1>5 DEF PlannedAt
  <1> QED BY <1>1, <1>2, <1>4, <1>5, <1>6, OfOne, QuietStep DEF KeyLedger

\* A save replaces the file by a newer one of the same vault.
LEMMA WrittenFile ==
  ASSUME IInv, NEW p \in Proc, Write(p)
  PROVE  /\ disk' \in StateFile
         /\ disk'.stamp = clock + 1
         /\ disk'.ledger # None
         /\ proc[p].snap = disk
         /\ lock = p
         /\ disk # Absent => disk'.ledger = disk.ledger /\ disk'.events > disk.events
  <1> DEFINE r == proc[p]
  <1>1. /\ r \in Process /\ r.phase = "writing" /\ PlannedAt(r, drawn)
        /\ r.snap = disk /\ lock = p /\ WellFormed(disk) /\ disk \in StateFile
        /\ clock + 1 \in Nat
    BY OfOne DEF Write, NeedsLock, Prepares
  <1>2. /\ r.cmd \in {"init", "settle", "enroll", "revoke"} => r.fresh \in Account
        /\ r.cmd # "init" => Initialized(r.snap)
        /\ r.cmd = "init" => ~Initialized(r.snap)
    BY <1>1 DEF PlannedAt
  <1>3. disk' = [Effect(r) EXCEPT !.stamp = clock + 1]
    BY DEF Write
  <1>4. /\ Effect(r) \in StateFile
        /\ Effect(r).ledger # None
        /\ r.cmd # "init" => /\ Effect(r).ledger = r.snap.ledger
                             /\ Effect(r).events > r.snap.events
    BY <1>1, <1>2, EffectType
  <1>5. /\ disk' \in StateFile
        /\ disk'.stamp = clock + 1
        /\ disk'.ledger = Effect(r).ledger
        /\ disk'.events = Effect(r).events
    BY <1>1, <1>3, <1>4 DEF StateFile
  <1>6. r.cmd = "init" => disk = Absent
    BY <1>1, <1>2 DEF WellFormed, Initialized
  <1> QED BY <1>1, <1>4, <1>5, <1>6

LEMMA WriteKeeps ==
  ASSUME IInv, NEW p \in Proc, Write(p)
  PROVE  IInv'
  <1> DEFINE r == proc[p]
             s == AfterSave(r)
             q == [s EXCEPT !.snap = disk', !.made = {}]
  <1>1. /\ disk' \in StateFile /\ disk'.stamp = clock + 1 /\ disk'.ledger # None
        /\ lock = p
    BY WrittenFile
  <1>2. /\ r \in Process /\ r.phase = "writing" /\ PlannedAt(r, drawn)
        /\ clock \in Nat /\ drawn \in 0 .. MaxAccount /\ MaxAccount \in Nat
    BY OfOne, ConstantsAssumption DEF Write
  <1>3. proc' = [proc EXCEPT ![p] = q]
    BY DEF Write
  <1>4. r.cmd = "init" => drawn + 1 \in Account
    BY <1>2 DEF PlannedAt, Account
  <1>5. /\ s \in Process
        /\ r.cmd = "init" => /\ s.cmd = "settle" /\ s.phase = "storing"
                             /\ s.fresh \in Account
        /\ r.cmd # "init" => s.cmd = r.cmd /\ s.phase \in {"closing", "sweeping"}
    <2>1. CASE r.cmd = "init"
      <3>1. s = [r EXCEPT !.phase = "storing", !.cmd = "settle", !.fresh = drawn + 1]
        BY <2>1 DEF AfterSave
      <3> HIDE DEF s
      <3> QED BY <1>2, <1>4, <2>1, <3>1 DEF Process, Phase, Command
    <2>2. CASE r.cmd # "init"
      <3> DEFINE phase == IF r.drop = {} THEN "closing" ELSE "sweeping"
      <3>1. s = [r EXCEPT !.phase = phase]
        BY <2>2 DEF AfterSave
      <3>2. phase \in {"closing", "sweeping"}
        OBVIOUS
      <3> HIDE DEF s, phase
      <3> QED BY <1>2, <2>2, <3>1, <3>2 DEF Process, Phase
    <2> QED BY <2>1, <2>2
  <1> HIDE DEF s
  <1>6. /\ q \in Process /\ q.snap = disk' /\ q.cmd = s.cmd /\ q.phase = s.phase
        /\ q.fresh = s.fresh
    BY <1>1, <1>5 DEF Process
  <1> HIDE DEF q
  <1>7. PlannedAt(q, drawn')
    BY <1>1, <1>5, <1>6 DEF PlannedAt, Initialized
  <1>8. WellFormed(disk') /\ disk'.stamp > clock /\ disk'.stamp <= clock'
        /\ clock' \in Nat /\ clock <= clock'
    BY <1>1, <1>2 DEF WellFormed, Write
  <1>9. /\ lock' = lock \/ (lock' = NoProc /\ lock = p)
        /\ NeedsLock(q) => lock' = p
    BY <1>1, <1>5, <1>6 DEF Write, Unlocked, NeedsLock, Lifecycle
  <1>10. Moves(p, q)
    BY <1>1, <1>3, <1>6, <1>7, <1>8, <1>9 DEF Moves
  <1>11. drawn' \in 0 .. MaxAccount
    BY <1>2, <1>4 DEF Write, Account
  <1> QED BY <1>1, <1>10, <1>11, OfOne, MovesKeepIInv DEF Write

\* The steps that only delete keys, with p's list of them growing shorter.
LEMMA ListShrinks ==
  ASSUME NEW r \in Process, NEW a
  PROVE  /\ [r EXCEPT !.drop = r.drop \ {a}] \in Process
         /\ [r EXCEPT !.made = r.made \ {a}] \in Process
  <1> DEFINE drop == r.drop \ {a}
             made == r.made \ {a}
  <1>1. drop \in SUBSET Account /\ made \in SUBSET Account
    BY DEF Process
  <1> HIDE DEF drop, made
  <1>2. [r EXCEPT !.drop = drop] \in Process /\ [r EXCEPT !.made = made] \in Process
    BY <1>1 DEF Process
  <1> QED BY <1>2 DEF drop, made

LEMMA SweepKeeps ==
  ASSUME IInv, NEW p \in Proc, Sweep(p) \/ Undo(p)
  PROVE  IInv'
  <1> DEFINE r == proc[p]
  <1>1. r \in Process /\ r.phase \in {"sweeping", "undoing"}
        /\ UNCHANGED <<disk, lock, drawn, clock, started, cleared>>
    BY OfOne DEF Sweep, Undo
  <1>2. CASE proc' = [proc EXCEPT ![p].phase = "closing"] /\ UNCHANGED <<keystore, leaked>>
    <2> DEFINE q == [r EXCEPT !.phase = "closing"]
    <2>1. q \in Process /\ q.snap = r.snap /\ q.cmd = r.cmd /\ q.phase = "closing"
      BY <1>1 DEF Process, Phase
    <2>2. proc' = [proc EXCEPT ![p] = q]
      BY <1>2
    <2> HIDE DEF q
    <2> QED BY <1>1, <1>2, <2>1, <2>2, OfOne, LeavingStep DEF Prepares
  <1>3. CASE \E a : Forget(a) /\ proc' = [proc EXCEPT ![p].drop = @ \ {a}]
    <2>1. PICK a : Forget(a) /\ proc' = [proc EXCEPT ![p].drop = @ \ {a}]
      BY <1>3
    <2> DEFINE q == [r EXCEPT !.drop = r.drop \ {a}]
    <2>2. q \in Process
      BY <1>1, ListShrinks
    <2>3. q.snap = r.snap /\ q.cmd = r.cmd /\ q.phase = r.phase
      BY <1>1 DEF Process
    <2>4. proc' = [proc EXCEPT ![p] = q]
      BY <2>1
    <2>5. keystore' \subseteq Account /\ leaked' \subseteq Account
      BY <2>1, OfOne, ForgetType
    <2> HIDE DEF q
    <2> QED BY <1>1, <2>2, <2>3, <2>4, <2>5, OfOne, LeavingStep DEF Prepares
  <1>4. CASE \E a : Forget(a) /\ proc' = [proc EXCEPT ![p].made = @ \ {a}]
    <2>1. PICK a : Forget(a) /\ proc' = [proc EXCEPT ![p].made = @ \ {a}]
      BY <1>4
    <2> DEFINE q == [r EXCEPT !.made = r.made \ {a}]
    <2>2. q \in Process
      BY <1>1, ListShrinks
    <2>3. q.snap = r.snap /\ q.cmd = r.cmd /\ q.phase = r.phase
      BY <1>1 DEF Process
    <2>4. proc' = [proc EXCEPT ![p] = q]
      BY <2>1
    <2>5. keystore' \subseteq Account /\ leaked' \subseteq Account
      BY <2>1, OfOne, ForgetType
    <2> HIDE DEF q
    <2> QED BY <1>1, <2>2, <2>3, <2>4, <2>5, OfOne, LeavingStep DEF Prepares
  <1> QED BY <1>2, <1>3, <1>4 DEF Sweep, Undo, Goto

\* The steps that remove the vault: p holds the lock, and what it loaded does
\* not matter any more.
LEMMA RemovalStep ==
  ASSUME IInv, NEW p \in Proc, NEW q \in Process,
         proc' = [proc EXCEPT ![p] = q],
         disk' \in {disk, Absent},
         UNCHANGED <<lock, drawn, clock, started>>,
         keystore' \subseteq Account, cleared' \subseteq Account, leaked' \subseteq Account,
         lock = p, q.snap = proc[p].snap, ~Prepares(q),
         q.phase \in {"aborting", "wiping"} => Lifecycle(q.cmd)
  PROVE  IInv'
  <1>1. WellFormed(Absent) /\ disk' \in StateFile
    BY OfOne, AbsentType DEF WellFormed
  <1>2. PlannedAt(q, drawn')
    BY DEF PlannedAt, Prepares
  <1>3. clock \in Nat /\ Absent.stamp <= clock
    BY OfOne, AbsentType
  <1>4. Moves(p, q)
    BY <1>1, <1>2, <1>3 DEF Moves
  <1> QED BY <1>1, <1>4, OfOne, MovesKeepIInv

LEMMA DeleteNextType ==
  ASSUME IInv, NEW p \in Proc, DeleteNext(p)
  PROVE  \E q \in Process :
           /\ proc' = [proc EXCEPT ![p] = q]
           /\ q.snap = proc[p].snap /\ q.phase = proc[p].phase /\ q.cmd = proc[p].cmd
           /\ disk' = disk /\ keystore' \subseteq Account
           /\ cleared' \subseteq Account /\ leaked' \subseteq Account
  <1> DEFINE r == proc[p]
  <1>1. PICK a \in NextDelete(r) : /\ keystore' = keystore \ {a}
                                   /\ cleared' = cleared \cup {a}
                                   /\ proc' = [proc EXCEPT ![p].drop = @ \ {a}]
                                   /\ UNCHANGED <<disk, leaked>>
    BY DEF DeleteNext
  <1>2. r \in Process
    BY OfOne
  <1>3. a \in Account
    BY <1>2 DEF NextDelete, Process
  <1> DEFINE q == [r EXCEPT !.drop = r.drop \ {a}]
  <1>4. q \in Process
    BY <1>2, ListShrinks
  <1>5. q.snap = r.snap /\ q.phase = r.phase /\ q.cmd = r.cmd
    BY <1>2 DEF Process
  <1>6. proc' = [proc EXCEPT ![p] = q]
    BY <1>1
  <1> HIDE DEF q
  <1>7. keystore' \subseteq Account /\ cleared' \subseteq Account /\ leaked' \subseteq Account
    BY <1>1, <1>3, OfOne
  <1> QED BY <1>1, <1>4, <1>5, <1>6, <1>7

\* A process that removes the vault was a lifecycle command from its start.
LEMMA RemovalKeeps ==
  ASSUME IInv, NEW p \in Proc, Abort(p) \/ Wipe(p)
  PROVE  IInv'
  <1> DEFINE r == proc[p]
  <1>1. r \in Process /\ r.phase \in {"aborting", "wiping"}
        /\ Lifecycle(r.cmd) /\ lock = p
        /\ UNCHANGED <<lock, drawn, clock, started>>
    BY OfOne DEF Abort, Wipe, NeedsLock, PlannedAt
  <1>2. CASE DeleteNext(p)
    BY <1>1, <1>2, DeleteNextType, RemovalStep DEF Prepares
  <1>3. CASE ~DeleteNext(p)
    <2>1. /\ \/ proc' = [proc EXCEPT ![p].phase = "closing", ![p].drop = {}]
             \/ proc' = [proc EXCEPT ![p].phase = "wiped"]
          /\ disk' \in {disk, Absent}
          /\ UNCHANGED <<keystore, cleared>>
          /\ leaked' \subseteq leaked \cup (r.drop \cap keystore)
      BY <1>3 DEF Abort, Wipe, Goto
    <2>2. PICK q \in {[r EXCEPT !.phase = "closing", !.drop = {}],
                      [r EXCEPT !.phase = "wiped"]} :
            proc' = [proc EXCEPT ![p] = q]
      BY <2>1
    <2>3. q \in Process /\ q.snap = r.snap /\ q.phase \in {"closing", "wiped"}
      BY <1>1, <2>2 DEF Process, Phase
    <2>4. keystore' \subseteq Account /\ cleared' \subseteq Account /\ leaked' \subseteq Account
      BY <2>1, OfOne
    <2> QED BY <1>1, <2>1, <2>2, <2>3, <2>4, RemovalStep DEF Prepares
  <1> QED BY <1>2, <1>3

LEMMA EndKeeps ==
  ASSUME IInv, NEW p \in Proc, Close(p) \/ Crash(p)
  PROVE  IInv'
  <1>1. /\ proc' = [proc EXCEPT ![p] = Idle]
        /\ lock' = IF lock = p THEN NoProc ELSE lock
        /\ UNCHANGED <<disk, clock, started, drawn, keystore, cleared>>
    BY DEF Close, Crash
  <1>2. leaked' \subseteq Account
    BY OfOne DEF Close, Crash
  <1>3. Idle \in Process /\ Idle.phase = "idle" /\ Idle.snap = Absent
    BY IdleType DEF Idle
  <1>4. ~NeedsLock(Idle) /\ PlannedAt(Idle, drawn')
    BY <1>3 DEF NeedsLock, PlannedAt
  <1> QED BY <1>1, <1>2, <1>3, <1>4, OfOne, QuietStep

-----------------------------------------------------------------------------
(* Theorems.                                                               *)

LEMMA InitEstablishes == Init => IInv
  <1> SUFFICES ASSUME Init PROVE IInv
    OBVIOUS
  <1> USE DEF Init
  <1>1. TypeOK
    BY AbsentType, IdleType, ConstantsAssumption DEF TypeOK
  <1>2. \A p \in Proc : proc[p].snap = Absent /\ proc[p].phase = "idle"
    BY DEF Idle
  <1>3. LockHeld /\ SnapCurrent /\ Planned
    BY <1>2 DEF LockHeld, SnapCurrent, Planned, NeedsLock, PlannedAt
  <1>4. StampsTell
    BY <1>2, AbsentType DEF StampsTell, WellFormed
  <1> QED BY <1>1, <1>3, <1>4 DEF IInv

LEMMA NextKeeps == IInv /\ [Next]_vars => IInv'
  <1> SUFFICES ASSUME IInv, [Next]_vars PROVE IInv'
    OBVIOUS
  <1>1. CASE UNCHANGED vars
    BY <1>1 DEF vars, IInv, TypeOK, LockHeld, StampsTell, SnapCurrent, Planned
  <1>2. ASSUME NEW p \in Proc, NEW c \in Commands, Start(p, c) PROVE IInv'
    BY <1>2, StartKeeps
  <1>3. ASSUME NEW p \in Proc, Step(p) PROVE IInv'
    BY <1>3, OpenKeeps, RefuseKeeps, PlanKeeps, StoreDeviceKeyKeeps, StoreDataKeyKeeps,
       StoreFailsKeeps, ClearKeeps, CheckSnapshotKeeps, FailedSaveKeeps, KeyLedgerKeeps,
       WriteKeeps, SweepKeeps, RemovalKeeps, EndKeeps DEF Step
  <1>4. ASSUME NEW p \in Proc, Crash(p) PROVE IInv'
    BY <1>4, EndKeeps
  <1> QED BY <1>1, <1>2, <1>3, <1>4 DEF Next

\* The invariant the other theorems rest on.
THEOREM Invariance == Spec => []IInv
  <1>1. Init => IInv
    BY InitEstablishes
  <1>2. IInv /\ [Next]_vars => IInv'
    BY NextKeeps
  <1> QED BY <1>1, <1>2, PTL DEF Spec

\* Every variable keeps its type: in particular no command writes a state file
\* that mentions an account that was never drawn.
THEOREM TypeCorrect == Spec => []TypeOK
  <1>1. IInv => TypeOK
    BY DEF IInv
  <1> QED BY <1>1, Invariance, PTL

\* FileStore.save of a lifecycle command is never refused by its snapshot check,
\* whatever the unlocked commands do meanwhile.
THEOREM LockedSaveIsCurrent == Spec => []LockedNeverStale
  <1>1. IInv => LockedNeverStale
    BY DEF IInv, LockedNeverStale, SnapCurrent, NeedsLock, Prepares
  <1> QED BY <1>1, Invariance, PTL

\* Only a save and the removal of the vault change the state file.
LEMMA FileChanges ==
  ASSUME Next
  PROVE  \/ disk' = disk
         \/ \E p \in Proc : Write(p)
         \/ \E p \in Proc : (Abort(p) \/ Wipe(p)) /\ disk' = Absent
  <1>1. ASSUME NEW p \in Proc, Abort(p) \/ Wipe(p) PROVE disk' \in {disk, Absent}
    BY <1>1 DEF Abort, Wipe, DeleteNext
  <1>2. ASSUME NEW p \in Proc, NEW c \in Commands, Start(p, c) PROVE disk' = disk
    BY <1>2 DEF Start
  <1>3. ASSUME NEW p \in Proc, Plan(p) PROVE disk' = disk
    BY <1>3 DEF Plan, PlanInit, PlanEnroll, PlanAdd, PlanRekey, PlanReseal, PlanRemove,
                PlanRevoke, PlanWipe, PlanAudit, Proceed
  <1>4. ASSUME NEW p \in Proc, Crash(p) PROVE disk' = disk
    BY <1>4 DEF Crash
  <1>5. ASSUME NEW p \in Proc, Step(p), ~Write(p), ~Abort(p), ~Wipe(p), ~Plan(p)
        PROVE  disk' = disk
    BY <1>5 DEF Step, Open, Refuse, StoreDeviceKey, StoreDataKey, StoreFails, Clear,
                CheckSnapshot, Stale, KeyLedger, KeyLedgerFails, WriteFails, SaveFails,
                Sweep, Undo, Close
  <1> QED BY <1>1, <1>2, <1>3, <1>4, <1>5 DEF Next

\* A save never loses what another process saved: until the vault is removed,
\* every new state file is of the same vault and has more audit events.
THEOREM NoLostSave == Spec => AuditGrows
  <1> DEFINE A == disk' # disk /\ disk # Absent =>
                    \/ disk' = Absent
                    \/ disk'.ledger = disk.ledger /\ disk'.events > disk.events
  <1>1. IInv /\ [Next]_vars => [A]_vars
    <2> SUFFICES ASSUME IInv, Next PROVE A
      OBVIOUS
    <2>1. ASSUME NEW p \in Proc, Write(p) PROVE A
      BY <2>1, WrittenFile
    <2>2. disk' = disk \/ disk' = Absent \/ \E p \in Proc : Write(p)
      BY FileChanges
    <2> QED BY <2>1, <2>2
  <1> QED BY <1>1, Invariance, PTL DEF Spec, AuditGrows

-----------------------------------------------------------------------------
(* The keys: what the state file needs.                                    *)

\* The keys without which something in the file cannot be read.
Needed(f) == Sealing(f, Secret) \cup f.trusted \cup ({f.ledger} \ {None})

\* Every account the file has a use for.
InUse(f) == Sealing(f, Secret) \cup Devices(f) \cup Referenced(f)

\* An account seals one version, of one secret, and is no device's and no
\* ledger's; and a secret has one version of each number.
OneOwner(f) ==
  /\ \A s, t \in Secret : \A v \in f.secrets[s], w \in f.secrets[t] :
       v.account = w.account => s = t /\ v = w
  /\ \A s \in Secret : \A v, w \in f.secrets[s] : v.n = w.n => v = w
  /\ \A s \in Secret : \A v \in f.secrets[s] : v.account \notin Devices(f) \cup {f.ledger}

\* The newest version of a secret, and no other, is active.
Newest(f, s, v) ==
  v \in ActiveVersions(f, s) /\ \A w \in f.secrets[s] : w # v => w.n < v.n /\ ~w.active

Ordered(f) == \A s \in Secret : f.secrets[s] # {} => \E v \in f.secrets[s] : Newest(f, s, v)
Bound(f) == \A s \in f.bound : \A v \in f.secrets[s] : v.bound

\* n accounts have been drawn.
FileSound(f, n) ==
  /\ \A a \in InUse(f) : a <= n
  /\ OneOwner(f)
  /\ Ordered(f)
  /\ Bound(f)

-----------------------------------------------------------------------------
(* What a command has in memory, by what it loaded.                        *)

Works(r) == r.phase \in {"storing", "clearing", "saving", "keying", "writing"}

SlotOf(s, n) == [secret |-> s, n |-> n]
Slots(r) == {SlotOf(k.secret, k.n) : k \in r.new}
Accounts(r) == {k.account : k \in r.new}

\* The keys it has stored, or will, for what it is about to add.
Own(r) == IF r.cmd \in {"enroll", "settle"} THEN {r.fresh} ELSE Accounts(r)

\* Each new key is for one slot, and is nobody else's.
KeysMade(r) ==
  /\ \A j, k \in r.new :
       j.account = k.account \/ (j.secret = k.secret /\ j.n = k.n) => j = k
  /\ r.todo \cap Slots(r) = {}
  /\ r.phase # "storing" => r.todo = {}
  /\ Own(r) \cap InUse(r.snap) = {}
  /\ r.phase = "storing" /\ r.cmd \in {"enroll", "settle"} => r.made = {}
  /\ r.made \subseteq Own(r) \cup (IF r.phase = "writing" THEN {LedgerAccount(r)} ELSE {})

\* The new keys are those of the next versions.
Renews(r) ==
  /\ Usable(r.snap)
  /\ r.todo \cup Slots(r) = NextSlots(r.snap, r.scope)
  /\ r.cmd = "add" => \E s \in Secret : r.scope = {s}
  /\ r.cmd = "rekey" => /\ r.scope # {}
                        /\ \E w \in Workspace :
                             r.scope = {s \in w : ActiveVersions(r.snap, s) # {}}

\* The old keys are those of the versions that get new ones, and versions that
\* get none are bound already.
Reseals(r) ==
  /\ Usable(r.snap)
  /\ r.scope \in Workspace
  /\ \A a \in r.drop : \E s \in r.scope : \E v \in r.snap.secrets[s] :
       a = v.account /\ SlotOf(s, v.n) \in r.todo \cup Slots(r)
  /\ \A s \in r.scope : \A v \in r.snap.secrets[s] :
       v.bound \/ SlotOf(s, v.n) \in r.todo \cup Slots(r)

Removes(r) ==
  \E s \in Secret : r.scope = {s} /\ r.snap.secrets[s] # {} /\ r.drop = Sealing(r.snap, {s})

Revokes(r) ==
  /\ r.fresh \in Devices(r.snap)
  /\ r.snap.trusted = {r.fresh} => \A s \in Secret : ActiveVersions(r.snap, s) = {}
  /\ r.phase # "clearing" => r.drop = {}

\* What each command is about to do.
Fits(r) ==
  /\ r.cmd \notin {"none", "wipe"}
  /\ r.phase = "clearing" => r.cmd = "revoke"
  /\ r.cmd \notin {"add", "rekey", "bind", "rename"} => r.todo = {} /\ r.new = {}
  /\ r.cmd \notin {"bind", "rename", "rm", "revoke"} => r.drop = {}
  /\ r.cmd \in {"add", "rekey"} => Renews(r)
  /\ r.cmd \in {"bind", "rename"} => Reseals(r)
  /\ r.cmd = "rm" => Removes(r)
  /\ r.cmd = "revoke" => Revokes(r)

InMemory(r) ==
  /\ r.phase \in {"idle", "opening", "planning"} => r.todo = {} /\ r.new = {} /\ r.drop = {}
  /\ ~Works(r) /\ r.phase # "undoing" => r.made = {}
  /\ r.phase \in {"sweeping", "undoing"} => Lifecycle(r.cmd)
  /\ Works(r) => KeysMade(r) /\ Fits(r)

-----------------------------------------------------------------------------
(* What the holder of the lock may rely on in the two stores.              *)

\* Its new keys are there.
Stored(r, ks, n) ==
  /\ r.cmd \in {"add", "rekey", "bind", "rename"} => Accounts(r) \subseteq ks
  /\ \A a \in Accounts(r) : a <= n
  /\ r.cmd \in {"init", "enroll", "settle"} => r.fresh <= n
  /\ r.cmd \in {"enroll", "settle"} /\ r.phase \in {"saving", "keying", "writing"} => r.fresh \in ks

\* A key made for the ledger is there, and was not there before.
Keyed(r, f, ks, cl) ==
  r.phase = "writing" =>
    /\ LedgerAccount(r) \in ks
    /\ LedgerAccount(r) \in r.made => LedgerAccount(r) \in cl \/ LedgerAccount(r) \notin Needed(f)

\* A revocation has deleted the device's keys, or has tried to.
Deleted(r, f, ks, lk) ==
  r.cmd = "revoke" =>
    (RevokedAccounts(r.snap, r.fresh) \cap ks) \ r.drop \subseteq lk \cup {f.ledger}

\* What it is about to delete is not needed, or all there is.
Deletes(r, f, ks) ==
  /\ r.phase = "undoing" => r.made \cap Needed(f) = {}
  /\ r.phase = "sweeping" => r.drop \cap Needed(f) = {}
  /\ r.phase \in {"wiping", "aborting"} => Referenced(f) \cap ks \subseteq r.drop
  /\ r.phase = "wiping" => r.drop \subseteq Referenced(f)

InStores(r, f, ks, cl, lk, n) ==
  /\ Works(r) => Stored(r, ks, n) /\ Keyed(r, f, ks, cl) /\ Deleted(r, f, ks, lk)
  /\ Deletes(r, f, ks)

-----------------------------------------------------------------------------
(* The keys: the inductive invariant.                                      *)

\* Keys that only a command's memory tells of.
Held(r) == r.made \cup (IF r.phase \in {"sweeping", "aborting"} THEN r.drop ELSE {})

Known(f, lk, pr) ==
  Referenced(f) \cup lk \cup UNION {Held(pr[p]) : p \in Proc}

KInv ==
  /\ IInv
  /\ FileSound(disk, drawn)
  /\ Needed(disk) \subseteq keystore \cup cleared
  /\ keystore \subseteq Known(disk, leaked, proc)
  /\ \A p \in Proc : InMemory(proc[p])
  /\ \A p \in Proc : NeedsLock(proc[p]) => InStores(proc[p], disk, keystore, cleared, leaked, drawn)

-----------------------------------------------------------------------------
(* Files.                                                                  *)

LEMMA UseTypes ==
  ASSUME NEW f \in StateFile
  PROVE  /\ Needed(f) \subseteq InUse(f)
         /\ InUse(f) \subseteq Account
         /\ Referenced(f) \subseteq InUse(f)
         /\ Devices(f) \subseteq InUse(f)
         /\ Sealing(f, Secret) \subseteq InUse(f)
         /\ f.ledger # None => f.ledger \in InUse(f) /\ f.ledger \in Needed(f)
         /\ f.ledger # None => f.ledger \in Referenced(f)
  <1>1. Sealing(f, Secret) \subseteq Account
    BY SealingType
  <1>2. Referenced(f) \subseteq Account /\ Devices(f) \subseteq Account
    BY DEF Referenced, Devices, StateFile
  <1> QED BY <1>1, <1>2 DEF Needed, InUse, Devices, Referenced

LEMMA InSealing ==
  ASSUME NEW f, NEW S, NEW s \in S, NEW v \in f.secrets[s]
  PROVE  v.account \in Sealing(f, S)
  BY DEF Sealing

LEMMA OfSealing ==
  ASSUME NEW f, NEW S, NEW a \in Sealing(f, S)
  PROVE  \E s \in S : \E v \in f.secrets[s] : v.account = a
  BY DEF Sealing

LEMMA AbsentIsSound ==
  /\ InUse(Absent) = {} /\ Needed(Absent) = {} /\ Referenced(Absent) = {}
  /\ \A n : FileSound(Absent, n)
  <1>1. Sealing(Absent, Secret) = {}
    BY DEF Sealing, Absent
  <1>2. /\ Absent.trusted = {} /\ Absent.revoked = {} /\ Absent.ledger = None
        /\ Absent.refs = {} /\ Absent.bound = {}
        /\ \A s \in Secret : Absent.secrets[s] = {}
    BY DEF Absent
  <1>3. InUse(Absent) = {} /\ Needed(Absent) = {} /\ Referenced(Absent) = {}
    BY <1>1, <1>2 DEF InUse, Needed, Devices, Referenced
  <1>4. OneOwner(Absent) /\ Ordered(Absent) /\ Bound(Absent)
    BY <1>2 DEF OneOwner, Ordered, Bound
  <1> QED BY <1>3, <1>4 DEF FileSound

\* Drawing more accounts does a file no harm.
LEMMA SoundLater ==
  ASSUME NEW f \in StateFile, NEW n \in Nat, NEW m \in Nat, n <= m, FileSound(f, n)
  PROVE  FileSound(f, m)
  <1>1. \A a \in InUse(f) : a \in Nat
    BY UseTypes DEF Account
  <1> QED BY <1>1 DEF FileSound

-----------------------------------------------------------------------------
(* Steps.                                                                  *)

\* What the invariant says of one process.
LEMMA OfOneKeys ==
  ASSUME KInv, NEW p \in Proc
  PROVE  /\ proc[p] \in Process /\ proc[p].snap \in StateFile
         /\ InMemory(proc[p])
         /\ NeedsLock(proc[p]) =>
              lock = p /\ InStores(proc[p], disk, keystore, cleared, leaked, drawn)
         /\ NeedsLock(proc[p]) /\ Prepares(proc[p]) => proc[p].snap = disk
         /\ PlannedAt(proc[p], drawn)
         /\ disk \in StateFile /\ keystore \subseteq Account
         /\ drawn \in 0 .. MaxAccount /\ drawn \in Nat /\ MaxAccount \in Nat
         /\ FileSound(disk, drawn)
         /\ Needed(disk) \subseteq keystore \cup cleared
         /\ IInv
  BY OfOne, ConstantsAssumption DEF KInv

Others(p) == UNION {Held(proc[o]) : o \in Proc \ {p}}

LEMMA KeysAreKnown ==
  ASSUME KInv, NEW p \in Proc
  PROVE  keystore \subseteq Referenced(disk) \cup leaked \cup Held(proc[p]) \cup Others(p)
  BY DEF KInv, Known, Others

LEMMA KnownAfter ==
  ASSUME IInv, NEW p \in Proc, NEW q, proc' = [proc EXCEPT ![p] = q],
         keystore' \subseteq Referenced(disk') \cup leaked' \cup Held(q) \cup Others(p)
  PROVE  keystore' \subseteq Known(disk, leaked, proc)'
  <1>1. proc'[p] = q /\ \A o \in Proc \ {p} : proc'[o] = proc[o]
    BY DEF IInv, TypeOK
  <1>2. Held(q) \cup Others(p) \subseteq UNION {Held(proc'[o]) : o \in Proc}
    BY <1>1 DEF Others
  <1> QED BY <1>2 DEF Known

\* A step that leaves the file and the keystore alone.
LEMMA QuietKeys ==
  ASSUME KInv, IInv', NEW p \in Proc, NEW q, proc' = [proc EXCEPT ![p] = q],
         UNCHANGED <<disk, keystore, cleared, drawn>>, leaked \subseteq leaked',
         InMemory(q),
         NeedsLock(q) => InStores(q, disk, keystore, cleared, leaked', drawn),
         Held(proc[p]) \cap keystore \subseteq Referenced(disk) \cup leaked' \cup Held(q)
  PROVE  KInv'
  <1>1. proc'[p] = q /\ \A o \in Proc : o # p => proc'[o] = proc[o]
    BY DEF KInv, IInv, TypeOK
  <1>2. keystore' \subseteq Known(disk, leaked, proc)'
    <2>1. keystore' \subseteq Referenced(disk') \cup leaked' \cup Held(q) \cup Others(p)
      BY KeysAreKnown
    <2> QED BY <2>1, KnownAfter DEF KInv
  <1>3. \A o \in Proc : InMemory(proc'[o])
    BY <1>1 DEF KInv
  <1>4. ASSUME NEW o \in Proc, o # p, NeedsLock(proc[o])
        PROVE  InStores(proc[o], disk, keystore, cleared, leaked', drawn)
    BY <1>4 DEF KInv, InStores, Deleted
  <1>5. \A o \in Proc : NeedsLock(proc'[o]) =>
          InStores(proc'[o], disk, keystore, cleared, leaked', drawn)
    BY <1>1, <1>4
  <1> QED BY <1>2, <1>3, <1>5 DEF KInv

\* A step of the process that holds the lock.
LEMMA LockedKeys ==
  ASSUME KInv, IInv', NEW p \in Proc, NEW q, proc' = [proc EXCEPT ![p] = q],
         lock = p,
         FileSound(disk', drawn'),
         Needed(disk') \subseteq keystore' \cup cleared',
         keystore' \subseteq Referenced(disk') \cup leaked' \cup Held(q) \cup Others(p),
         InMemory(q),
         NeedsLock(q) => InStores(q, disk', keystore', cleared', leaked', drawn')
  PROVE  KInv'
  <1>1. proc'[p] = q /\ \A o \in Proc : o # p => proc'[o] = proc[o]
    BY DEF KInv, IInv, TypeOK
  <1>2. keystore' \subseteq Known(disk, leaked, proc)'
    BY KnownAfter DEF KInv
  <1>3. \A o \in Proc : InMemory(proc'[o])
    BY <1>1 DEF KInv
  <1>4. \A o \in Proc : o # p => ~NeedsLock(proc[o])
    BY DEF KInv, IInv, LockHeld
  <1>5. \A o \in Proc : NeedsLock(proc'[o]) =>
          InStores(proc'[o], disk', keystore', cleared', leaked', drawn')
    BY <1>1, <1>4
  <1> QED BY <1>2, <1>3, <1>5 DEF KInv

\* A command that has nothing to do with keys yet, or no longer.
Rests(r) == r.phase \in {"idle", "opening", "planning", "closing", "wiped"} /\ r.made = {}

LEMMA RestIsEasy ==
  ASSUME NEW r, Rests(r)
  PROVE  /\ Held(r) = {}
         /\ \A f, ks, cl, lk, n : InStores(r, f, ks, cl, lk, n)
         /\ r.phase \in {"closing", "wiped"} => InMemory(r)
  BY DEF Rests, Held, InStores, Works, Deletes, InMemory

-----------------------------------------------------------------------------
(* Steps that touch neither store.                                         *)

LEMMA StartKeepsKeys ==
  ASSUME KInv, IInv', NEW p \in Proc, NEW c \in Commands, Start(p, c)
  PROVE  KInv'
  <1> DEFINE q == [Idle EXCEPT !.phase = "opening", !.cmd = c]
  <1>1. /\ q.phase = "opening" /\ q.todo = {} /\ q.new = {} /\ q.made = {} /\ q.drop = {}
    BY DEF Idle
  <1>2. proc' = [proc EXCEPT ![p] = q]
    BY DEF Start
  <1>3. Rests(proc[p]) /\ Rests(q)
    BY <1>1, OfOneKeys DEF Start, Rests, InMemory, Works
  <1>4. InMemory(q)
    BY <1>1 DEF InMemory, Works
  <1> HIDE DEF q
  <1> QED BY <1>2, <1>3, <1>4, RestIsEasy, QuietKeys DEF Start

LEMMA OpenKeepsKeys ==
  ASSUME KInv, IInv', NEW p \in Proc, Open(p)
  PROVE  KInv'
  <1> DEFINE r == proc[p]
             blind == Initialized(disk) /\ disk.ledger \notin keystore
             q == [r EXCEPT !.phase = "planning", !.snap = disk, !.blind = blind]
  <1>1. /\ r \in Process /\ r.phase = "opening" /\ r.made = {} /\ r.todo = {} /\ r.new = {}
        /\ r.drop = {}
    BY OfOneKeys DEF Open, InMemory, Works
  <1>2. proc' = [proc EXCEPT ![p] = q]
    BY DEF Open
  <1>3. /\ q.phase = "planning" /\ q.todo = {} /\ q.new = {} /\ q.made = {} /\ q.drop = {}
    BY <1>1 DEF Process
  <1> HIDE DEF q
  <1>4. Rests(r) /\ Rests(q) /\ InMemory(q)
    BY <1>1, <1>3 DEF Rests, InMemory, Works
  <1> QED BY <1>2, <1>4, RestIsEasy, QuietKeys DEF Open

LEMMA RefuseKeepsKeys ==
  ASSUME KInv, IInv', NEW p \in Proc, Refuse(p)
  PROVE  KInv'
  <1> DEFINE r == proc[p]
             q == [r EXCEPT !.phase = "closing"]
  <1>1. r \in Process /\ r.phase = "planning" /\ r.made = {}
    BY OfOneKeys DEF Refuse, InMemory, Works
  <1>2. proc' = [proc EXCEPT ![p] = q]
    BY DEF Refuse, Goto
  <1>3. q.phase = "closing" /\ q.made = {}
    BY <1>1 DEF Process
  <1> HIDE DEF q
  <1>4. Rests(r) /\ Rests(q) /\ InMemory(q)
    BY <1>1, <1>3, RestIsEasy DEF Rests
  <1> QED BY <1>2, <1>4, RestIsEasy, QuietKeys DEF Refuse

LEMMA EndKeepsKeys ==
  ASSUME KInv, IInv', NEW p \in Proc, Close(p) \/ Crash(p)
  PROVE  KInv'
  <1> DEFINE r == proc[p]
  <1>1. /\ proc' = [proc EXCEPT ![p] = Idle]
        /\ UNCHANGED <<disk, keystore, cleared, drawn>>
        /\ leaked \subseteq leaked'
    BY DEF Close, Crash
  <1>2. Rests(Idle) /\ InMemory(Idle)
    BY DEF Rests, Idle, InMemory, Works
  <1>3. Held(r) \cap keystore \subseteq Referenced(disk) \cup leaked'
    <2>1. CASE Close(p)
      BY <2>1, OfOneKeys DEF Close, InMemory, Works, Held
    <2>2. CASE Crash(p)
      BY <2>2 DEF Crash, Held
    <2> QED BY <2>1, <2>2
  <1> QED BY <1>1, <1>2, <1>3, RestIsEasy, QuietKeys

-----------------------------------------------------------------------------
(* Planning.                                                               *)

\* A command that passed its checks.
LEMMA PlanKeys ==
  ASSUME KInv, IInv', NEW p \in Proc, NEW c, NEW k \in Nat, NEW q \in Process,
         Proceed(p, c, k, q), k = 0 \/ Lifecycle(c), InMemory(q),
         NeedsLock(q) => InStores(q, disk, keystore, cleared, leaked, drawn + k)
  PROVE  KInv'
  <1>1. proc[p].phase = "planning" /\ proc[p].cmd = c /\ proc' = [proc EXCEPT ![p] = q]
        /\ drawn' = drawn + k
        /\ UNCHANGED <<disk, keystore, lock, cleared, leaked>>
    BY DEF Proceed
  <1>2. Held(proc[p]) = {}
    BY <1>1, OfOneKeys, RestIsEasy DEF InMemory, Works, Rests
  <1>3. drawn \in Nat /\ drawn + k \in Nat /\ drawn <= drawn + k
    BY OfOneKeys
  <1>4. CASE k = 0
    <2>1. drawn' = drawn
      BY <1>1, <1>3, <1>4
    <2> QED BY <1>1, <1>2, <2>1, QuietKeys
  <1>5. CASE Lifecycle(c)
    <2>1. lock = p
      BY <1>1, <1>5, OfOneKeys DEF NeedsLock
    <2>2. FileSound(disk', drawn')
      BY <1>1, <1>3, OfOneKeys, SoundLater
    <2>3. keystore' \subseteq Referenced(disk') \cup leaked' \cup Held(q) \cup Others(p)
      BY <1>1, <1>2, KeysAreKnown
    <2>4. Needed(disk') \subseteq keystore' \cup cleared'
      BY <1>1, OfOneKeys
    <2> QED BY <1>1, <2>1, <2>2, <2>3, <2>4, LockedKeys
  <1> QED BY <1>4, <1>5

\* What the invariant asks of a command that has made no keys yet.
LEMMA FreshPlan ==
  ASSUME NEW q, NEW f, NEW ks, NEW cl, NEW lk, NEW n,
         q.phase \in {"storing", "saving", "clearing"}, q.new = {}, q.made = {},
         q.phase # "storing" => q.todo = {},
         q.cmd \in {"enroll", "settle"} => q.fresh \notin InUse(q.snap),
         q.cmd \in {"enroll", "settle"} => q.phase = "storing",
         q.cmd \in {"init", "enroll", "settle"} => q.fresh <= n,
         Fits(q), Deleted(q, f, ks, lk)
  PROVE  InMemory(q) /\ InStores(q, f, ks, cl, lk, n)
  <1>1. Accounts(q) = {} /\ Slots(q) = {}
    BY DEF Accounts, Slots
  <1>2. KeysMade(q)
    BY <1>1 DEF KeysMade, Own
  <1>3. Stored(q, ks, n) /\ Keyed(q, f, ks, cl)
    BY <1>1 DEF Stored, Keyed
  <1>4. Deletes(q, f, ks)
    BY DEF Deletes
  <1>5. InMemory(q)
    BY <1>2 DEF InMemory, Works
  <1> QED BY <1>3, <1>4, <1>5 DEF InStores

LEMMA BeyondUse ==
  ASSUME NEW f \in StateFile, NEW n \in Nat, FileSound(f, n)
  PROVE  n + 1 \notin InUse(f)
  BY DEF FileSound

\* What planning starts from.
LEMMA Planning ==
  ASSUME KInv, NEW p \in Proc, proc[p].phase = "planning"
  PROVE  /\ proc[p] \in Process /\ proc[p].snap \in StateFile
         /\ proc[p].todo = {} /\ proc[p].new = {} /\ proc[p].made = {} /\ proc[p].drop = {}
         /\ Lifecycle(proc[p].cmd) => proc[p].snap = disk
         /\ drawn \in Nat
  BY OfOneKeys DEF InMemory, Works, NeedsLock, Prepares

LEMMA PlanInitKeys ==
  ASSUME KInv, IInv', NEW p \in Proc, PlanInit(p)
  PROVE  KInv'
  <1> DEFINE r == proc[p]
             q == [r EXCEPT !.phase = "saving", !.fresh = drawn + 1]
  <1>1. Proceed(p, "init", 1, q) /\ r.phase = "planning" /\ r.cmd = "init"
    BY DEF PlanInit, Proceed
  <1>2. /\ r \in Process /\ r.todo = {} /\ r.new = {} /\ r.made = {} /\ r.drop = {}
        /\ drawn \in Nat
    BY <1>1, Planning
  <1>3. /\ q.phase = "saving" /\ q.cmd = "init" /\ q.todo = {} /\ q.new = {} /\ q.made = {}
        /\ q.drop = {} /\ q.fresh = drawn + 1
    BY <1>1, <1>2 DEF Process
  <1>4. q \in Process
    <2>1. proc'[p] = q /\ proc'[p] \in Process
      BY <1>1 DEF Proceed, KInv, IInv, TypeOK
    <2> QED BY <2>1
  <1> HIDE DEF q
  <1>5. Fits(q) /\ Deleted(q, disk, keystore, leaked)
    BY <1>3 DEF Fits, Deleted
  <1>6. InMemory(q) /\ InStores(q, disk, keystore, cleared, leaked, drawn + 1)
    BY <1>2, <1>3, <1>5, FreshPlan
  <1> QED BY <1>1, <1>4, <1>6, PlanKeys DEF Lifecycle

LEMMA PlanEnrollKeys ==
  ASSUME KInv, IInv', NEW p \in Proc, PlanEnroll(p)
  PROVE  KInv'
  <1> DEFINE r == proc[p]
             q == [r EXCEPT !.phase = "storing", !.fresh = drawn + 1]
  <1>1. Proceed(p, "enroll", 1, q) /\ r.phase = "planning" /\ r.cmd = "enroll"
    BY DEF PlanEnroll, Proceed
  <1>2. /\ r \in Process /\ r.todo = {} /\ r.new = {} /\ r.made = {} /\ r.drop = {}
        /\ drawn \in Nat /\ r.snap = disk
    BY <1>1, Planning DEF Lifecycle
  <1>3. /\ q.phase = "storing" /\ q.cmd = "enroll" /\ q.todo = {} /\ q.new = {} /\ q.made = {}
        /\ q.drop = {} /\ q.fresh = drawn + 1 /\ q.snap = disk
    BY <1>1, <1>2 DEF Process
  <1>4. q \in Process
    <2>1. proc'[p] = q /\ proc'[p] \in Process
      BY <1>1 DEF Proceed, KInv, IInv, TypeOK
    <2> QED BY <2>1
  <1> HIDE DEF q
  <1>5. Fits(q) /\ Deleted(q, disk, keystore, leaked)
    BY <1>3 DEF Fits, Deleted
  <1>6. q.fresh \notin InUse(q.snap)
    BY <1>2, <1>3, OfOneKeys, BeyondUse
  <1>7. InMemory(q) /\ InStores(q, disk, keystore, cleared, leaked, drawn + 1)
    BY <1>2, <1>3, <1>5, <1>6, FreshPlan
  <1> QED BY <1>1, <1>4, <1>7, PlanKeys DEF Lifecycle

\* A plan that draws no account and makes no device.
LEMMA PlainPlan ==
  ASSUME KInv, IInv', NEW p \in Proc, NEW c, NEW q, Proceed(p, c, 0, q),
         q.phase \in {"storing", "saving", "clearing"}, q.new = {}, q.made = {},
         q.phase # "storing" => q.todo = {}, q.cmd \notin {"init", "enroll", "settle"},
         Fits(q), Deleted(q, disk, keystore, leaked)
  PROVE  KInv'
  <1>1. q \in Process
    <2>1. proc'[p] = q /\ proc'[p] \in Process
      BY DEF Proceed, KInv, IInv, TypeOK
    <2> QED BY <2>1
  <1>2. drawn + 0 = drawn
    BY OfOneKeys
  <1>3. InMemory(q) /\ InStores(q, disk, keystore, cleared, leaked, drawn)
    BY FreshPlan
  <1> QED BY <1>1, <1>2, <1>3, PlanKeys

LEMMA PlanAddKeys ==
  ASSUME KInv, IInv', NEW p \in Proc, NEW s \in Secret, PlanAdd(p, s)
  PROVE  KInv'
  <1> DEFINE r == proc[p]
             slots == NextSlots(r.snap, {s})
             q == [r EXCEPT !.phase = "storing", !.scope = {s}, !.todo = slots]
  <1>1. Proceed(p, "add", 0, q) /\ r.phase = "planning" /\ r.cmd = "add" /\ Usable(r.snap)
    BY DEF PlanAdd, Proceed
  <1>2. r \in Process /\ r.new = {} /\ r.made = {} /\ r.drop = {}
    BY <1>1, Planning
  <1>3. /\ q.phase = "storing" /\ q.cmd = "add" /\ q.todo = slots /\ q.new = {} /\ q.made = {}
        /\ q.drop = {} /\ q.scope = {s} /\ q.snap = r.snap
    <2> HIDE DEF slots
    <2> QED BY <1>1, <1>2 DEF Process
  <1> HIDE DEF q
  <1>4. Renews(q)
    BY <1>1, <1>3 DEF Renews, Slots
  <1>5. Fits(q) /\ Deleted(q, disk, keystore, leaked)
    BY <1>3, <1>4 DEF Fits, Deleted
  <1> QED BY <1>1, <1>3, <1>5, PlainPlan

LEMMA PlanRekeyKeys ==
  ASSUME KInv, IInv', NEW p \in Proc, NEW w \in Workspace, PlanRekey(p, w)
  PROVE  KInv'
  <1> DEFINE r == proc[p]
             S == {s \in w : ActiveVersions(r.snap, s) # {}}
             slots == NextSlots(r.snap, S)
             q == [r EXCEPT !.phase = "storing", !.scope = S, !.todo = slots]
  <1>1. /\ Proceed(p, "rekey", 0, q) /\ r.phase = "planning" /\ r.cmd = "rekey"
        /\ Usable(r.snap) /\ S # {}
    BY DEF PlanRekey, Proceed
  <1>2. r \in Process /\ r.new = {} /\ r.made = {} /\ r.drop = {}
    BY <1>1, Planning
  <1>3. /\ q.phase = "storing" /\ q.cmd = "rekey" /\ q.todo = slots /\ q.new = {} /\ q.made = {}
        /\ q.drop = {} /\ q.scope = S /\ q.snap = r.snap
    <2> HIDE DEF slots, S
    <2> QED BY <1>1, <1>2 DEF Process
  <1> HIDE DEF q
  <1>4. Renews(q)
    BY <1>1, <1>3 DEF Renews, Slots
  <1>5. Fits(q) /\ Deleted(q, disk, keystore, leaked)
    BY <1>3, <1>4 DEF Fits, Deleted
  <1> QED BY <1>1, <1>3, <1>5, PlainPlan

LEMMA PlanResealKeys ==
  ASSUME KInv, IInv', NEW p \in Proc, NEW w \in Workspace, NEW c \in {"bind", "rename"},
         PlanReseal(p, c, w)
  PROVE  KInv'
  <1> DEFINE r == proc[p]
             V(s) == {v \in r.snap.secrets[s] : c = "bind" => ~v.bound}
             slots == UNION {{[secret |-> s, n |-> v.n] : v \in V(s)} : s \in w}
             drop == UNION {{v.account : v \in V(s)} : s \in w}
             q == [r EXCEPT !.phase = BeforeSave(slots), !.scope = w, !.todo = slots,
                            !.drop = drop]
  <1>1. Proceed(p, c, 0, q) /\ r.phase = "planning" /\ r.cmd = c /\ Usable(r.snap)
    BY DEF PlanReseal, Proceed
  <1>2. r \in Process /\ r.new = {} /\ r.made = {}
    BY <1>1, Planning
  <1>3. /\ q.phase = BeforeSave(slots) /\ q.cmd = c /\ q.todo = slots /\ q.new = {}
        /\ q.made = {} /\ q.drop = drop /\ q.scope = w /\ q.snap = r.snap
    <2> HIDE DEF slots, drop
    <2> QED BY <1>1, <1>2 DEF Process
  <1>4. /\ q.phase \in {"storing", "saving"}
        /\ q.phase # "storing" => q.todo = {}
    BY <1>3 DEF BeforeSave
  <1> HIDE DEF q
  <1>5. \A s \in w : \A v \in V(s) : SlotOf(s, v.n) \in slots
    BY DEF SlotOf
  <1>6. \A a \in drop : \E s \in w : \E v \in V(s) : a = v.account
    OBVIOUS
  <1>7. Reseals(q)
    <2>1. \A a \in q.drop : \E s \in w : \E v \in r.snap.secrets[s] :
            a = v.account /\ SlotOf(s, v.n) \in q.todo
      <3> SUFFICES ASSUME NEW a \in drop
                   PROVE  \E s \in w : \E v \in r.snap.secrets[s] :
                            a = v.account /\ SlotOf(s, v.n) \in slots
        BY <1>3
      <3>1. PICK s \in w : \E v \in V(s) : a = v.account
        BY <1>6
      <3>2. PICK v \in V(s) : a = v.account
        BY <3>1
      <3>3. v \in r.snap.secrets[s] /\ SlotOf(s, v.n) \in slots
        BY <1>5
      <3> QED BY <3>2, <3>3
    <2>2. \A s \in w : \A v \in r.snap.secrets[s] : v.bound \/ SlotOf(s, v.n) \in q.todo
      BY <1>3, <1>5
    <2> QED BY <1>1, <1>3, <2>1, <2>2 DEF Reseals
  <1>8. Fits(q) /\ Deleted(q, disk, keystore, leaked)
    BY <1>3, <1>4, <1>7 DEF Fits, Deleted
  <1> HIDE DEF slots, drop
  <1> QED BY <1>1, <1>3, <1>4, <1>8, PlainPlan

LEMMA PlanRemoveKeys ==
  ASSUME KInv, IInv', NEW p \in Proc, NEW s \in Secret, PlanRemove(p, s)
  PROVE  KInv'
  <1> DEFINE r == proc[p]
             drop == Sealing(r.snap, {s})
             q == [r EXCEPT !.phase = "saving", !.scope = {s}, !.drop = drop]
  <1>1. /\ Proceed(p, "rm", 0, q) /\ r.phase = "planning" /\ r.cmd = "rm"
        /\ r.snap.secrets[s] # {}
    BY DEF PlanRemove, Proceed
  <1>2. r \in Process /\ r.todo = {} /\ r.new = {} /\ r.made = {}
    BY <1>1, Planning
  <1>3. /\ q.phase = "saving" /\ q.cmd = "rm" /\ q.todo = {} /\ q.new = {} /\ q.made = {}
        /\ q.drop = drop /\ q.scope = {s} /\ q.snap = r.snap
    <2> HIDE DEF drop
    <2> QED BY <1>1, <1>2 DEF Process
  <1> HIDE DEF q
  <1>4. Fits(q) /\ Deleted(q, disk, keystore, leaked)
    BY <1>1, <1>3 DEF Fits, Deleted, Removes
  <1> QED BY <1>1, <1>3, <1>4, PlainPlan

LEMMA PlanRevokeKeys ==
  ASSUME KInv, IInv', NEW p \in Proc, NEW d \in Account, PlanRevoke(p, d)
  PROVE  KInv'
  <1> DEFINE r == proc[p]
             drop == RevokedAccounts(r.snap, d)
             q == [r EXCEPT !.phase = "clearing", !.fresh = d, !.drop = drop]
  <1>1. /\ Proceed(p, "revoke", 0, q) /\ r.phase = "planning" /\ r.cmd = "revoke"
        /\ d \in Devices(r.snap)
        /\ r.snap.trusted = {d} => \A s \in Secret : ActiveVersions(r.snap, s) = {}
    BY DEF PlanRevoke, Proceed
  <1>2. r \in Process /\ r.todo = {} /\ r.new = {} /\ r.made = {}
    BY <1>1, Planning
  <1>3. /\ q.phase = "clearing" /\ q.cmd = "revoke" /\ q.todo = {} /\ q.new = {} /\ q.made = {}
        /\ q.drop = drop /\ q.fresh = d /\ q.snap = r.snap
    <2> HIDE DEF drop
    <2> QED BY <1>1, <1>2 DEF Process
  <1> HIDE DEF q
  <1>4. Fits(q) /\ Deleted(q, disk, keystore, leaked)
    BY <1>1, <1>3 DEF Fits, Deleted, Revokes
  <1> QED BY <1>1, <1>3, <1>4, PlainPlan

LEMMA PlanWipeKeys ==
  ASSUME KInv, IInv', NEW p \in Proc, PlanWipe(p)
  PROVE  KInv'
  <1> DEFINE r == proc[p]
             drop == Referenced(r.snap)
             q == [r EXCEPT !.phase = "wiping", !.drop = drop]
  <1>1. Proceed(p, "wipe", 0, q) /\ r.phase = "planning" /\ r.cmd = "wipe"
    BY DEF PlanWipe, Proceed
  <1>2. r \in Process /\ r.made = {} /\ r.snap = disk
    BY <1>1, Planning DEF Lifecycle
  <1>3. q.phase = "wiping" /\ q.made = {} /\ q.drop = drop
    <2> HIDE DEF drop
    <2> QED BY <1>1, <1>2 DEF Process
  <1>4. q \in Process
    <2>1. proc'[p] = q /\ proc'[p] \in Process
      BY <1>1 DEF Proceed, KInv, IInv, TypeOK
    <2> QED BY <2>1
  <1> HIDE DEF q
  <1>5. InMemory(q) /\ InStores(q, disk, keystore, cleared, leaked, drawn + 0)
    BY <1>2, <1>3 DEF InMemory, InStores, Works, Deletes
  <1> QED BY <1>1, <1>4, <1>5, PlanKeys

LEMMA PlanAuditKeys ==
  ASSUME KInv, IInv', NEW p \in Proc, PlanAudit(p)
  PROVE  KInv'
  <1> DEFINE r == proc[p]
             q == [r EXCEPT !.phase = "saving"]
  <1>1. Proceed(p, "audit", 0, q) /\ r.phase = "planning" /\ r.cmd = "audit"
    BY DEF PlanAudit, Proceed
  <1>2. r \in Process /\ r.todo = {} /\ r.new = {} /\ r.made = {} /\ r.drop = {}
    BY <1>1, Planning
  <1>3. /\ q.phase = "saving" /\ q.cmd = "audit" /\ q.todo = {} /\ q.new = {} /\ q.made = {}
        /\ q.drop = {}
    BY <1>1, <1>2 DEF Process
  <1> HIDE DEF q
  <1>4. Fits(q) /\ Deleted(q, disk, keystore, leaked)
    BY <1>3 DEF Fits, Deleted
  <1> QED BY <1>1, <1>3, <1>4, PlainPlan

LEMMA PlanKeepsKeys ==
  ASSUME KInv, IInv', NEW p \in Proc, Plan(p)
  PROVE  KInv'
  BY PlanInitKeys, PlanEnrollKeys, PlanAddKeys, PlanRekeyKeys, PlanResealKeys,
     PlanRemoveKeys, PlanRevokeKeys, PlanWipeKeys, PlanAuditKeys DEF Plan

-----------------------------------------------------------------------------
(* Storing keys, and the check of the snapshot.                            *)

\* A command that goes on with the same plan.
LEMMA FitsCarries ==
  ASSUME NEW r, NEW q, Fits(r),
         q.cmd = r.cmd, q.snap = r.snap, q.scope = r.scope, q.fresh = r.fresh,
         q.drop = r.drop \/ q.cmd = "revoke",
         q.cmd = "revoke" /\ q.phase # "clearing" => q.drop = {},
         q.phase = "clearing" => r.phase = "clearing",
         q.todo \cup Slots(q) = r.todo \cup Slots(r),
         q.cmd \notin {"add", "rekey", "bind", "rename"} => q.todo = {} /\ q.new = {}
  PROVE  Fits(q)
  <1>1. q.cmd \in {"add", "rekey"} => Renews(q)
    BY DEF Fits, Renews
  <1>2. q.cmd \in {"bind", "rename"} => Reseals(q)
    BY DEF Fits, Reseals
  <1>3. q.cmd = "rm" => Removes(q)
    BY DEF Fits, Removes
  <1>4. q.cmd = "revoke" => Revokes(q)
    BY DEF Fits, Revokes
  <1> QED BY <1>1, <1>2, <1>3, <1>4 DEF Fits

\* A running lifecycle command holds the lock and has what is on disk.
LEMMA Working ==
  ASSUME KInv, NEW p \in Proc, Works(proc[p]), NeedsLock(proc[p])
  PROVE  /\ proc[p] \in Process
         /\ lock = p /\ proc[p].snap = disk
         /\ KeysMade(proc[p]) /\ Fits(proc[p])
         /\ Stored(proc[p], keystore, drawn)
         /\ Keyed(proc[p], disk, keystore, cleared)
         /\ Deleted(proc[p], disk, keystore, leaked)
         /\ PlannedAt(proc[p], drawn)
         /\ drawn \in Nat
  BY OfOneKeys DEF Works, Prepares, InMemory, InStores

LEMMA StoreDeviceKeepsKeys ==
  ASSUME KInv, IInv', NEW p \in Proc, StoreDeviceKey(p)
  PROVE  KInv'
  <1> DEFINE r == proc[p]
             q == [r EXCEPT !.phase = "saving", !.made = {r.fresh}]
  <1>1. /\ r.phase = "storing" /\ r.cmd \in {"enroll", "settle"}
        /\ proc' = [proc EXCEPT ![p] = q] /\ keystore' = keystore \cup {r.fresh}
        /\ UNCHANGED <<disk, lock, drawn, cleared, leaked>>
    BY DEF StoreDeviceKey
  <1>2. Works(r) /\ NeedsLock(r)
    BY <1>1 DEF Works, NeedsLock, Lifecycle
  <1>3. /\ r \in Process /\ lock = p /\ KeysMade(r) /\ Fits(r)
        /\ Stored(r, keystore, drawn)
    BY <1>2, Working
  <1>4. /\ q.phase = "saving" /\ q.made = {r.fresh} /\ q.cmd = r.cmd /\ q.snap = r.snap
        /\ q.scope = r.scope /\ q.fresh = r.fresh /\ q.drop = r.drop /\ q.todo = r.todo
        /\ q.new = r.new
    BY <1>3 DEF Process
  <1> HIDE DEF q
  <1>5. r.todo = {} /\ r.new = {}
    BY <1>1, <1>3 DEF Fits
  <1>6. Fits(q)
    BY <1>1, <1>3, <1>4, FitsCarries DEF Fits, Slots
  <1>7. KeysMade(q)
    BY <1>1, <1>3, <1>4, <1>5 DEF KeysMade, Own, Slots
  <1>8. InMemory(q)
    BY <1>4, <1>6, <1>7 DEF InMemory, Works
  <1>9. Stored(q, keystore', drawn)
    BY <1>1, <1>3, <1>4 DEF Stored, Accounts
  <1>10. InStores(q, disk, keystore', cleared, leaked, drawn)
    BY <1>1, <1>4, <1>9 DEF InStores, Keyed, Deleted, Deletes
  <1>11. r.made \subseteq {r.fresh}
    BY <1>1, <1>3 DEF KeysMade, Own
  <1>12. Held(r) \subseteq Held(q) /\ r.fresh \in Held(q)
    BY <1>1, <1>4, <1>11 DEF Held
  <1>13. keystore' \subseteq Referenced(disk) \cup leaked \cup Held(q) \cup Others(p)
    BY <1>1, <1>12, KeysAreKnown
  <1>14. Needed(disk) \subseteq keystore' \cup cleared
    BY <1>1, OfOneKeys
  <1> QED BY <1>1, <1>3, <1>8, <1>10, <1>13, <1>14, OfOneKeys, LockedKeys

LEMMA StoreDataKeepsKeys ==
  ASSUME KInv, IInv', NEW p \in Proc, StoreDataKey(p)
  PROVE  KInv'
  <1> DEFINE r == proc[p]
             a == drawn + 1
  <1>1. PICK slot \in r.todo :
          /\ r.phase = "storing"
          /\ a \in Account
          /\ drawn' = a
          /\ keystore' = keystore \cup {a}
          /\ proc' = [proc EXCEPT
               ![p].phase = BeforeSave(r.todo \ {slot}),
               ![p].todo = @ \ {slot},
               ![p].new = @ \cup {[secret |-> slot.secret, n |-> slot.n, account |-> a]},
               ![p].made = @ \cup {a}]
          /\ UNCHANGED <<disk, lock, clock, started, cleared, leaked>>
    BY DEF StoreDataKey
  <1> DEFINE phase == BeforeSave(r.todo \ {slot})
             todo == r.todo \ {slot}
             key == [secret |-> slot.secret, n |-> slot.n, account |-> a]
             new == r.new \cup {key}
             made == r.made \cup {a}
             q == [r EXCEPT !.phase = phase, !.todo = todo, !.new = new, !.made = made]
  <1>2. proc' = [proc EXCEPT ![p] = q]
    BY <1>1
  <1>3. PlannedAt(r, drawn) /\ InMemory(r) /\ r \in Process
    BY OfOneKeys
  <1>4. Lifecycle(r.cmd) /\ r.cmd # "init" /\ Works(r) /\ Fits(r)
    BY <1>1, <1>3 DEF PlannedAt, Lifecycle, InMemory, Works
  <1>5. NeedsLock(r)
    BY <1>1, <1>4 DEF NeedsLock
  <1>6. /\ lock = p /\ r.snap = disk /\ KeysMade(r)
        /\ Stored(r, keystore, drawn) /\ drawn \in Nat
    BY <1>4, <1>5, Working
  <1>7. r.cmd \in {"add", "rekey", "bind", "rename"}
    BY <1>1, <1>4 DEF Fits
  <1>8. slot \in Slot /\ slot = SlotOf(slot.secret, slot.n)
    BY <1>3 DEF Process, Slot, SlotOf
  <1>9. phase \in {"storing", "saving"} /\ (phase # "storing" => todo = {})
    BY DEF BeforeSave
  <1>10. key.account = a /\ SlotOf(key.secret, key.n) = slot
    BY <1>8
  <1> HIDE DEF phase, todo, key, new, made
  <1>11. /\ q.phase = phase /\ q.todo = todo /\ q.new = new /\ q.made = made
         /\ q.cmd = r.cmd /\ q.snap = r.snap /\ q.scope = r.scope /\ q.fresh = r.fresh
         /\ q.drop = r.drop
    BY <1>3 DEF Process
  <1> HIDE DEF q
  <1>12. Slots(q) = Slots(r) \cup {slot} /\ Accounts(q) = Accounts(r) \cup {a}
    <2>1. Slots(q) = {SlotOf(k.secret, k.n) : k \in r.new} \cup {SlotOf(key.secret, key.n)}
      BY <1>11 DEF new, Slots
    <2>2. Accounts(q) = {k.account : k \in r.new} \cup {key.account}
      BY <1>11 DEF new, Accounts
    <2> QED BY <1>10, <2>1, <2>2 DEF Slots, Accounts
  <1>13. Fits(q)
    <2>1. q.todo \cup Slots(q) = r.todo \cup Slots(r)
      BY <1>11, <1>12 DEF todo
    <2> QED BY <1>4, <1>7, <1>9, <1>11, <2>1, FitsCarries
  <1>14. KeysMade(q)
    <2>1. \A k \in r.new : k.account # a
      BY <1>6 DEF Stored, Accounts
    <2>2. \A k \in r.new : ~(k.secret = key.secret /\ k.n = key.n)
      <3> SUFFICES ASSUME NEW k \in r.new, k.secret = key.secret, k.n = key.n PROVE FALSE
        OBVIOUS
      <3>1. SlotOf(k.secret, k.n) = slot /\ SlotOf(k.secret, k.n) \in Slots(r)
        BY <1>10 DEF Slots
      <3> QED BY <3>1, <1>6 DEF KeysMade
    <2>3. \A j, k \in q.new :
            j.account = k.account \/ (j.secret = k.secret /\ j.n = k.n) => j = k
      <3>1. \A j, k \in r.new :
              j.account = k.account \/ (j.secret = k.secret /\ j.n = k.n) => j = k
        BY <1>6 DEF KeysMade
      <3>2. \A j \in r.new :
              /\ ~(j.account = key.account \/ (j.secret = key.secret /\ j.n = key.n))
              /\ ~(key.account = j.account \/ (key.secret = j.secret /\ key.n = j.n))
        BY <2>1, <2>2, <1>10
      <3> QED BY <3>1, <3>2, <1>11 DEF new
    <2>4. q.todo \cap Slots(q) = {}
      BY <1>6, <1>11, <1>12 DEF KeysMade, todo
    <2>5. Own(q) = Accounts(q) /\ Own(r) = Accounts(r)
      BY <1>7, <1>11 DEF Own
    <2>6. a \notin InUse(disk)
      BY <1>6, OfOneKeys, BeyondUse
    <2>7. Own(q) \cap InUse(q.snap) = {}
      BY <1>6, <1>11, <1>12, <2>5, <2>6 DEF KeysMade
    <2>8. q.made \subseteq Own(q)
      <3>1. r.made \subseteq Own(r)
        BY <1>1, <1>6 DEF KeysMade
      <3> QED BY <3>1, <1>11, <1>12, <2>5 DEF made
    <2> QED BY <1>7, <1>9, <1>11, <2>3, <2>4, <2>7, <2>8 DEF KeysMade
  <1>15. InMemory(q)
    BY <1>9, <1>11, <1>13, <1>14 DEF InMemory, Works
  <1>16. Stored(q, keystore', drawn')
    <2>1. \A b \in Accounts(r) : b \in Nat
      BY <1>3 DEF Process, NewKey, Account, Accounts
    <2>2. \A b \in Accounts(q) : b <= drawn'
      BY <1>1, <1>6, <1>12, <2>1 DEF Stored
    <2>3. Accounts(q) \subseteq keystore'
      BY <1>1, <1>6, <1>7, <1>12 DEF Stored
    <2> QED BY <1>7, <1>11, <2>2, <2>3 DEF Stored
  <1>17. InStores(q, disk, keystore', cleared, leaked, drawn')
    BY <1>7, <1>9, <1>11, <1>16 DEF InStores, Keyed, Deleted, Deletes
  <1>18. Held(r) \subseteq Held(q) /\ a \in Held(q)
    BY <1>1, <1>9, <1>11 DEF Held, made
  <1>19. keystore' \subseteq Referenced(disk) \cup leaked \cup Held(q) \cup Others(p)
    BY <1>1, <1>18, KeysAreKnown
  <1>20. Needed(disk) \subseteq keystore' \cup cleared
    BY <1>1, OfOneKeys
  <1>21. FileSound(disk, drawn')
    BY <1>1, <1>6, OfOneKeys, SoundLater
  <1> QED BY <1>1, <1>2, <1>6, <1>15, <1>17, <1>19, <1>20, <1>21, LockedKeys

LEMMA ClearKeepsKeys ==
  ASSUME KInv, IInv', NEW p \in Proc, Clear(p)
  PROVE  KInv'
  <1> DEFINE r == proc[p]
  <1>1. r.phase = "clearing" /\ UNCHANGED <<disk, lock, drawn>>
    BY DEF Clear
  <1>2. InMemory(r) /\ r \in Process
    BY OfOneKeys
  <1>3. Fits(r) /\ Works(r) /\ r.cmd = "revoke" /\ NeedsLock(r)
    BY <1>1, <1>2 DEF InMemory, Works, Fits, NeedsLock, Lifecycle
  <1>4. /\ lock = p /\ r.snap = disk /\ KeysMade(r)
        /\ Stored(r, keystore, drawn) /\ Deleted(r, disk, keystore, leaked)
    BY <1>3, Working
  <1>5. r.todo = {} /\ r.new = {} /\ Own(r) = {} /\ r.made = {}
    BY <1>1, <1>3, <1>4 DEF KeysMade, Fits, Own, Accounts
  <1>6. Held(r) = {}
    BY <1>1, <1>5 DEF Held
  \* Whatever p becomes, short of a save.
  <1>7. ASSUME NEW q, q.phase \in {"clearing", "saving"}, q.made = {}, q.cmd = r.cmd,
               q.snap = r.snap, q.scope = r.scope, q.fresh = r.fresh, q.todo = r.todo,
               q.new = r.new, q.phase # "clearing" => q.drop = {},
               Deleted(q, disk, keystore', leaked')
        PROVE  InMemory(q) /\ InStores(q, disk, keystore', cleared', leaked', drawn)
    <2>1. Fits(q)
      BY <1>1, <1>3, <1>5, <1>7, FitsCarries DEF Slots
    <2>2. KeysMade(q)
      BY <1>5, <1>7 DEF KeysMade, Own, Accounts, Slots
    <2>3. Stored(q, keystore', drawn)
      BY <1>3, <1>5, <1>7 DEF Stored, Accounts
    <2> QED BY <1>7, <2>1, <2>2, <2>3 DEF InMemory, InStores, Works, Keyed, Deletes
  <1>8. CASE r.drop = {}
    <2> DEFINE q == [r EXCEPT !.phase = "saving"]
    <2>1. proc' = [proc EXCEPT ![p] = q] /\ UNCHANGED <<keystore, cleared, leaked>>
      BY <1>8 DEF Clear, Goto
    <2>2. /\ q.phase = "saving" /\ q.made = r.made /\ q.cmd = r.cmd /\ q.snap = r.snap
          /\ q.scope = r.scope /\ q.fresh = r.fresh /\ q.drop = r.drop /\ q.todo = r.todo
          /\ q.new = r.new
      BY <1>2 DEF Process
    <2> HIDE DEF q
    <2>3. Deleted(q, disk, keystore', leaked')
      BY <1>4, <2>1, <2>2 DEF Deleted
    <2>4. InMemory(q) /\ InStores(q, disk, keystore, cleared, leaked', drawn)
      BY <1>5, <1>7, <1>8, <2>1, <2>2, <2>3
    <2> QED BY <1>1, <1>6, <2>1, <2>4, QuietKeys
  <1>9. CASE r.drop # {}
    <2>1. PICK a \in r.drop : /\ Forget(a)
                              /\ cleared' = cleared \cup {a}
                              /\ proc' = [proc EXCEPT ![p].drop = @ \ {a}]
      BY <1>9 DEF Clear
    <2> DEFINE drop == r.drop \ {a}
               q == [r EXCEPT !.drop = drop]
    <2>2. proc' = [proc EXCEPT ![p] = q]
      BY <2>1
    <2> HIDE DEF drop
    <2>3. /\ q.phase = "clearing" /\ q.made = r.made /\ q.cmd = r.cmd /\ q.snap = r.snap
          /\ q.scope = r.scope /\ q.fresh = r.fresh /\ q.drop = drop /\ q.todo = r.todo
          /\ q.new = r.new
      BY <1>1, <1>2 DEF Process
    <2> HIDE DEF q
    <2>4. /\ keystore' \subseteq keystore /\ keystore \ {a} \subseteq keystore'
          /\ leaked \subseteq leaked'
          /\ a \in keystore' => a \in leaked'
      BY <2>1 DEF Forget
    <2>5. Deleted(q, disk, keystore', leaked')
      BY <1>4, <2>3, <2>4 DEF Deleted, drop
    <2>6. InMemory(q) /\ InStores(q, disk, keystore', cleared', leaked', drawn)
      BY <1>5, <1>7, <2>3, <2>5
    <2>7. Needed(disk) \subseteq keystore' \cup cleared'
      BY <2>1, <2>4, OfOneKeys
    <2>8. keystore' \subseteq Referenced(disk) \cup leaked' \cup Held(q) \cup Others(p)
      BY <1>6, <2>4, KeysAreKnown
    <2> QED BY <1>1, <1>4, <2>2, <2>6, <2>7, <2>8, OfOneKeys, LockedKeys
  <1> QED BY <1>8, <1>9

LEMMA CheckKeepsKeys ==
  ASSUME KInv, IInv', NEW p \in Proc, CheckSnapshot(p)
  PROVE  KInv'
  <1> DEFINE r == proc[p]
             q == [r EXCEPT !.phase = "keying"]
  <1>1. /\ r.phase = "saving" /\ proc' = [proc EXCEPT ![p] = q]
        /\ UNCHANGED <<disk, keystore, drawn, cleared, leaked>>
    BY DEF CheckSnapshot, Goto
  <1>2. InMemory(r) /\ r \in Process /\ PlannedAt(r, drawn)
    BY OfOneKeys
  <1>3. KeysMade(r) /\ Fits(r)
    BY <1>1, <1>2 DEF InMemory, Works
  <1>4. /\ q.phase = "keying" /\ q.made = r.made /\ q.cmd = r.cmd /\ q.snap = r.snap
        /\ q.scope = r.scope /\ q.fresh = r.fresh /\ q.drop = r.drop /\ q.todo = r.todo
        /\ q.new = r.new
    BY <1>2 DEF Process
  <1> HIDE DEF q
  <1>5. Fits(q)
    <2>1. q.cmd = "revoke" => q.drop = {}
      BY <1>1, <1>3, <1>4 DEF Fits, Revokes
    <2>2. q.cmd \notin {"add", "rekey", "bind", "rename"} => q.todo = {} /\ q.new = {}
      BY <1>3, <1>4 DEF Fits
    <2>3. q.todo \cup Slots(q) = r.todo \cup Slots(r)
      BY <1>4 DEF Slots
    <2> QED BY <1>3, <1>4, <2>1, <2>2, <2>3, FitsCarries
  <1>6. KeysMade(q)
    BY <1>1, <1>3, <1>4 DEF KeysMade, Own, Accounts, Slots
  <1>7. InMemory(q)
    BY <1>4, <1>5, <1>6 DEF InMemory, Works
  <1>8. InStores(q, disk, keystore, cleared, leaked, drawn)
    <2>1. CASE NeedsLock(r)
      <3>1. Stored(r, keystore, drawn) /\ Deleted(r, disk, keystore, leaked)
        BY <1>1, <2>1, Working DEF Works
      <3>2. Stored(q, keystore, drawn)
        BY <1>1, <1>4, <3>1 DEF Stored, Accounts
      <3>3. Deleted(q, disk, keystore, leaked)
        BY <1>4, <3>1 DEF Deleted
      <3> QED BY <1>4, <3>2, <3>3 DEF InStores, Keyed, Deletes
    <2>2. CASE ~NeedsLock(r)
      <3>1. r.cmd \in {"audit", "none"} /\ r.new = {}
        BY <1>1, <1>3, <2>2 DEF NeedsLock, Lifecycle, Fits
      <3> QED BY <1>4, <3>1 DEF InStores, Keyed, Deletes, Stored, Deleted, Accounts
    <2> QED BY <2>1, <2>2
  <1>9. Held(r) = Held(q)
    BY <1>1, <1>4 DEF Held
  <1>10. Held(r) \cap keystore \subseteq Referenced(disk) \cup leaked' \cup Held(q)
    BY <1>9
  <1> QED BY <1>1, <1>7, <1>8, <1>10, QuietKeys

LEMMA KeyLedgerKeepsKeys ==
  ASSUME KInv, IInv', NEW p \in Proc, KeyLedger(p)
  PROVE  KInv'
  <1> DEFINE r == proc[p]
             a == LedgerAccount(r)
             made == r.made \cup ({a} \ keystore)
             q == [r EXCEPT !.phase = "writing", !.made = made]
  <1>1. /\ r.phase = "keying" /\ keystore' = keystore \cup {a}
        /\ proc' = [proc EXCEPT ![p] = q]
        /\ UNCHANGED <<disk, lock, drawn, cleared, leaked>>
    BY DEF KeyLedger
  <1>2. Works(r) /\ NeedsLock(r)
    BY <1>1 DEF Works, NeedsLock
  <1>3. /\ r \in Process /\ lock = p /\ r.snap = disk /\ KeysMade(r) /\ Fits(r)
        /\ Stored(r, keystore, drawn) /\ Deleted(r, disk, keystore, leaked)
        /\ PlannedAt(r, drawn)
    BY <1>2, Working
  <1> HIDE DEF made
  <1>4. /\ q.phase = "writing" /\ q.made = made /\ q.cmd = r.cmd /\ q.snap = r.snap
        /\ q.scope = r.scope /\ q.fresh = r.fresh /\ q.drop = r.drop /\ q.todo = r.todo
        /\ q.new = r.new
    BY <1>3 DEF Process
  <1> HIDE DEF q
  <1>5. LedgerAccount(q) = a /\ Own(q) = Own(r) /\ Accounts(q) = Accounts(r)
    BY <1>4 DEF LedgerAccount, Own, Accounts
  <1>6. Fits(q)
    <2>1. q.cmd = "revoke" => q.drop = {}
      BY <1>1, <1>3, <1>4 DEF Fits, Revokes
    <2>2. q.cmd \notin {"add", "rekey", "bind", "rename"} => q.todo = {} /\ q.new = {}
      BY <1>3, <1>4 DEF Fits
    <2>3. q.todo \cup Slots(q) = r.todo \cup Slots(r)
      BY <1>4 DEF Slots
    <2> QED BY <1>3, <1>4, <2>1, <2>2, <2>3, FitsCarries
  <1>7. KeysMade(q)
    <2>1. q.made \subseteq Own(q) \cup {LedgerAccount(q)}
      <3>1. r.made \subseteq Own(r)
        BY <1>1, <1>3 DEF KeysMade
      <3> QED BY <1>4, <1>5, <3>1 DEF made
    <2>2. /\ \A j, k \in q.new :
               j.account = k.account \/ (j.secret = k.secret /\ j.n = k.n) => j = k
          /\ q.todo \cap Slots(q) = {}
          /\ q.todo = {}
          /\ Own(q) \cap InUse(q.snap) = {}
      BY <1>1, <1>3, <1>4, <1>5 DEF KeysMade, Slots
    <2> QED BY <1>4, <2>1, <2>2 DEF KeysMade
  <1>8. InMemory(q)
    BY <1>4, <1>6, <1>7 DEF InMemory, Works
  <1>9. Stored(q, keystore', drawn)
    <2>1. keystore \subseteq keystore'
      BY <1>1
    <2> QED BY <1>1, <1>3, <1>4, <1>5, <2>1 DEF Stored
  \* A ledger key that is missing has been cleared, or is a new vault's.
  <1>10. Keyed(q, disk, keystore', cleared)
    <2>1. r.made \subseteq Own(r)
      BY <1>1, <1>3 DEF KeysMade
    <2>2. a \in q.made => a \notin keystore \/ a \in Own(r)
      BY <1>4, <2>1 DEF made
    <2>3. Own(r) \cap Needed(disk) = {}
      BY <1>3, OfOneKeys, UseTypes DEF KeysMade
    <2>4. a \in q.made => a \in cleared \/ a \notin Needed(disk)
      BY <2>2, <2>3, OfOneKeys
    <2> QED BY <1>1, <1>5, <2>4 DEF Keyed
  <1>11. a \in Account /\ (r.cmd # "init" => a = disk.ledger)
    <2>1. /\ r.cmd = "init" => r.fresh \in Account
          /\ r.cmd # "init" => disk.ledger # None
      BY <1>1, <1>3 DEF PlannedAt, Initialized
    <2> QED BY <1>3, <2>1, OfOneKeys DEF LedgerAccount, StateFile
  <1>12. Deleted(q, disk, keystore', leaked)
    <2>1. r.cmd = "revoke" => a = disk.ledger
      BY <1>11
    <2> QED BY <1>1, <1>3, <1>4, <2>1 DEF Deleted
  <1>13. InStores(q, disk, keystore', cleared, leaked, drawn)
    BY <1>4, <1>9, <1>10, <1>12 DEF InStores, Deletes
  <1>14. Held(r) \subseteq Held(q) /\ (a \in keystore \/ a \in Held(q))
    BY <1>1, <1>4 DEF Held, made
  <1>15. keystore' \subseteq Referenced(disk) \cup leaked \cup Held(q) \cup Others(p)
    BY <1>1, <1>14, KeysAreKnown
  <1>16. Needed(disk) \subseteq keystore' \cup cleared
    BY <1>1, OfOneKeys
  <1> QED BY <1>1, <1>3, <1>8, <1>13, <1>15, <1>16, OfOneKeys, LockedKeys

-----------------------------------------------------------------------------
(* Failing.                                                                *)

\* What a command becomes.
LEMMA AfterFailureFields ==
  ASSUME NEW r \in Process
  PROVE  LET q == AfterFailure(r) IN
         /\ q.cmd = r.cmd
         /\ r.cmd = "settle" =>
              q.phase = "aborting" /\ q.made = {} /\ q.drop = r.made \cup Referenced(r.snap)
         /\ r.cmd \in {"add", "rekey", "bind", "rename"} =>
              q.phase = "undoing" /\ q.made = r.made /\ q.drop = {}
         /\ r.cmd \notin {"settle", "add", "rekey", "bind", "rename"} =>
              q.phase = "closing" /\ q.made = {}
  <1> DEFINE q == AfterFailure(r)
             drop == r.made \cup Referenced(r.snap)
  <1>1. CASE r.cmd = "settle"
    <2>1. q = [r EXCEPT !.phase = "aborting", !.made = {}, !.drop = drop]
      BY <1>1 DEF AfterFailure
    <2> HIDE DEF q, drop
    <2>2. q.cmd = r.cmd /\ q.phase = "aborting" /\ q.made = {} /\ q.drop = drop
      BY <2>1 DEF Process
    <2> QED BY <1>1, <2>2 DEF q, drop
  <1>2. CASE r.cmd \in {"add", "rekey", "bind", "rename"}
    <2>1. q = [r EXCEPT !.phase = "undoing", !.drop = {}]
      BY <1>2 DEF AfterFailure
    <2> HIDE DEF q
    <2>2. q.cmd = r.cmd /\ q.phase = "undoing" /\ q.made = r.made /\ q.drop = {}
      BY <2>1 DEF Process
    <2> QED BY <1>2, <2>2 DEF q
  <1>3. CASE r.cmd \notin {"settle", "add", "rekey", "bind", "rename"}
    <2>1. q = [r EXCEPT !.phase = "closing", !.made = {}, !.drop = {}]
      BY <1>3 DEF AfterFailure
    <2> HIDE DEF q
    <2>2. q.cmd = r.cmd /\ q.phase = "closing" /\ q.made = {}
      BY <2>1 DEF Process
    <2> QED BY <1>3, <2>2 DEF q
  <1> QED BY <1>1, <1>2, <1>3

\* The keys it has made, but one for the ledger, are kept, to be taken back;
\* or they are left, or were none.
LEMMA FailKeepsKeys ==
  ASSUME KInv, IInv', NEW p \in Proc, NEW kept, Works(proc[p]),
         proc' = [proc EXCEPT ![p] = AfterFailure([proc[p] EXCEPT !.made = kept])],
         UNCHANGED <<disk, drawn, cleared>>, leaked \subseteq leaked',
         kept \subseteq proc[p].made, kept \subseteq Own(proc[p]),
         proc[p].made \subseteq kept \cup {LedgerAccount(proc[p])},
         proc[p].cmd = "enroll" => kept \subseteq leaked',
         proc[p].cmd = "init" => LedgerAccount(proc[p]) \notin proc[p].made \cap keystore',
         \/ keystore' = keystore
         \/ /\ proc[p].phase = "writing" /\ keystore' = keystore \ {LedgerAccount(proc[p])}
            /\ LedgerAccount(proc[p]) \in proc[p].made
  PROVE  KInv'
  <1> DEFINE r == proc[p]
             a == LedgerAccount(r)
             s == [r EXCEPT !.made = kept]
             q == AfterFailure(s)
  <1>1. r \in Process /\ InMemory(r) /\ PlannedAt(r, drawn)
    BY OfOneKeys
  <1>2. KeysMade(r) /\ Fits(r)
    BY <1>1 DEF InMemory
  <1>3. s \in Process /\ s.cmd = r.cmd /\ s.made = kept /\ s.snap = r.snap
    <2>1. kept \in SUBSET Account
      BY <1>1 DEF Process
    <2> QED BY <1>1, <2>1 DEF Process
  <1> HIDE DEF s
  <1>4. /\ q.cmd = r.cmd
        /\ r.cmd = "settle" =>
             q.phase = "aborting" /\ q.made = {} /\ q.drop = kept \cup Referenced(r.snap)
        /\ r.cmd \in {"add", "rekey", "bind", "rename"} =>
             q.phase = "undoing" /\ q.made = kept /\ q.drop = {}
        /\ r.cmd \notin {"settle", "add", "rekey", "bind", "rename"} =>
             q.phase = "closing" /\ q.made = {}
    BY <1>3, AfterFailureFields
  <1>5. proc' = [proc EXCEPT ![p] = q]
    BY DEF s
  <1> HIDE DEF q
  <1>6. q.phase \in {"aborting", "undoing", "closing"} /\ ~Works(q)
    BY <1>4 DEF Works
  <1>7. InMemory(q)
    BY <1>4, <1>6 DEF InMemory, Lifecycle
  <1>8. r.cmd \notin {"init", "audit", "none"} => NeedsLock(r)
    BY DEF Works, NeedsLock, Lifecycle
  <1>9. NeedsLock(r) => lock = p /\ r.snap = disk
    BY Working
  <1>10. InStores(q, disk, keystore', cleared, leaked', drawn)
    <2>1. CASE r.cmd = "settle"
      <3>1. q.drop = kept \cup Referenced(disk)
        BY <1>4, <1>8, <1>9, <2>1
      <3> QED BY <1>4, <2>1, <3>1 DEF InStores, Works, Deletes
    <2>2. CASE r.cmd \in {"add", "rekey", "bind", "rename"}
      <3>1. r.snap = disk /\ disk \in StateFile
        BY <1>8, <1>9, <2>2, OfOneKeys
      <3>2. kept \cap Needed(disk) = {}
        BY <1>2, <3>1, UseTypes DEF KeysMade
      <3> QED BY <1>4, <2>2, <3>2 DEF InStores, Works, Deletes
    <2>3. CASE r.cmd \notin {"settle", "add", "rekey", "bind", "rename"}
      BY <1>4, <2>3 DEF InStores, Works, Deletes
    <2> QED BY <2>1, <2>2, <2>3
  <1>11. r.cmd # "init" => a \in Referenced(disk) \/ ~NeedsLock(r)
    <2> SUFFICES ASSUME r.cmd # "init", NeedsLock(r) PROVE a \in Referenced(disk)
      OBVIOUS
    <2>1. a = disk.ledger /\ disk.ledger # None
      BY <1>1, <1>9 DEF PlannedAt, Works, Initialized, LedgerAccount
    <2> QED BY <2>1 DEF Referenced
  <1>12. Held(r) \cap keystore' \subseteq Referenced(disk) \cup leaked' \cup Held(q)
    <2>1. Held(r) = r.made
      BY DEF Works, Held
    <2>2. CASE r.cmd \in {"settle", "add", "rekey", "bind", "rename"}
      <3>1. kept \subseteq Held(q)
        BY <1>4, <2>2 DEF Held
      <3>2. a \in Referenced(disk)
        BY <1>8, <1>11, <2>2
      <3> QED BY <2>1, <3>1, <3>2
    <2>3. CASE r.cmd = "enroll"
      <3>1. a \in Referenced(disk)
        BY <1>8, <1>11, <2>3
      <3> QED BY <2>1, <2>3, <3>1
    <2>4. CASE r.cmd \notin {"settle", "add", "rekey", "bind", "rename", "enroll"}
      <3>1. r.new = {} /\ kept = {}
        BY <1>2, <2>4 DEF Fits, Own, Accounts
      <3>2. CASE r.cmd = "init"
        BY <2>1, <3>1, <3>2
      <3>3. CASE r.cmd # "init"
        <4>1. CASE NeedsLock(r)
          BY <1>11, <2>1, <3>1, <3>3, <4>1
        <4>2. CASE ~NeedsLock(r)
          <5>1. r.phase # "writing"
            BY <4>2 DEF NeedsLock
          <5>2. r.made \subseteq Own(r) /\ Own(r) = {}
            BY <1>2, <2>4, <3>1, <5>1 DEF KeysMade, Own, Accounts
          <5> QED BY <2>1, <5>2
        <4> QED BY <4>1, <4>2
      <3> QED BY <3>2, <3>3
    <2> QED BY <2>2, <2>3, <2>4
  <1>13. CASE keystore' = keystore
    BY <1>5, <1>7, <1>10, <1>12, <1>13, QuietKeys
  <1>14. CASE r.phase = "writing" /\ keystore' = keystore \ {a} /\ a \in r.made
    <2>1. NeedsLock(r)
      BY <1>14 DEF NeedsLock
    <2>2. Keyed(r, disk, keystore, cleared) /\ lock = p
      BY <2>1, Working
    <2>3. a \in cleared \/ a \notin Needed(disk)
      BY <1>14, <2>2 DEF Keyed
    <2>4. Needed(disk) \subseteq keystore' \cup cleared
      BY <1>14, <2>3, OfOneKeys
    <2>5. keystore' \subseteq Referenced(disk) \cup leaked' \cup Held(q) \cup Others(p)
      BY <1>12, <1>14, KeysAreKnown
    <2> QED BY <1>5, <1>7, <1>10, <2>2, <2>4, <2>5, OfOneKeys, LockedKeys
  <1> QED BY <1>13, <1>14

LEMMA StoreFailsKeepsKeys ==
  ASSUME KInv, IInv', NEW p \in Proc, StoreFails(p)
  PROVE  KInv'
  <1> DEFINE r == proc[p]
  <1>1. /\ r.phase = "storing" /\ proc' = [proc EXCEPT ![p] = AfterFailure(r)]
        /\ UNCHANGED <<disk, keystore, drawn, cleared, leaked>>
    BY DEF StoreFails
  <1>2. r \in Process /\ InMemory(r) /\ PlannedAt(r, drawn)
    BY OfOneKeys
  <1>3. Works(r) /\ KeysMade(r) /\ r.cmd # "init"
    BY <1>1, <1>2 DEF InMemory, Works, PlannedAt
  <1>4. r.made \subseteq Own(r) /\ (r.cmd = "enroll" => r.made = {})
    BY <1>1, <1>3 DEF KeysMade
  <1>5. [r EXCEPT !.made = r.made] = r
    BY <1>2 DEF Process
  <1> QED BY <1>1, <1>3, <1>4, <1>5, FailKeepsKeys

LEMMA SaveFailsKeepsKeys ==
  ASSUME KInv, IInv', NEW p \in Proc, SaveFails(p),
         \/ proc[p].phase \in {"saving", "keying"} /\ UNCHANGED keystore
         \/ /\ proc[p].phase = "writing"
            /\ keystore' = IF LedgerAccount(proc[p]) \in proc[p].made
                             THEN keystore \ {LedgerAccount(proc[p])} ELSE keystore
  PROVE  KInv'
  <1> DEFINE r == proc[p]
             a == LedgerAccount(r)
             kept == r.made \ {a}
  <1>1. /\ proc' = [proc EXCEPT ![p] = AfterFailure([r EXCEPT !.made = kept])]
        /\ leaked' = IF r.cmd = "enroll" THEN leaked \cup kept ELSE leaked
        /\ UNCHANGED <<disk, drawn, cleared>>
    BY DEF SaveFails
  <1>2. r \in Process /\ InMemory(r)
    BY OfOneKeys
  <1>3. Works(r) /\ KeysMade(r) /\ Fits(r)
    BY <1>2 DEF InMemory, Works
  <1>4. kept \subseteq Own(r) /\ kept \subseteq r.made /\ r.made \subseteq kept \cup {a}
    BY <1>3 DEF KeysMade
  <1>5. r.cmd = "init" => a \notin r.made \cap keystore'
    <2> SUFFICES ASSUME r.cmd = "init", r.phase # "writing" PROVE r.made = {}
      OBVIOUS
    <2> QED BY <1>3 DEF KeysMade, Fits, Own, Accounts
  <1> HIDE DEF kept
  <1> QED BY <1>1, <1>3, <1>4, <1>5, FailKeepsKeys

LEMMA FailedSaveKeepsKeys ==
  ASSUME KInv, IInv', NEW p \in Proc, Stale(p) \/ KeyLedgerFails(p) \/ WriteFails(p)
  PROVE  KInv'
  <1>1. CASE Stale(p)
    BY <1>1, SaveFailsKeepsKeys DEF Stale
  <1>2. CASE KeyLedgerFails(p)
    BY <1>2, SaveFailsKeepsKeys DEF KeyLedgerFails
  <1>3. CASE WriteFails(p)
    BY <1>3, SaveFailsKeepsKeys DEF WriteFails
  <1> QED BY <1>1, <1>2, <1>3

-----------------------------------------------------------------------------
(* Deleting.                                                               *)

\* A key that is not needed is deleted, or left for good.
LEMMA ForgetKeys ==
  ASSUME KInv, IInv', NEW p \in Proc, NEW q, NEW a, proc' = [proc EXCEPT ![p] = q],
         NeedsLock(proc[p]), Forget(a), a \notin Needed(disk),
         UNCHANGED <<disk, drawn, cleared>>,
         Held(proc[p]) \subseteq Held(q) \cup {a}, InMemory(q), ~Works(q),
         Deletes(q, disk, keystore')
  PROVE  KInv'
  <1>1. /\ keystore' \subseteq keystore /\ keystore \ {a} \subseteq keystore'
        /\ leaked \subseteq leaked'
        /\ a \in keystore' => a \in leaked'
    BY OfOneKeys DEF Forget
  <1>2. keystore' \subseteq Referenced(disk) \cup leaked' \cup Held(q) \cup Others(p)
    BY <1>1, KeysAreKnown
  <1>3. Needed(disk) \subseteq keystore' \cup cleared
    BY <1>1, OfOneKeys
  <1>4. InStores(q, disk, keystore', cleared, leaked', drawn)
    BY DEF InStores
  <1> QED BY <1>2, <1>3, <1>4, OfOneKeys, LockedKeys

LEMMA SweepKeepsKeys ==
  ASSUME KInv, IInv', NEW p \in Proc, Sweep(p)
  PROVE  KInv'
  <1> DEFINE r == proc[p]
  <1>1. r.phase = "sweeping" /\ UNCHANGED <<disk, lock, drawn, cleared>>
    BY DEF Sweep
  <1>2. r \in Process /\ InMemory(r) /\ Lifecycle(r.cmd) /\ r.made = {}
    BY <1>1, OfOneKeys DEF InMemory, Works
  <1>3. NeedsLock(r) /\ Held(r) = r.drop
    BY <1>1, <1>2 DEF NeedsLock, Held
  <1>4. CASE r.drop = {}
    <2> DEFINE q == [r EXCEPT !.phase = "closing"]
    <2>1. proc' = [proc EXCEPT ![p] = q] /\ UNCHANGED <<keystore, leaked>>
      BY <1>4 DEF Sweep, Goto
    <2>2. q.phase = "closing" /\ q.made = {}
      BY <1>2 DEF Process
    <2> HIDE DEF q
    <2> QED BY <1>1, <1>3, <1>4, <2>1, <2>2, RestIsEasy, QuietKeys DEF Rests
  <1>5. CASE r.drop # {}
    <2>1. PICK a \in r.drop : Forget(a) /\ proc' = [proc EXCEPT ![p].drop = @ \ {a}]
      BY <1>5 DEF Sweep
    <2> DEFINE drop == r.drop \ {a}
               q == [r EXCEPT !.drop = drop]
    <2>2. proc' = [proc EXCEPT ![p] = q]
      BY <2>1
    <2>3. r.drop \cap Needed(disk) = {}
      BY <1>1, <1>3, OfOneKeys DEF InStores, Deletes
    <2> HIDE DEF drop
    <2>4. q.phase = "sweeping" /\ q.made = {} /\ q.drop = drop /\ q.cmd = r.cmd
      BY <1>1, <1>2 DEF Process
    <2> HIDE DEF q
    <2>5. /\ Held(r) \subseteq Held(q) \cup {a} /\ InMemory(q) /\ ~Works(q)
          /\ Deletes(q, disk, keystore') /\ a \notin Needed(disk)
      BY <1>2, <1>3, <2>3, <2>4 DEF Held, InMemory, Works, Deletes, drop
    <2> QED BY <1>1, <1>3, <2>1, <2>2, <2>5, ForgetKeys
  <1> QED BY <1>4, <1>5

LEMMA UndoKeepsKeys ==
  ASSUME KInv, IInv', NEW p \in Proc, Undo(p)
  PROVE  KInv'
  <1> DEFINE r == proc[p]
  <1>1. r.phase = "undoing" /\ UNCHANGED <<disk, lock, drawn, cleared>>
    BY DEF Undo
  <1>2. r \in Process /\ InMemory(r) /\ Lifecycle(r.cmd)
    BY <1>1, OfOneKeys DEF InMemory, Works
  <1>3. NeedsLock(r) /\ Held(r) = r.made
    BY <1>1, <1>2 DEF NeedsLock, Held
  <1>4. CASE r.made = {}
    <2> DEFINE q == [r EXCEPT !.phase = "closing"]
    <2>1. proc' = [proc EXCEPT ![p] = q] /\ UNCHANGED <<keystore, leaked>>
      BY <1>4 DEF Undo, Goto
    <2>2. q.phase = "closing" /\ q.made = {}
      BY <1>2, <1>4 DEF Process
    <2> HIDE DEF q
    <2> QED BY <1>1, <1>3, <1>4, <2>1, <2>2, RestIsEasy, QuietKeys DEF Rests
  <1>5. CASE r.made # {}
    <2>1. PICK a \in r.made : Forget(a) /\ proc' = [proc EXCEPT ![p].made = @ \ {a}]
      BY <1>5 DEF Undo
    <2> DEFINE made == r.made \ {a}
               q == [r EXCEPT !.made = made]
    <2>2. proc' = [proc EXCEPT ![p] = q]
      BY <2>1
    <2>3. r.made \cap Needed(disk) = {}
      BY <1>1, <1>3, OfOneKeys DEF InStores, Deletes
    <2> HIDE DEF made
    <2>4. q.phase = "undoing" /\ q.made = made /\ q.cmd = r.cmd
      BY <1>1, <1>2 DEF Process
    <2> HIDE DEF q
    <2>5. /\ Held(r) \subseteq Held(q) \cup {a} /\ InMemory(q) /\ ~Works(q)
          /\ Deletes(q, disk, keystore') /\ a \notin Needed(disk)
      BY <1>2, <1>3, <2>3, <2>4 DEF Held, InMemory, Works, Deletes, made
    <2> QED BY <1>1, <1>3, <2>1, <2>2, <2>5, ForgetKeys
  <1> QED BY <1>4, <1>5

\* A wipe or an abandoned init at its next key.
LEMMA DeleteKeepsKeys ==
  ASSUME KInv, IInv', NEW p \in Proc, proc[p].phase \in {"wiping", "aborting"},
         DeleteNext(p), UNCHANGED drawn
  PROVE  KInv'
  <1> DEFINE r == proc[p]
  <1>1. PICK a \in NextDelete(r) : /\ keystore' = keystore \ {a}
                                   /\ cleared' = cleared \cup {a}
                                   /\ proc' = [proc EXCEPT ![p].drop = @ \ {a}]
                                   /\ UNCHANGED <<disk, leaked>>
    BY DEF DeleteNext
  <1>2. r \in Process /\ NeedsLock(r) /\ r.made = {}
    BY OfOneKeys DEF PlannedAt, NeedsLock, InMemory, Works
  <1>3. lock = p /\ Deletes(r, disk, keystore)
    BY <1>2, OfOneKeys DEF InStores
  <1> DEFINE drop == r.drop \ {a}
             q == [r EXCEPT !.drop = drop]
  <1>4. proc' = [proc EXCEPT ![p] = q]
    BY <1>1
  <1> HIDE DEF drop
  <1>5. q.phase = r.phase /\ q.made = {} /\ q.drop = drop
    BY <1>2 DEF Process
  <1> HIDE DEF q
  <1>6. InMemory(q)
    BY <1>5 DEF InMemory, Works
  <1>7. InStores(q, disk, keystore', cleared', leaked, drawn)
    BY <1>1, <1>3, <1>5 DEF InStores, Deletes, Works, drop
  <1>8. Held(r) \subseteq Held(q) \cup {a}
    BY <1>2, <1>5 DEF Held, drop
  <1>9. keystore' \subseteq Referenced(disk) \cup leaked \cup Held(q) \cup Others(p)
    BY <1>1, <1>8, KeysAreKnown
  <1>10. Needed(disk) \subseteq keystore' \cup cleared'
    BY <1>1, OfOneKeys
  <1> QED BY <1>1, <1>3, <1>4, <1>6, <1>7, <1>9, <1>10, OfOneKeys, LockedKeys

LEMMA RemovalKeepsKeys ==
  ASSUME KInv, IInv', NEW p \in Proc, Abort(p) \/ Wipe(p)
  PROVE  KInv'
  <1> DEFINE r == proc[p]
  <1>1. /\ r.phase \in {"aborting", "wiping"} /\ UNCHANGED drawn
        /\ r.phase = "aborting" => Abort(p)
        /\ r.phase = "wiping" => Wipe(p)
    BY DEF Abort, Wipe
  <1>2. CASE DeleteNext(p)
    BY <1>1, <1>2, DeleteKeepsKeys
  <1>3. CASE ~DeleteNext(p)
    <2>1. r \in Process /\ NeedsLock(r) /\ r.made = {}
      BY <1>1, OfOneKeys DEF PlannedAt, NeedsLock, InMemory, Works
    <2>2. lock = p /\ Deletes(r, disk, keystore)
      BY <2>1, OfOneKeys DEF InStores
    <2>3. PICK q \in {[r EXCEPT !.phase = "closing", !.drop = {}],
                      [r EXCEPT !.phase = "wiped"]} :
            proc' = [proc EXCEPT ![p] = q]
      BY <1>3 DEF Abort, Wipe, Goto
    <2>4. q.phase \in {"closing", "wiped"} /\ q.made = {}
      BY <2>1, <2>3 DEF Process
    <2>5. Rests(q)
      BY <2>4 DEF Rests
    <2>6. UNCHANGED <<keystore, cleared>> /\ disk' \in {disk, Absent}
      BY <1>3 DEF Abort, Wipe
    <2>7. keystore' \subseteq Referenced(disk') \cup leaked' \cup Held(q) \cup Others(p)
      <3>1. CASE r.phase = "aborting"
        <4>1. leaked' = leaked \cup (r.drop \cap keystore) /\ Held(r) = r.drop
          BY <1>1, <1>3, <2>1, <3>1 DEF Abort, Held
        <4>2. Referenced(disk) \cap keystore \subseteq r.drop
          BY <2>2, <3>1 DEF Deletes
        <4> QED BY <2>6, <4>1, <4>2, KeysAreKnown
      <3>2. CASE r.phase = "wiping"
        <4>1. leaked' = leaked /\ Held(r) = {} /\ (disk' = disk \/ r.drop = {})
          BY <1>1, <1>3, <2>1, <3>2 DEF Wipe, Held
        <4>2. Referenced(disk) \cap keystore \subseteq r.drop
          BY <2>2, <3>2 DEF Deletes
        <4> QED BY <2>6, <4>1, <4>2, KeysAreKnown
      <3> QED BY <1>1, <3>1, <3>2
    <2>8. FileSound(disk', drawn') /\ Needed(disk') \subseteq keystore' \cup cleared'
      BY <1>1, <2>6, OfOneKeys, AbsentIsSound
    <2> QED BY <2>2, <2>3, <2>4, <2>5, <2>7, <2>8, RestIsEasy, LockedKeys
  <1> QED BY <1>2, <1>3

-----------------------------------------------------------------------------
(* The file that a command writes.                                         *)

Saved(r, n) == [Effect(r) EXCEPT !.stamp = n]

LEMMA StampOnly ==
  ASSUME NEW f \in StateFile, NEW n
  PROVE  LET g == [f EXCEPT !.stamp = n] IN
         /\ g.ledger = f.ledger /\ g.secrets = f.secrets /\ g.refs = f.refs
         /\ g.trusted = f.trusted /\ g.revoked = f.revoked /\ g.local = f.local
         /\ g.bound = f.bound /\ g.events = f.events
  BY DEF StateFile

\* What a command that adds to the vault or takes from it loaded.
Loaded(r) ==
  /\ r \in Process
  /\ r.cmd \in {"init", "settle", "enroll", "revoke"} => r.fresh \in Account
  /\ r.cmd # "init" => Initialized(r.snap)

SameDevices(f, g) == g.trusted = f.trusted /\ g.revoked = f.revoked /\ g.local = f.local

LEMMA SavedInit ==
  ASSUME NEW r, NEW n, Loaded(r), r.cmd = "init"
  PROVE  LET g == Saved(r, n) IN
         /\ g.ledger = r.fresh /\ g.secrets = [s \in Secret |-> {}] /\ g.refs = {}
         /\ g.trusted = {} /\ g.revoked = {} /\ g.local = None
         /\ g.bound = {} /\ g.events = 1
  <1>1. Effect(r) \in StateFile
    BY EffectType DEF Loaded
  <1>2. Effect(r) = [Absent EXCEPT !.ledger = r.fresh, !.events = 1]
    BY DEF Effect
  <1>3. /\ Effect(r).ledger = r.fresh /\ Effect(r).secrets = [s \in Secret |-> {}]
        /\ Effect(r).refs = {} /\ Effect(r).trusted = {} /\ Effect(r).revoked = {}
        /\ Effect(r).local = None /\ Effect(r).bound = {} /\ Effect(r).events = 1
    BY <1>2 DEF Absent
  <1> QED BY <1>1, <1>3, StampOnly DEF Saved

LEMMA SavedDevice ==
  ASSUME NEW r, NEW n, Loaded(r), r.cmd \in {"settle", "enroll"}
  PROVE  LET g == Saved(r, n)
             f == r.snap IN
         /\ g.ledger = f.ledger /\ g.secrets = f.secrets /\ g.refs = f.refs \cup {r.fresh}
         /\ g.trusted = f.trusted \cup {r.fresh} /\ g.revoked = f.revoked
         /\ g.local = r.fresh /\ g.bound = f.bound /\ g.events = f.events + 1
  <1> DEFINE f == r.snap
             trusted == f.trusted \cup {r.fresh}
             refs == f.refs \cup {r.fresh}
             events == f.events + 1
             g == Effect(r)
  <1>1. g \in StateFile /\ f \in StateFile
    BY EffectType DEF Loaded, Process
  <1>2. g = SetEnrolled(f, trusted, r.fresh, refs, events)
    BY <1>1 DEF Effect, SetEnrolled
  <1> HIDE DEF g, trusted, refs, events
  <1>3. /\ g.ledger = f.ledger /\ g.secrets = f.secrets /\ g.refs = refs
        /\ g.trusted = trusted /\ g.revoked = f.revoked
        /\ g.local = r.fresh /\ g.bound = f.bound /\ g.events = events
    BY <1>1, <1>2 DEF StateFile, SetEnrolled
  <1> QED BY <1>1, <1>3, StampOnly DEF Saved, g, trusted, refs, events

LEMMA SavedSecrets ==
  ASSUME NEW r, NEW n, Loaded(r), r.cmd \in {"add", "rekey", "rm"}
  PROVE  LET g == Saved(r, n)
             f == r.snap IN
         /\ g.ledger = f.ledger /\ SameDevices(f, g) /\ g.bound = f.bound
         /\ g.events = f.events + 1
         /\ g.refs = (IF r.cmd = "rm" THEN f.refs \ r.drop ELSE f.refs \cup Accounts(r))
         /\ g.secrets = [s \in Secret |->
                           IF s \in r.scope THEN IF r.cmd = "rm" THEN {} ELSE Rotated(r, s)
                           ELSE f.secrets[s]]
  <1> DEFINE f == r.snap
             next == [s \in Secret |->
                        IF s \in r.scope THEN IF r.cmd = "rm" THEN {} ELSE Rotated(r, s)
                        ELSE f.secrets[s]]
             refs == IF r.cmd = "rm" THEN f.refs \ r.drop ELSE f.refs \cup Accounts(r)
             events == f.events + 1
             g == Effect(r)
  <1>1. g \in StateFile /\ f \in StateFile
    BY EffectType DEF Loaded, Process
  <1>2. g = SetSecrets(f, next, refs, events)
    BY <1>1 DEF Effect, SetSecrets, Accounts
  <1> HIDE DEF g, next, refs, events
  <1>3. /\ g.ledger = f.ledger /\ g.secrets = next /\ g.refs = refs
        /\ g.trusted = f.trusted /\ g.revoked = f.revoked
        /\ g.local = f.local /\ g.bound = f.bound /\ g.events = events
    BY <1>1, <1>2 DEF StateFile, SetSecrets
  <1> QED BY <1>1, <1>3, StampOnly DEF Saved, SameDevices, g, next, refs, events

LEMMA SavedBound ==
  ASSUME NEW r, NEW n, Loaded(r), r.cmd \in {"bind", "rename"}
  PROVE  LET g == Saved(r, n)
             f == r.snap IN
         /\ g.ledger = f.ledger /\ SameDevices(f, g) /\ g.bound = f.bound \cup r.scope
         /\ g.events = f.events + 1
         /\ g.refs = (f.refs \ r.drop) \cup Accounts(r)
         /\ g.secrets = [s \in Secret |->
                           IF s \in r.scope THEN Resealed(r, s) ELSE f.secrets[s]]
  <1> DEFINE f == r.snap
             next == [s \in Secret |-> IF s \in r.scope THEN Resealed(r, s) ELSE f.secrets[s]]
             refs == (f.refs \ r.drop) \cup Accounts(r)
             bound == f.bound \cup r.scope
             events == f.events + 1
             g == Effect(r)
  <1>1. g \in StateFile /\ f \in StateFile
    BY EffectType DEF Loaded, Process
  <1>2. g = SetBound(f, next, refs, bound, events)
    BY <1>1 DEF Effect, SetBound, Accounts
  <1> HIDE DEF g, next, refs, bound, events
  <1>3. /\ g.ledger = f.ledger /\ g.secrets = next /\ g.refs = refs
        /\ g.trusted = f.trusted /\ g.revoked = f.revoked
        /\ g.local = f.local /\ g.bound = bound /\ g.events = events
    BY <1>1, <1>2 DEF StateFile, SetBound
  <1> QED BY <1>1, <1>3, StampOnly DEF Saved, SameDevices, g, next, refs, bound, events

LEMMA SavedRevoke ==
  ASSUME NEW r, NEW n, Loaded(r), r.cmd = "revoke"
  PROVE  LET g == Saved(r, n)
             f == r.snap IN
         /\ g.ledger = f.ledger /\ g.secrets = f.secrets /\ g.bound = f.bound
         /\ g.trusted = f.trusted \ {r.fresh} /\ g.revoked = f.revoked \cup {r.fresh}
         /\ g.local = f.local
         /\ g.refs = f.refs \ RevokedAccounts(f, r.fresh)
         /\ g.events = f.events + (IF f.local \in {r.fresh, None} THEN 2 ELSE 1)
  <1> DEFINE f == r.snap
             refs == f.refs \ RevokedAccounts(f, r.fresh)
             events == f.events + (IF f.local \in {r.fresh, None} THEN 2 ELSE 1)
             trusted == f.trusted \ {r.fresh}
             revoked == f.revoked \cup {r.fresh}
             g == Effect(r)
  <1>1. g \in StateFile /\ f \in StateFile
    BY EffectType DEF Loaded, Process
  <1>2. g = SetRevoked(f, trusted, revoked, refs, events)
    BY <1>1 DEF Effect, SetRevoked
  <1> HIDE DEF g, trusted, revoked, refs, events
  <1>3. /\ g.ledger = f.ledger /\ g.secrets = f.secrets /\ g.refs = refs
        /\ g.trusted = trusted /\ g.revoked = revoked
        /\ g.local = f.local /\ g.bound = f.bound /\ g.events = events
    BY <1>1, <1>2 DEF StateFile, SetRevoked
  <1> QED BY <1>1, <1>3, StampOnly DEF Saved, g, trusted, revoked, refs, events

LEMMA SavedAudit ==
  ASSUME NEW r, NEW n, Loaded(r), r.cmd \in {"none", "wipe", "audit"}
  PROVE  LET g == Saved(r, n)
             f == r.snap IN
         /\ g.ledger = f.ledger /\ g.secrets = f.secrets /\ g.bound = f.bound
         /\ SameDevices(f, g) /\ g.refs = f.refs /\ g.events = f.events + 1
  <1> DEFINE f == r.snap
             g == Effect(r)
             events == f.events + 1
  <1>1. g \in StateFile /\ f \in StateFile
    BY EffectType DEF Loaded, Process
  <1>2. g = [f EXCEPT !.events = events]
    BY <1>1 DEF Effect
  <1> HIDE DEF g, events
  <1>3. /\ g.ledger = f.ledger /\ g.secrets = f.secrets /\ g.refs = f.refs
        /\ g.trusted = f.trusted /\ g.revoked = f.revoked
        /\ g.local = f.local /\ g.bound = f.bound /\ g.events = events
    BY <1>1, <1>2 DEF StateFile
  <1> QED BY <1>1, <1>3, StampOnly DEF Saved, SameDevices, g, events

-----------------------------------------------------------------------------
(* Versions old and new.                                                   *)

LEMMA SameVersion ==
  ASSUME NEW x \in Version, NEW y \in Version,
         x.n = y.n, x.account = y.account, x.active = y.active, x.bound = y.bound
  PROVE  x = y
  BY DEF Version

\* Where a version of s in a new file comes from.
Kept(f, s, x) == \E v \in f.secrets[s] : x.n = v.n /\ x.account = v.account
Made(r, s, x) == \E k \in r.new : k.secret = s /\ x.n = k.n /\ x.account = k.account

\* All the versions of g are versions of f or have new keys.
Derived(r, f, g) == \A s \in Secret : \A x \in g.secrets[s] : Kept(f, s, x) \/ Made(r, s, x)

LEMMA DerivedSealing ==
  ASSUME NEW r, NEW f, NEW g, Derived(r, f, g)
  PROVE  Sealing(g, Secret) \subseteq Sealing(f, Secret) \cup Accounts(r)
  BY DEF Derived, Kept, Made, Sealing, Accounts

\* New keys keep every version under a key of its own.
LEMMA Owners ==
  ASSUME NEW r, NEW f \in StateFile, NEW g, OneOwner(f), KeysMade(r), r.snap = f,
         r.cmd \notin {"enroll", "settle"},
         Derived(r, f, g), Devices(g) = Devices(f), g.ledger = f.ledger, f.ledger # None,
         \A s \in Secret : \A x, y \in g.secrets[s] :
           x.n = y.n /\ x.account = y.account => x = y,
         \A s \in Secret : \A x, y \in g.secrets[s] :
           Kept(f, s, x) /\ Made(r, s, y) => x.n # y.n
  PROVE  OneOwner(g)
  <1>1. \A k \in r.new : k.account \notin InUse(f)
    BY DEF KeysMade, Own, Accounts
  <1>2. \A s \in Secret : \A v \in f.secrets[s] : v.account \in InUse(f)
    BY DEF InUse, Sealing
  <1>3. \A s, t \in Secret : \A x \in g.secrets[s], y \in g.secrets[t] :
          x.account = y.account => s = t /\ x = y
    <2> SUFFICES ASSUME NEW s \in Secret, NEW t \in Secret,
                        NEW x \in g.secrets[s], NEW y \in g.secrets[t],
                        x.account = y.account
                 PROVE  s = t /\ x.n = y.n
      OBVIOUS
    <2>1. CASE Kept(f, s, x) /\ Kept(f, t, y)
      <3>1. PICK v \in f.secrets[s], w \in f.secrets[t] :
              x.n = v.n /\ x.account = v.account /\ y.n = w.n /\ y.account = w.account
        BY <2>1 DEF Kept
      <3>2. v.account = w.account => s = t /\ v = w
        BY DEF OneOwner
      <3> QED BY <3>1, <3>2
    <2>2. CASE Made(r, s, x) /\ Made(r, t, y)
      BY <2>2 DEF Made, KeysMade
    <2>3. ~(Kept(f, s, x) /\ Made(r, t, y)) /\ ~(Made(r, s, x) /\ Kept(f, t, y))
      BY <1>1, <1>2 DEF Kept, Made
    <2> QED BY <2>1, <2>2, <2>3 DEF Derived
  <1>4. \A s \in Secret : \A x, y \in g.secrets[s] : x.n = y.n => x = y
    <2> SUFFICES ASSUME NEW s \in Secret, NEW x \in g.secrets[s], NEW y \in g.secrets[s],
                        x.n = y.n
                 PROVE  x.account = y.account
      OBVIOUS
    <2>1. CASE Kept(f, s, x) /\ Kept(f, s, y)
      <3>1. PICK v \in f.secrets[s], w \in f.secrets[s] :
              x.n = v.n /\ x.account = v.account /\ y.n = w.n /\ y.account = w.account
        BY <2>1 DEF Kept
      <3>2. v.n = w.n => v = w
        BY DEF OneOwner
      <3> QED BY <3>1, <3>2
    <2>2. CASE Made(r, s, x) /\ Made(r, s, y)
      BY <2>2 DEF Made, KeysMade
    <2> QED BY <2>1, <2>2 DEF Derived
  <1>5. \A s \in Secret : \A x \in g.secrets[s] : x.account \notin Devices(g) \cup {g.ledger}
    <2> SUFFICES ASSUME NEW s \in Secret, NEW x \in g.secrets[s]
                 PROVE  x.account \notin Devices(f) \cup {f.ledger}
      OBVIOUS
    <2>1. CASE Kept(f, s, x)
      BY <2>1 DEF Kept, OneOwner
    <2>2. CASE Made(r, s, x)
      BY <2>2, <1>1, UseTypes DEF Made
    <2> QED BY <2>1, <2>2 DEF Derived
  <1> QED BY <1>3, <1>4, <1>5 DEF OneOwner

\* A version that went stale, and a new one.
LEMMA RotatedElement ==
  ASSUME NEW r \in Process, NEW s \in Secret, NEW x \in Rotated(r, s)
  PROVE  \/ \E v \in r.snap.secrets[s] :
              x.n = v.n /\ x.account = v.account /\ x.bound = v.bound /\ x.active = FALSE
         \/ \E k \in r.new :
              /\ k.secret = s /\ x.n = k.n /\ x.account = k.account
              /\ x.active = TRUE /\ x.bound = (s \in r.snap.bound)
  <1>1. r.snap.secrets[s] \subseteq Version
    BY DEF Process, StateFile
  <1>2. CASE \E v \in r.snap.secrets[s] : x = [v EXCEPT !.active = FALSE]
    BY <1>1, <1>2 DEF Version
  <1>3. CASE \E k \in {j \in r.new : j.secret = s} :
               x = [n |-> k.n, account |-> k.account, active |-> TRUE,
                    bound |-> s \in r.snap.bound]
    BY <1>3
  <1> QED BY <1>2, <1>3 DEF Rotated

\* x is the version v as it was, because there is no key for it, or sealed
\* again under its new key.
ResealedFrom(r, s, x, v) ==
  /\ x.n = v.n /\ x.active = v.active
  /\ \/ x = v /\ KeysFor(r, s, v.n) = {}
     \/ \E k \in KeysFor(r, s, v.n) : x.account = k.account /\ x.bound = TRUE

LEMMA ResealedElement ==
  ASSUME NEW r \in Process, NEW s \in Secret, NEW x \in Resealed(r, s)
  PROVE  \E v \in r.snap.secrets[s] : ResealedFrom(r, s, x, v)
  <1>1. r.snap.secrets[s] \subseteq Version
    BY DEF Process, StateFile
  <1>2. CASE x \in {v \in r.snap.secrets[s] : KeysFor(r, s, v.n) = {}}
    BY <1>2 DEF ResealedFrom
  <1>3. CASE \E v \in r.snap.secrets[s] : \E k \in KeysFor(r, s, v.n) :
               x = [v EXCEPT !.account = k.account, !.bound = TRUE]
    BY <1>1, <1>3 DEF Version, ResealedFrom
  <1> QED BY <1>2, <1>3 DEF Resealed

\* Every version is still there, with its key or with the new one.
LEMMA ResealedImage ==
  ASSUME NEW r \in Process, NEW s \in Secret, NEW v \in r.snap.secrets[s]
  PROVE  \E x \in Resealed(r, s) : ResealedFrom(r, s, x, v)
  <1>1. v \in Version
    BY DEF Process, StateFile
  <1>2. CASE KeysFor(r, s, v.n) = {}
    BY <1>2 DEF Resealed, ResealedFrom
  <1>3. CASE KeysFor(r, s, v.n) # {}
    <2>1. PICK k \in KeysFor(r, s, v.n) : TRUE
      BY <1>3
    <2> DEFINE x == [v EXCEPT !.account = k.account, !.bound = TRUE]
    <2>2. x.n = v.n /\ x.active = v.active /\ x.account = k.account /\ x.bound = TRUE
      BY <1>1 DEF Version
    <2>3. x \in Resealed(r, s)
      <3> DEFINE image(u) == {[u EXCEPT !.account = j.account, !.bound = TRUE] :
                                j \in KeysFor(r, s, u.n)}
      <3>1. x \in image(v)
        BY <2>1
      <3>2. x \in UNION {image(u) : u \in r.snap.secrets[s]}
        <4> HIDE DEF x, image
        <4> QED BY <3>1
      <3> QED BY <3>2 DEF Resealed
    <2> HIDE DEF x
    <2> QED BY <2>1, <2>2, <2>3 DEF ResealedFrom
  <1> QED BY <1>2, <1>3

\* There is one number a new version may have.
LEMMA OneNextVersion ==
  ASSUME NEW f \in StateFile, NEW s \in Secret, Ordered(f)
  PROVE  /\ \E n \in NextVersions(f, s) : TRUE
         /\ \A n, m \in NextVersions(f, s) : n = m
         /\ \A n \in NextVersions(f, s) : \A v \in f.secrets[s] : v.n < n
  <1>1. \A v \in f.secrets[s] : v.n \in Nat \ {0}
    BY DEF StateFile, Version
  <1>2. \A n \in NextVersions(f, s) : \A v \in f.secrets[s] : v.n < n
    BY DEF NextVersions
  <1>3. CASE f.secrets[s] = {}
    BY <1>3 DEF NextVersions
  <1>4. CASE f.secrets[s] # {}
    <2>1. PICK u \in f.secrets[s] : Newest(f, s, u)
      BY <1>4 DEF Ordered
    <2>2. \A v \in f.secrets[s] : v.n < u.n + 1
      BY <1>1, <2>1 DEF Newest
    <2>3. u.n + 1 \in NextVersions(f, s)
      BY <2>2 DEF NextVersions
    <2>4. ASSUME NEW n \in NextVersions(f, s) PROVE n = u.n + 1
      <3>1. u.n < n
        BY <1>2
      <3>2. n = 1 \/ \E v \in f.secrets[s] : n = v.n + 1
        BY DEF NextVersions
      <3>3. CASE n = 1
        BY <1>1, <3>1, <3>3
      <3>4. CASE \E v \in f.secrets[s] : n = v.n + 1
        BY <1>1, <2>2, <3>1, <3>4
      <3> QED BY <3>2, <3>3, <3>4
    <2> QED BY <1>2, <2>3, <2>4
  <1> QED BY <1>2, <1>3, <1>4

-----------------------------------------------------------------------------
(* The new file is sound.                                                  *)

\* A file that keeps its versions, or fewer of them.
LEMMA FewerVersions ==
  ASSUME NEW f, NEW g, OneOwner(f), Ordered(f), Bound(f),
         \A s \in Secret : g.secrets[s] \in {f.secrets[s], {}},
         g.bound = f.bound, f.bound \subseteq Secret,
         \A s \in Secret : \A v \in f.secrets[s] : v.account \notin Devices(g) \cup {g.ledger}
  PROVE  OneOwner(g) /\ Ordered(g) /\ Bound(g)
  <1>1. OneOwner(g)
    <2>1. \A s, t \in Secret : \A v \in g.secrets[s], w \in g.secrets[t] :
            v.account = w.account => s = t /\ v = w
      <3> SUFFICES ASSUME NEW s \in Secret, NEW t \in Secret,
                          NEW v \in g.secrets[s], NEW w \in g.secrets[t],
                          v.account = w.account
                   PROVE  s = t /\ v = w
        OBVIOUS
      <3>1. v \in f.secrets[s] /\ w \in f.secrets[t]
        OBVIOUS
      <3> QED BY <3>1 DEF OneOwner
    <2>2. \A s \in Secret : \A v, w \in g.secrets[s] : v.n = w.n => v = w
      BY DEF OneOwner
    <2>3. \A s \in Secret : \A v \in g.secrets[s] : v.account \notin Devices(g) \cup {g.ledger}
      OBVIOUS
    <2> QED BY <2>1, <2>2, <2>3 DEF OneOwner
  <1>2. Ordered(g)
    BY DEF Ordered, Newest, ActiveVersions
  <1>3. Bound(g)
    BY DEF Bound
  <1> QED BY <1>1, <1>2, <1>3

\* What a command that is about to write has in memory.
Ready(r, f) ==
  /\ Loaded(r) /\ r.snap = f /\ r.phase = "writing"
  /\ KeysMade(r) /\ Fits(r)
  /\ OneOwner(f) /\ Ordered(f) /\ Bound(f)

LEMMA RenewedVersions ==
  ASSUME NEW r, NEW f, NEW n, Ready(r, f), r.cmd \in {"add", "rekey"}
  PROVE  LET g == Saved(r, n) IN Derived(r, f, g) /\ OneOwner(g) /\ Ordered(g) /\ Bound(g)
  <1> DEFINE g == Saved(r, n)
  <1>1. /\ r \in Process /\ f \in StateFile /\ r.snap = f /\ f.ledger # None
        /\ KeysMade(r) /\ Fits(r) /\ r.todo = {}
    BY DEF Ready, Loaded, Process, Initialized, KeysMade
  <1>2. /\ g.ledger = f.ledger /\ SameDevices(f, g) /\ g.bound = f.bound
        /\ \A s \in Secret : g.secrets[s] = IF s \in r.scope THEN Rotated(r, s) ELSE f.secrets[s]
    <2>1. Loaded(r) /\ r.cmd \in {"add", "rekey", "rm"} /\ r.cmd # "rm" /\ r.snap = f
      BY DEF Ready
    <2>2. /\ g.ledger = r.snap.ledger /\ SameDevices(r.snap, g) /\ g.bound = r.snap.bound
          /\ g.secrets = [s \in Secret |->
                            IF s \in r.scope THEN IF r.cmd = "rm" THEN {} ELSE Rotated(r, s)
                            ELSE r.snap.secrets[s]]
      BY <2>1, SavedSecrets
    <2> HIDE DEF g
    <2> QED BY <2>1, <2>2
  <1>3. Slots(r) = NextSlots(f, r.scope)
    BY <1>1 DEF Fits, Renews
  <1>4. \A k \in r.new : k.secret \in r.scope /\ k.n \in NextVersions(f, k.secret)
    <2> SUFFICES ASSUME NEW k \in r.new
                 PROVE  k.secret \in r.scope /\ k.n \in NextVersions(f, k.secret)
      OBVIOUS
    <2>1. SlotOf(k.secret, k.n) \in NextSlots(f, r.scope)
      BY <1>3 DEF Slots
    <2>2. PICK s \in r.scope : \E m \in NextVersions(f, s) : SlotOf(k.secret, k.n) = SlotOf(s, m)
      BY <2>1 DEF NextSlots, SlotOf
    <2>3. k.secret = s /\ k.n \in NextVersions(f, s)
      BY <2>2 DEF SlotOf
    <2> QED BY <2>3
  <1>5. \A s \in Secret : \A x \in f.secrets[s] : x \in Version /\ x.n \in Nat
    BY <1>1 DEF StateFile, Version
  <1> HIDE DEF g
  \* A version of s in the new file is an old one or has a new key.
  <1>6. \A s \in Secret : \A x \in g.secrets[s] :
          \/ \E v \in f.secrets[s] :
               /\ x.n = v.n /\ x.account = v.account /\ x.bound = v.bound
               /\ x.active = IF s \in r.scope THEN FALSE ELSE v.active
          \/ s \in r.scope /\ \E k \in r.new :
               /\ k.secret = s /\ x.n = k.n /\ x.account = k.account
               /\ x.active = TRUE /\ x.bound = (s \in f.bound)
    <2> SUFFICES ASSUME NEW s \in Secret, NEW x \in g.secrets[s]
                 PROVE  \/ \E v \in f.secrets[s] :
                             /\ x.n = v.n /\ x.account = v.account /\ x.bound = v.bound
                             /\ x.active = IF s \in r.scope THEN FALSE ELSE v.active
                        \/ s \in r.scope /\ \E k \in r.new :
                             /\ k.secret = s /\ x.n = k.n /\ x.account = k.account
                             /\ x.active = TRUE /\ x.bound = (s \in f.bound)
      OBVIOUS
    <2>1. CASE s \in r.scope
      <3>1. x \in Rotated(r, s)
        BY <1>2, <2>1
      <3> r \in Process /\ r.snap = f
        BY <1>1
      <3>2. \/ \E v \in r.snap.secrets[s] :
                 x.n = v.n /\ x.account = v.account /\ x.bound = v.bound /\ x.active = FALSE
            \/ \E k \in r.new :
                 /\ k.secret = s /\ x.n = k.n /\ x.account = k.account
                 /\ x.active = TRUE /\ x.bound = (s \in r.snap.bound)
        BY ONLY r \in Process, s \in Secret, <3>1, RotatedElement, Zenon
      <3> QED BY <2>1, <3>2, Zenon
    <2>2. CASE s \notin r.scope
      BY <1>2, <2>2
    <2> QED BY <2>1, <2>2
  <1>7. Derived(r, f, g)
    <2> SUFFICES ASSUME NEW s \in Secret, NEW x \in g.secrets[s]
                 PROVE  Kept(f, s, x) \/ Made(r, s, x)
      BY DEF Derived
    <2>1. ASSUME NEW v \in f.secrets[s], x.n = v.n, x.account = v.account
          PROVE  Kept(f, s, x)
      BY <2>1 DEF Kept
    <2>2. ASSUME NEW k \in r.new, k.secret = s, x.n = k.n, x.account = k.account
          PROVE  Made(r, s, x)
      BY <2>2 DEF Made
    <2> QED BY <1>6, <2>1, <2>2
  <1>8. \A s \in Secret : \A x \in g.secrets[s] : x \in Version
    BY <1>1, <1>2, <1>5, RotatedType
  <1>9. \A s \in Secret : \A v \in f.secrets[s] : \A k \in r.new :
          v.account # k.account /\ (k.secret = s => v.n < k.n)
    <2> SUFFICES ASSUME NEW s \in Secret, NEW v \in f.secrets[s], NEW k \in r.new
                 PROVE  v.account # k.account /\ (k.secret = s => v.n < k.n)
      OBVIOUS
    <2>1. v.account \in InUse(f) /\ k.account \in Own(r)
      <3>1. v.account \in Sealing(f, Secret)
        BY InSealing
      <3>2. k.account \in Accounts(r) /\ r.cmd \notin {"enroll", "settle"}
        BY DEF Accounts
      <3> QED BY <3>1, <3>2 DEF InUse, Own
    <2>2. v.account # k.account
      BY <1>1, <2>1 DEF KeysMade
    <2>3. k.secret = s => v.n < k.n
      BY <1>1, <1>4, OneNextVersion DEF Ready
    <2> QED BY <2>2, <2>3
  <1>10. \A s \in Secret : \A x, y \in g.secrets[s] :
           x.n = y.n /\ x.account = y.account => x = y
    <2> SUFFICES ASSUME NEW s \in Secret, NEW x \in g.secrets[s], NEW y \in g.secrets[s],
                        x.n = y.n, x.account = y.account
                 PROVE  x.active = y.active /\ x.bound = y.bound
      BY <1>8, SameVersion
    <2> DEFINE Old(z, v) == /\ z.n = v.n /\ z.account = v.account /\ z.bound = v.bound
                            /\ z.active = IF s \in r.scope THEN FALSE ELSE v.active
               New(z, k) == /\ k.secret = s /\ z.n = k.n /\ z.account = k.account
                            /\ z.active = TRUE /\ z.bound = (s \in f.bound)
    <2>1. /\ (\E v \in f.secrets[s] : Old(x, v)) \/ (\E k \in r.new : New(x, k))
          /\ (\E v \in f.secrets[s] : Old(y, v)) \/ (\E k \in r.new : New(y, k))
      BY <1>6
    <2>2. ASSUME NEW v \in f.secrets[s], Old(x, v), NEW w \in f.secrets[s], Old(y, w)
          PROVE  x.active = y.active /\ x.bound = y.bound
      <3>1. v.account = w.account
        BY <2>2
      <3>2. v.account = w.account => v = w
        BY DEF Ready, OneOwner
      <3> QED BY <2>2, <3>1, <3>2
    <2>3. ASSUME NEW v \in f.secrets[s], NEW k \in r.new
          PROVE  ~(Old(x, v) /\ New(y, k)) /\ ~(New(x, k) /\ Old(y, v))
      BY <1>9
    <2>4. ASSUME NEW k \in r.new, New(x, k), NEW j \in r.new, New(y, j)
          PROVE  x.active = y.active /\ x.bound = y.bound
      BY <2>4
    <2> HIDE DEF Old, New
    <2> QED BY <2>1, <2>2, <2>3, <2>4
  <1>11. \A s \in Secret : \A x, y \in g.secrets[s] : Kept(f, s, x) /\ Made(r, s, y) => x.n # y.n
    <2> SUFFICES ASSUME NEW s \in Secret, NEW x \in g.secrets[s], NEW y \in g.secrets[s],
                        Kept(f, s, x), Made(r, s, y), x.n = y.n
                 PROVE  FALSE
      OBVIOUS
    <2>1. PICK v \in f.secrets[s] : x.n = v.n
      BY DEF Kept
    <2>2. PICK k \in r.new : k.secret = s /\ y.n = k.n
      BY DEF Made
    <2>3. v.n < k.n /\ v.n \in Nat
      BY <1>5, <1>9, <2>2
    <2>4. v.n = k.n
      BY <2>1, <2>2
    <2> QED BY <2>3, <2>4
  <1>12. OneOwner(g)
    <2>1. Devices(g) = Devices(f)
      BY <1>2 DEF SameDevices, Devices
    <2>2. r.cmd \notin {"enroll", "settle"} /\ OneOwner(f)
      BY DEF Ready
    <2> QED BY <1>1, <1>2, <1>7, <1>10, <1>11, <2>1, <2>2, Owners
  <1>13. Ordered(g)
    <2> SUFFICES ASSUME NEW s \in Secret, g.secrets[s] # {}
                 PROVE  \E x \in g.secrets[s] : Newest(g, s, x)
      BY DEF Ordered
    <2>1. CASE s \in r.scope
      <3>1. PICK m \in NextVersions(f, s) : TRUE
        BY <1>1, OneNextVersion DEF Ready
      <3>2. SlotOf(s, m) \in Slots(r)
        BY <1>3, <2>1 DEF NextSlots, SlotOf
      <3>3. PICK k \in r.new : SlotOf(s, m) = SlotOf(k.secret, k.n)
        BY <3>2 DEF Slots
      <3>4. k.secret = s /\ k.n = m
        BY <3>3 DEF SlotOf
      <3> DEFINE x == [n |-> k.n, account |-> k.account, active |-> TRUE,
                       bound |-> s \in f.bound]
      <3>5. x \in Rotated(r, s)
        BY <1>1, <3>4 DEF Rotated
      <3>6. x \in g.secrets[s] /\ x.n = k.n /\ x.account = k.account /\ x.active = TRUE
        BY <1>2, <2>1, <3>5
      <3> HIDE DEF x
      <3>7. ASSUME NEW y \in g.secrets[s], y # x PROVE y.n < x.n /\ ~y.active
        <4>1. CASE \E v \in f.secrets[s] : y.n = v.n /\ y.active = FALSE
          BY <1>9, <3>4, <3>6, <4>1
        <4>2. CASE \E j \in r.new : j.secret = s /\ y.n = j.n /\ y.account = j.account
          <5>1. PICK j \in r.new : j.secret = s /\ y.n = j.n /\ y.account = j.account
            BY <4>2
          <5>2. j.n \in NextVersions(f, s)
            BY <1>4, <5>1
          <5>3. j.n = k.n
            BY <1>1, <3>4, <5>2, OneNextVersion DEF Ready
          <5>4. j = k
            BY <1>1, <3>4, <5>1, <5>3 DEF KeysMade
          <5>5. y = x
            BY <1>10, <3>6, <5>1, <5>4
          <5> QED BY <3>7, <5>5
        <4> QED BY <1>6, <2>1, <4>1, <4>2, ZenonT(40)
      <3> QED BY <3>6, <3>7 DEF Newest, ActiveVersions
    <2>2. CASE s \notin r.scope
      <3>1. g.secrets[s] = f.secrets[s]
        BY <1>2, <2>2
      <3> QED BY <3>1 DEF Ready, Ordered, Newest, ActiveVersions
    <2> QED BY <2>1, <2>2
  <1>14. Bound(g)
    <2> SUFFICES ASSUME NEW s \in f.bound, NEW x \in g.secrets[s] PROVE x.bound
      BY <1>2 DEF Bound
    <2>1. s \in Secret
      BY <1>1 DEF StateFile
    <2>2. \A v \in f.secrets[s] : v.bound
      BY DEF Ready, Bound
    <2>3. CASE \E v \in f.secrets[s] : x.bound = v.bound
      BY <2>2, <2>3
    <2>4. CASE x.bound = (s \in f.bound)
      BY <2>4, Zenon
    <2> QED BY <1>6, <2>1, <2>3, <2>4
  <1> QED BY <1>7, <1>12, <1>13, <1>14 DEF g

LEMMA ResealedVersions ==
  ASSUME NEW r, NEW f, NEW n, Ready(r, f), r.cmd \in {"bind", "rename"}
  PROVE  LET g == Saved(r, n) IN
         /\ Derived(r, f, g) /\ OneOwner(g) /\ Ordered(g) /\ Bound(g)
         /\ r.drop \cap Needed(g) = {}
  <1> DEFINE g == Saved(r, n)
  <1>1. /\ r \in Process /\ f \in StateFile /\ r.snap = f /\ f.ledger # None
        /\ KeysMade(r) /\ Reseals(r) /\ r.todo = {}
        /\ OneOwner(f) /\ Ordered(f) /\ Bound(f)
    BY DEF Ready, Loaded, Process, Initialized, KeysMade, Fits
  <1>2. /\ g.ledger = f.ledger /\ SameDevices(f, g) /\ g.bound = f.bound \cup r.scope
        /\ \A s \in Secret : g.secrets[s] = IF s \in r.scope THEN Resealed(r, s) ELSE f.secrets[s]
    <2>1. Loaded(r) /\ r.cmd \in {"bind", "rename"} /\ r.snap = f
      BY DEF Ready
    <2>2. /\ g.ledger = r.snap.ledger /\ SameDevices(r.snap, g)
          /\ g.bound = r.snap.bound \cup r.scope
          /\ g.secrets = [s \in Secret |->
                            IF s \in r.scope THEN Resealed(r, s) ELSE r.snap.secrets[s]]
      BY <2>1, SavedBound
    <2> HIDE DEF g
    <2> QED BY <2>1, <2>2
  <1>3. \A s \in Secret : \A x \in f.secrets[s] : x \in Version /\ x.n \in Nat
    BY <1>1 DEF StateFile, Version
  <1> HIDE DEF g
  <1> DEFINE Old(s, x, v) == x = v /\ (s \in r.scope => KeysFor(r, s, v.n) = {})
             New(s, x, v) == /\ s \in r.scope
                             /\ \E k \in KeysFor(r, s, v.n) : x.account = k.account /\ x.bound = TRUE
             From(s, x, v) == x.n = v.n /\ x.active = v.active /\ (Old(s, x, v) \/ New(s, x, v))
  <1>4. \A s \in Secret : \A x \in g.secrets[s] : \E v \in f.secrets[s] : From(s, x, v)
    <2> SUFFICES ASSUME NEW s \in Secret, NEW x \in g.secrets[s]
                 PROVE  \E v \in f.secrets[s] : From(s, x, v)
      OBVIOUS
    <2>1. CASE s \in r.scope
      <3>1. x \in Resealed(r, s)
        BY <1>2, <2>1
      <3> r \in Process /\ r.snap = f
        BY <1>1
      <3>2. \E v \in r.snap.secrets[s] : ResealedFrom(r, s, x, v)
        BY ONLY r \in Process, s \in Secret, <3>1, ResealedElement
      <3> QED BY <2>1, <3>2 DEF ResealedFrom
    <2>2. CASE s \notin r.scope
      BY <1>2, <2>2
    <2> QED BY <2>1, <2>2
  <1>5. \A s \in Secret : \A v \in f.secrets[s] : \E x \in g.secrets[s] : From(s, x, v)
    <2> SUFFICES ASSUME NEW s \in Secret, NEW v \in f.secrets[s]
                 PROVE  \E x \in g.secrets[s] : From(s, x, v)
      OBVIOUS
    <2>1. CASE s \in r.scope
      <3>1. g.secrets[s] = Resealed(r, s)
        BY <1>2, <2>1
      <3> r \in Process /\ r.snap = f /\ v \in r.snap.secrets[s]
        BY <1>1
      <3>2. \E x \in Resealed(r, s) : ResealedFrom(r, s, x, v)
        BY ONLY r \in Process, s \in Secret, v \in r.snap.secrets[s], ResealedImage
      <3> QED BY <2>1, <3>1, <3>2 DEF ResealedFrom
    <2>2. CASE s \notin r.scope
      BY <1>2, <2>2
    <2> QED BY <2>1, <2>2
  <1>6. \A s \in Secret : \A v \in f.secrets[s] : \A k \in r.new : v.account # k.account
    <2> SUFFICES ASSUME NEW s \in Secret, NEW v \in f.secrets[s], NEW k \in r.new
                 PROVE  v.account # k.account
      OBVIOUS
    <2>1. v.account \in InUse(f)
      BY InSealing DEF InUse
    <2>2. k.account \in Own(r)
      BY DEF Own, Accounts
    <2> QED BY <1>1, <2>1, <2>2 DEF KeysMade
  <1>7. \A s : \A v : \A k, j \in KeysFor(r, s, v.n) : k = j /\ k \in r.new
    BY <1>1 DEF KeysFor, KeysMade
  \* Two versions of the new file that come from one old one are the same.
  <1>8. ASSUME NEW s \in Secret, NEW x \in g.secrets[s], NEW y \in g.secrets[s],
               NEW v \in f.secrets[s], From(s, x, v), From(s, y, v)
        PROVE  x = y
    <2>1. x \in Version /\ y \in Version
      BY <1>1, <1>2, <1>3, ResealedType
    <2>2. CASE Old(s, x, v) /\ Old(s, y, v)
      BY <2>2
    <2>3. CASE New(s, x, v) /\ New(s, y, v)
      <3>1. PICK k \in KeysFor(r, s, v.n) : x.account = k.account /\ x.bound = TRUE
        BY <2>3
      <3>2. PICK j \in KeysFor(r, s, v.n) : y.account = j.account /\ y.bound = TRUE
        BY <2>3
      <3>3. k = j
        BY <1>7
      <3> QED BY <1>8, <2>1, <3>1, <3>2, <3>3, SameVersion
    <2>4. ~(Old(s, x, v) /\ New(s, y, v)) /\ ~(New(s, x, v) /\ Old(s, y, v))
      OBVIOUS
    <2> QED BY <1>8, <2>2, <2>3, <2>4
  <1>9. Derived(r, f, g)
    <2> SUFFICES ASSUME NEW s \in Secret, NEW x \in g.secrets[s]
                 PROVE  Kept(f, s, x) \/ Made(r, s, x)
      BY DEF Derived
    <2>1. PICK v \in f.secrets[s] : From(s, x, v)
      BY <1>4
    <2> QED BY <2>1 DEF Kept, Made, KeysFor
  <1>10. \A s \in Secret : \A x, y \in g.secrets[s] : x.n = y.n => x = y
    <2> SUFFICES ASSUME NEW s \in Secret, NEW x \in g.secrets[s], NEW y \in g.secrets[s],
                        x.n = y.n
                 PROVE  x = y
      OBVIOUS
    <2>1. PICK v \in f.secrets[s] : From(s, x, v)
      BY <1>4
    <2>2. PICK w \in f.secrets[s] : From(s, y, w)
      BY <1>4
    <2>3. v.n = w.n
      BY <2>1, <2>2
    <2>4. v = w
      BY <1>1, <2>3 DEF OneOwner
    <2> HIDE DEF From
    <2> QED BY <1>8, <2>1, <2>2, <2>4
  <1>11. \A s \in Secret : \A x, y \in g.secrets[s] : Kept(f, s, x) /\ Made(r, s, y) => x.n # y.n
    <2> SUFFICES ASSUME NEW s \in Secret, NEW x \in g.secrets[s], NEW y \in g.secrets[s],
                        Kept(f, s, x), Made(r, s, y), x.n = y.n
                 PROVE  FALSE
      OBVIOUS
    <2>1. x = y
      BY <1>10
    <2> QED BY <1>6, <2>1 DEF Kept, Made
  <1>12. OneOwner(g)
    <2>1. Devices(g) = Devices(f)
      BY <1>2 DEF SameDevices, Devices
    <2> QED BY <1>1, <1>2, <1>9, <1>10, <1>11, <2>1, Owners
  <1>13. Ordered(g)
    <2> SUFFICES ASSUME NEW s \in Secret, NEW z \in g.secrets[s]
                 PROVE  \E x \in g.secrets[s] : Newest(g, s, x)
      BY DEF Ordered
    <2>1. f.secrets[s] # {}
      BY <1>4
    <2>2. PICK v \in f.secrets[s] : Newest(f, s, v)
      BY <1>1, <2>1 DEF Ordered
    <2>3. PICK x \in g.secrets[s] : From(s, x, v)
      BY <1>5
    <2>4. ASSUME NEW y \in g.secrets[s], y # x PROVE y.n < x.n /\ ~y.active
      <3>1. PICK w \in f.secrets[s] : From(s, y, w)
        BY <1>4
      <3>2. w # v
        <4> HIDE DEF From
        <4> QED BY <1>8, <2>3, <2>4, <3>1
      <3>3. w.n < v.n /\ ~w.active
        BY <2>2, <3>2 DEF Newest
      <3> QED BY <2>3, <3>1, <3>3
    <2>5. x.active
      BY <2>2, <2>3 DEF Newest, ActiveVersions
    <2> QED BY <2>4, <2>5 DEF Newest, ActiveVersions
  <1>14. Bound(g)
    <2> SUFFICES ASSUME NEW s \in f.bound \cup r.scope, NEW x \in g.secrets[s] PROVE x.bound
      BY <1>2 DEF Bound
    <2>1. s \in Secret
      BY <1>1 DEF StateFile, Process
    <2>2. PICK v \in f.secrets[s] : From(s, x, v)
      BY <1>4, <2>1
    <2>3. CASE New(s, x, v)
      BY <2>3
    <2>4. CASE Old(s, x, v)
      <3>1. CASE s \in r.scope
        <4>1. v.bound \/ SlotOf(s, v.n) \in Slots(r)
          BY <1>1, <3>1 DEF Reseals
        <4>2. SlotOf(s, v.n) \notin Slots(r)
          BY <2>4, <3>1 DEF Slots, SlotOf, KeysFor
        <4> QED BY <2>4, <4>1, <4>2
      <3>2. CASE s \notin r.scope
        BY <1>1, <2>4, <3>2 DEF Bound
      <3> QED BY <3>1, <3>2
    <2> QED BY <2>2, <2>3, <2>4
  <1>15. r.drop \cap Needed(g) = {}
    <2> SUFFICES ASSUME NEW a \in r.drop, a \in Needed(g) PROVE FALSE
      OBVIOUS
    <2> PICK s \in r.scope :
          \E v \in f.secrets[s] : a = v.account /\ SlotOf(s, v.n) \in Slots(r)
      BY <1>1 DEF Reseals
    <2>1. PICK v \in f.secrets[s] : a = v.account /\ SlotOf(s, v.n) \in Slots(r)
      OBVIOUS
    <2>2. s \in Secret
      BY <1>1 DEF Process
    <2>3. KeysFor(r, s, v.n) # {}
      BY <2>1 DEF Slots, SlotOf, KeysFor
    <2>4. a \notin Devices(f) \cup {f.ledger}
      BY <1>1, <2>1, <2>2 DEF OneOwner
    <2>5. a \in Sealing(g, Secret)
      BY <1>2, <2>4 DEF Needed, SameDevices, Devices
    <2> PICK t \in Secret : \E y \in g.secrets[t] : y.account = a
      BY <2>5, OfSealing
    <2>6. PICK y \in g.secrets[t] : y.account = a
      OBVIOUS
    <2>7. PICK w \in f.secrets[t] : From(t, y, w)
      BY <1>4
    <2>8. ~New(t, y, w)
      <3> SUFFICES ASSUME NEW k \in KeysFor(r, t, w.n), y.account = k.account PROVE FALSE
        OBVIOUS
      <3>1. k \in r.new
        BY DEF KeysFor
      <3>2. v.account # k.account
        BY <1>6, <2>2, <3>1
      <3> QED BY <2>1, <2>6, <3>2
    <2>9. w.account = v.account
      BY <2>1, <2>6, <2>7, <2>8
    <2>10. s = t /\ v = w
      BY <1>1, <2>2, <2>9 DEF OneOwner
    <2> QED BY <2>1, <2>3, <2>7, <2>8, <2>10
  <1> QED BY <1>9, <1>12, <1>13, <1>14, <1>15 DEF g

-----------------------------------------------------------------------------
(* The save.                                                               *)

\* The file g that r makes of f: nothing in it needs a key that is not there,
\* and no key is forgotten.
GoodSave(r, f, g) ==
  /\ OneOwner(g) /\ Ordered(g) /\ Bound(g)
  /\ Needed(g) \subseteq Needed(f) \cup Own(r) \cup {LedgerAccount(r)}
  /\ InUse(g) \subseteq InUse(f) \cup Own(r) \cup {LedgerAccount(r)}
  /\ Referenced(f) \cup Own(r) \cup {LedgerAccount(r)} \subseteq
       Referenced(g) \cup r.drop \cup
         (IF r.cmd = "revoke" THEN RevokedAccounts(f, r.fresh) \ {f.ledger} ELSE {})
  /\ r.drop \cap Needed(g) = {}

LEMMA ReadyFacts ==
  ASSUME NEW r, NEW f, Ready(r, f)
  PROVE  /\ Loaded(r) /\ r \in Process /\ r.snap = f /\ f \in StateFile
         /\ KeysMade(r) /\ Fits(r) /\ OneOwner(f) /\ Ordered(f) /\ Bound(f)
         /\ f.bound \subseteq Secret
         /\ r.cmd # "init" => f.ledger # None /\ LedgerAccount(r) = f.ledger
         /\ r.cmd \notin {"add", "rekey", "bind", "rename"} => Accounts(r) = {}
         /\ r.cmd \notin {"enroll", "settle"} => Own(r) = Accounts(r)
         /\ Own(r) \cap InUse(f) = {}
         /\ r.todo = {}
  BY DEF Ready, Loaded, Process, StateFile, Fits, KeysMade, Initialized, LedgerAccount,
         Accounts, Own

LEMMA InitGood ==
  ASSUME NEW r, NEW n, Ready(r, Absent), r.cmd = "init"
  PROVE  GoodSave(r, Absent, Saved(r, n))
  <1> DEFINE g == Saved(r, n)
  <1>1. /\ g.ledger = r.fresh /\ g.secrets = [s \in Secret |-> {}] /\ g.refs = {}
        /\ g.trusted = {} /\ g.revoked = {} /\ g.bound = {}
    <2>1. Loaded(r)
      BY ReadyFacts
    <2> QED BY <2>1, SavedInit
  <1>2. Own(r) = {} /\ LedgerAccount(r) = r.fresh /\ r.fresh # None /\ r.drop = {}
    BY ReadyFacts DEF LedgerAccount, Loaded, Account, None, Fits
  <1> HIDE DEF g
  <1>3. Sealing(g, Secret) = {}
    BY <1>1 DEF Sealing
  <1>4. OneOwner(g) /\ Ordered(g) /\ Bound(g)
    BY <1>1 DEF OneOwner, Ordered, Bound
  <1>5. Needed(g) = {r.fresh} /\ InUse(g) = {r.fresh} /\ Referenced(g) = {r.fresh}
    BY <1>1, <1>2, <1>3 DEF Needed, InUse, Referenced, Devices
  <1> QED BY <1>2, <1>4, <1>5, AbsentIsSound DEF GoodSave, g

LEMMA DeviceGood ==
  ASSUME NEW r, NEW f, NEW n, Ready(r, f), r.cmd \in {"enroll", "settle"}
  PROVE  GoodSave(r, f, Saved(r, n))
  <1> DEFINE g == Saved(r, n)
  <1>1. /\ r \in Process /\ r.snap = f /\ f \in StateFile /\ f.ledger # None
        /\ OneOwner(f) /\ Ordered(f) /\ Bound(f) /\ f.bound \subseteq Secret
        /\ LedgerAccount(r) = f.ledger /\ Loaded(r)
    BY ReadyFacts
  <1>2. Own(r) = {r.fresh} /\ r.fresh \notin InUse(f) /\ r.drop = {}
    BY ReadyFacts DEF Own, Fits
  <1>3. /\ g.ledger = f.ledger /\ g.secrets = f.secrets /\ g.refs = f.refs \cup {r.fresh}
        /\ g.trusted = f.trusted \cup {r.fresh} /\ g.revoked = f.revoked /\ g.bound = f.bound
    BY <1>1, SavedDevice
  <1> HIDE DEF g
  <1>4. Sealing(g, Secret) = Sealing(f, Secret)
    BY <1>3 DEF Sealing
  <1>5. \A s \in Secret : \A v \in f.secrets[s] : v.account \notin Devices(g) \cup {g.ledger}
    <2> SUFFICES ASSUME NEW s \in Secret, NEW v \in f.secrets[s]
                 PROVE  v.account \notin Devices(f) \cup {r.fresh} \cup {f.ledger}
      BY <1>3 DEF Devices
    <2>1. v.account \in InUse(f)
      BY InSealing DEF InUse
    <2> QED BY <1>1, <1>2, <2>1 DEF OneOwner
  <1>6. OneOwner(g) /\ Ordered(g) /\ Bound(g)
    BY <1>1, <1>3, <1>5, FewerVersions
  <1>7. /\ Needed(g) = Needed(f) \cup {r.fresh} /\ InUse(g) = InUse(f) \cup {r.fresh}
        /\ Referenced(g) = Referenced(f) \cup {r.fresh} /\ f.ledger \in Referenced(f)
    BY <1>1, <1>3, <1>4 DEF Needed, InUse, Referenced, Devices
  <1> QED BY <1>1, <1>2, <1>6, <1>7 DEF GoodSave, g

LEMMA RenewGood ==
  ASSUME NEW r, NEW f, NEW n, Ready(r, f), r.cmd \in {"add", "rekey"}
  PROVE  GoodSave(r, f, Saved(r, n))
  <1> DEFINE g == Saved(r, n)
  <1>1. /\ r \in Process /\ r.snap = f /\ f \in StateFile /\ f.ledger # None
        /\ LedgerAccount(r) = f.ledger /\ Loaded(r) /\ Own(r) = Accounts(r)
    BY ReadyFacts
  <1>2. r.drop = {}
    BY ReadyFacts DEF Fits
  <1>3. /\ g.ledger = r.snap.ledger /\ SameDevices(r.snap, g)
        /\ g.refs = (IF r.cmd = "rm" THEN r.snap.refs \ r.drop ELSE r.snap.refs \cup Accounts(r))
    BY <1>1, SavedSecrets
  <1>4. Derived(r, f, g) /\ OneOwner(g) /\ Ordered(g) /\ Bound(g)
    BY RenewedVersions
  <1> HIDE DEF g
  <1>5. Sealing(g, Secret) \subseteq Sealing(f, Secret) \cup Accounts(r)
    BY <1>4, DerivedSealing
  <1>6. Devices(g) = Devices(f) /\ g.trusted = f.trusted
        /\ Referenced(g) = Referenced(f) \cup Accounts(r) /\ f.ledger \in Referenced(f)
    BY <1>1, <1>3 DEF SameDevices, Devices, Referenced
  <1>7. /\ Needed(g) \subseteq Needed(f) \cup Accounts(r)
        /\ InUse(g) \subseteq InUse(f) \cup Accounts(r)
    BY <1>1, <1>3, <1>5, <1>6 DEF Needed, InUse
  <1> QED BY <1>1, <1>2, <1>4, <1>6, <1>7 DEF GoodSave, g

LEMMA ResealGood ==
  ASSUME NEW r, NEW f, NEW n, Ready(r, f), r.cmd \in {"bind", "rename"}
  PROVE  GoodSave(r, f, Saved(r, n))
  <1> DEFINE g == Saved(r, n)
  <1>1. /\ r \in Process /\ r.snap = f /\ f \in StateFile /\ f.ledger # None
        /\ LedgerAccount(r) = f.ledger /\ Loaded(r) /\ Own(r) = Accounts(r)
    BY ReadyFacts
  <1>2. /\ g.ledger = r.snap.ledger /\ SameDevices(r.snap, g)
        /\ g.refs = (r.snap.refs \ r.drop) \cup Accounts(r)
    BY <1>1, SavedBound
  <1>3. /\ Derived(r, f, g) /\ OneOwner(g) /\ Ordered(g) /\ Bound(g)
        /\ r.drop \cap Needed(g) = {}
    BY ResealedVersions
  <1> HIDE DEF g
  <1>4. Sealing(g, Secret) \subseteq Sealing(f, Secret) \cup Accounts(r)
    BY <1>3, DerivedSealing
  <1>5. /\ Devices(g) = Devices(f) /\ g.trusted = f.trusted
        /\ Referenced(g) \subseteq Referenced(f) \cup Accounts(r)
        /\ Referenced(f) \cup Accounts(r) \cup {f.ledger} \subseteq Referenced(g) \cup r.drop
    BY <1>1, <1>2 DEF SameDevices, Devices, Referenced
  <1>6. /\ Needed(g) \subseteq Needed(f) \cup Accounts(r)
        /\ InUse(g) \subseteq InUse(f) \cup Accounts(r)
    BY <1>1, <1>2, <1>4, <1>5 DEF Needed, InUse
  <1> QED BY <1>1, <1>3, <1>5, <1>6 DEF GoodSave, g

LEMMA RemoveGood ==
  ASSUME NEW r, NEW f, NEW n, Ready(r, f), r.cmd = "rm"
  PROVE  GoodSave(r, f, Saved(r, n))
  <1> DEFINE g == Saved(r, n)
  <1>1. /\ r \in Process /\ r.snap = f /\ f \in StateFile /\ f.ledger # None
        /\ OneOwner(f) /\ Ordered(f) /\ Bound(f) /\ f.bound \subseteq Secret
        /\ LedgerAccount(r) = f.ledger /\ Loaded(r) /\ Own(r) = {}
    BY ReadyFacts
  <1>2. PICK s \in Secret : r.scope = {s} /\ r.drop = Sealing(f, {s})
    BY <1>1, ReadyFacts DEF Fits, Removes
  <1>3. /\ g.ledger = r.snap.ledger /\ SameDevices(r.snap, g) /\ g.bound = r.snap.bound
        /\ g.refs = (IF r.cmd = "rm" THEN r.snap.refs \ r.drop ELSE r.snap.refs \cup Accounts(r))
        /\ g.secrets = [t \in Secret |->
                          IF t \in r.scope THEN IF r.cmd = "rm" THEN {} ELSE Rotated(r, t)
                          ELSE r.snap.secrets[t]]
    BY <1>1, SavedSecrets
  <1> HIDE DEF g
  <1>4. \A t \in Secret : g.secrets[t] = IF t = s THEN {} ELSE f.secrets[t]
    BY <1>1, <1>2, <1>3
  <1>5. Sealing(g, Secret) \subseteq Sealing(f, Secret)
    BY <1>4 DEF Sealing
  <1>6. /\ Devices(g) = Devices(f) /\ g.trusted = f.trusted
        /\ Referenced(g) \subseteq Referenced(f)
        /\ Referenced(f) \cup {f.ledger} \subseteq Referenced(g) \cup r.drop
    BY <1>1, <1>3 DEF SameDevices, Devices, Referenced
  <1>7. OneOwner(g) /\ Ordered(g) /\ Bound(g)
    <2>1. \A t \in Secret : \A v \in f.secrets[t] : v.account \notin Devices(g) \cup {g.ledger}
      BY <1>1, <1>3, <1>6 DEF OneOwner
    <2>2. \A t \in Secret : g.secrets[t] \in {f.secrets[t], {}}
      BY <1>4
    <2> QED BY <1>1, <1>3, <2>1, <2>2, FewerVersions
  <1>8. Needed(g) \subseteq Needed(f) /\ InUse(g) \subseteq InUse(f)
    BY <1>1, <1>3, <1>5, <1>6 DEF Needed, InUse
  <1>9. r.drop \cap Needed(g) = {}
    <2> SUFFICES ASSUME NEW a \in Sealing(f, {s}), a \in Needed(g) PROVE FALSE
      BY <1>2
    <2>1. PICK v \in f.secrets[s] : v.account = a
      BY OfSealing
    <2>2. a \notin Devices(f) \cup {f.ledger}
      BY <1>1, <2>1 DEF OneOwner
    <2>3. a \in Sealing(g, Secret)
      BY <1>1, <1>3, <1>6, <2>2 DEF Needed, Devices
    <2> PICK t \in Secret : \E w \in g.secrets[t] : w.account = a
      BY <2>3, OfSealing
    <2>4. PICK w \in g.secrets[t] : w.account = a
      OBVIOUS
    <2>5. t # s /\ w \in f.secrets[t]
      BY <1>4
    <2>6. w.account = v.account => t = s
      BY <1>1, <2>5 DEF OneOwner
    <2> QED BY <2>1, <2>4, <2>5, <2>6
  <1> QED BY <1>1, <1>6, <1>7, <1>8, <1>9 DEF GoodSave, g

LEMMA RevokeGood ==
  ASSUME NEW r, NEW f, NEW n, Ready(r, f), r.cmd = "revoke"
  PROVE  GoodSave(r, f, Saved(r, n))
  <1> DEFINE g == Saved(r, n)
             lost == RevokedAccounts(f, r.fresh)
  <1>1. /\ r \in Process /\ r.snap = f /\ f \in StateFile /\ f.ledger # None
        /\ OneOwner(f) /\ Ordered(f) /\ Bound(f) /\ f.bound \subseteq Secret
        /\ LedgerAccount(r) = f.ledger /\ Loaded(r) /\ Own(r) = {}
    BY ReadyFacts
  <1>2. r.fresh \in Devices(f) /\ r.drop = {}
    BY <1>1, ReadyFacts DEF Fits, Revokes, Ready
  <1>3. /\ g.ledger = f.ledger /\ g.secrets = f.secrets /\ g.bound = f.bound
        /\ g.trusted = f.trusted \ {r.fresh} /\ g.revoked = f.revoked \cup {r.fresh}
        /\ g.refs = f.refs \ lost
    BY <1>1, SavedRevoke
  <1> HIDE DEF g, lost
  <1>4. Devices(g) = Devices(f)
    BY <1>2, <1>3 DEF Devices
  <1>5. Sealing(g, Secret) = Sealing(f, Secret)
    BY <1>3 DEF Sealing
  <1>6. OneOwner(g) /\ Ordered(g) /\ Bound(g)
    <2>1. \A s \in Secret : \A v \in f.secrets[s] : v.account \notin Devices(g) \cup {g.ledger}
      BY <1>1, <1>3, <1>4 DEF OneOwner
    <2> QED BY <1>1, <1>3, <2>1, FewerVersions
  <1>7. /\ Referenced(g) \subseteq Referenced(f)
        /\ Referenced(f) \cup {f.ledger} \subseteq Referenced(g) \cup (lost \ {f.ledger})
    BY <1>1, <1>3 DEF Referenced
  <1>8. Needed(g) \subseteq Needed(f) /\ InUse(g) \subseteq InUse(f)
    BY <1>3, <1>4, <1>5, <1>7 DEF Needed, InUse
  <1> QED BY <1>1, <1>2, <1>6, <1>7, <1>8 DEF GoodSave, g, lost

LEMMA AuditGood ==
  ASSUME NEW r, NEW f, NEW n, Ready(r, f), r.cmd = "audit"
  PROVE  GoodSave(r, f, Saved(r, n))
  <1> DEFINE g == Saved(r, n)
  <1>1. /\ r \in Process /\ r.snap = f /\ f \in StateFile /\ f.ledger # None
        /\ OneOwner(f) /\ Ordered(f) /\ Bound(f) /\ f.bound \subseteq Secret
        /\ LedgerAccount(r) = f.ledger /\ Loaded(r) /\ Own(r) = {}
    BY ReadyFacts
  <1>2. r.drop = {}
    BY ReadyFacts DEF Fits
  <1>3. /\ g.ledger = f.ledger /\ g.secrets = f.secrets /\ g.bound = f.bound
        /\ SameDevices(f, g) /\ g.refs = f.refs
    BY <1>1, SavedAudit
  <1> HIDE DEF g
  <1>4. /\ Devices(g) = Devices(f) /\ Referenced(g) = Referenced(f)
        /\ Sealing(g, Secret) = Sealing(f, Secret) /\ g.trusted = f.trusted
        /\ f.ledger \in Referenced(f)
    BY <1>1, <1>3 DEF SameDevices, Devices, Referenced, Sealing
  <1>5. OneOwner(g) /\ Ordered(g) /\ Bound(g)
    <2>1. \A s \in Secret : \A v \in f.secrets[s] : v.account \notin Devices(g) \cup {g.ledger}
      BY <1>1, <1>3, <1>4 DEF OneOwner
    <2> QED BY <1>1, <1>3, <2>1, FewerVersions
  <1>6. Needed(g) = Needed(f) /\ InUse(g) = InUse(f)
    BY <1>3, <1>4 DEF Needed, InUse
  <1> QED BY <1>1, <1>2, <1>4, <1>5, <1>6 DEF GoodSave, g

LEMMA SaveIsGood ==
  ASSUME NEW r, NEW f, NEW n, Ready(r, f), r.cmd = "init" => f = Absent
  PROVE  GoodSave(r, f, Saved(r, n))
  <1>1. r.cmd \in Command \ {"none", "wipe"}
    BY ReadyFacts DEF Process, Fits
  <1> QED BY <1>1, InitGood, DeviceGood, RenewGood, ResealGood, RemoveGood, RevokeGood,
             AuditGood DEF Command

\* What p has loaded when it writes.
LEMMA Writing ==
  ASSUME KInv, NEW p \in Proc, Write(p)
  PROVE  /\ Ready(proc[p], disk)
         /\ lock = p /\ proc[p].snap = disk
         /\ proc[p].cmd = "init" => disk = Absent /\ drawn + 1 \in Account
         /\ disk' = Saved(proc[p], clock + 1)
         /\ Stored(proc[p], keystore, drawn) /\ Keyed(proc[p], disk, keystore, cleared)
         /\ Deleted(proc[p], disk, keystore, leaked)
         /\ disk' \in StateFile
  <1> DEFINE r == proc[p]
  <1>1. r.phase = "writing" /\ disk' = Saved(r, clock + 1)
    BY DEF Write, Saved
  <1>2. Works(r) /\ NeedsLock(r)
    BY <1>1 DEF Works, NeedsLock
  <1>3. /\ r \in Process /\ lock = p /\ r.snap = disk /\ KeysMade(r) /\ Fits(r)
        /\ Stored(r, keystore, drawn) /\ Keyed(r, disk, keystore, cleared)
        /\ Deleted(r, disk, keystore, leaked) /\ PlannedAt(r, drawn) /\ drawn \in Nat
    BY <1>2, Working
  <1>4. Loaded(r)
    BY <1>1, <1>3 DEF PlannedAt, Loaded
  <1>5. Ready(r, disk)
    BY <1>1, <1>3, <1>4, OfOneKeys DEF Ready, FileSound
  <1>6. r.cmd = "init" => disk = Absent /\ drawn + 1 \in Account
    <2>1. WellFormed(disk)
      BY <1>3, OfOneKeys, OfOne
    <2>2. r.cmd = "init" => disk.ledger = None /\ drawn < MaxAccount
      BY <1>1, <1>3 DEF PlannedAt, Initialized
    <2>3. r.cmd = "init" => drawn + 1 \in Account
      BY <1>3, <2>2, ConstantsAssumption DEF Account
    <2> QED BY <2>1, <2>2, <2>3 DEF WellFormed
  <1>7. disk' \in StateFile
    BY OfOneKeys, WrittenFile
  <1> QED BY <1>1, <1>3, <1>5, <1>6, <1>7

LEMMA WriteKeepsKeys ==
  ASSUME KInv, IInv', NEW p \in Proc, Write(p)
  PROVE  KInv'
  <1> DEFINE r == proc[p]
             f == disk
             g == disk'
             a == LedgerAccount(r)
             s == AfterSave(r)
             q == [s EXCEPT !.snap = g, !.made = {}]
  <1>1. /\ r.phase = "writing" /\ proc' = [proc EXCEPT ![p] = q]
        /\ drawn' = (IF r.cmd = "init" THEN drawn + 1 ELSE drawn)
        /\ UNCHANGED <<keystore, cleared, leaked>>
    BY DEF Write
  <1>2. /\ Ready(r, f) /\ lock = p /\ GoodSave(r, f, g)
        /\ r.cmd = "init" => f = Absent /\ drawn + 1 \in Account
        /\ Stored(r, keystore, drawn) /\ Keyed(r, f, keystore, cleared)
        /\ Deleted(r, f, keystore, leaked) /\ g \in StateFile
    BY Writing, SaveIsGood
  <1>3. /\ r \in Process /\ r.snap = f /\ f \in StateFile /\ KeysMade(r) /\ Fits(r)
        /\ r.cmd # "init" => f.ledger # None /\ a = f.ledger
        /\ r.cmd \notin {"add", "rekey", "bind", "rename"} => Accounts(r) = {}
        /\ Loaded(r)
    BY <1>2, ReadyFacts
  <1>4. drawn \in Nat /\ drawn' \in Nat /\ drawn <= drawn'
    BY <1>1, OfOneKeys
  <1> HIDE DEF g
  \* The keys of the new file are there.
  <1>5. a \in keystore /\ Own(r) \subseteq keystore
    BY <1>1, <1>2, <1>3 DEF Keyed, Stored, Own
  <1>6. Needed(g) \subseteq keystore' \cup cleared'
    BY <1>1, <1>2, <1>5, OfOneKeys DEF GoodSave
  <1>7. FileSound(g, drawn')
    <2>1. \A b \in Own(r) : b <= drawn
      BY <1>2 DEF Stored, Own
    <2>2. a <= drawn /\ a \in Nat
      <3>1. CASE r.cmd = "init"
        BY <1>2, <1>3, <3>1 DEF LedgerAccount, Stored, Loaded, Account
      <3>2. CASE r.cmd # "init"
        <4>1. a \in InUse(f)
          BY <1>3, <3>2, UseTypes
        <4> QED BY <4>1, OfOneKeys, UseTypes DEF FileSound, Account
      <3> QED BY <3>1, <3>2
    <2>3. \A b \in InUse(g) : b \in Nat /\ b <= drawn
      <3>1. \A b \in InUse(g) : b \in Nat
        BY <1>2, UseTypes DEF Account
      <3> QED BY <1>2, <2>1, <2>2, <3>1, OfOneKeys DEF GoodSave, FileSound
    <2>4. FileSound(g, drawn)
      BY <1>2, <2>3 DEF GoodSave, FileSound
    <2> QED BY <1>2, <1>4, <2>4, SoundLater
  \* The command goes on with the device of a new vault, to delete what it
  \* replaced, or ends.
  <1>8. CASE r.cmd = "init"
    <2>1. s = [r EXCEPT !.phase = "storing", !.cmd = "settle", !.fresh = drawn + 1]
      BY <1>8 DEF AfterSave
    <2> HIDE DEF s
    <2>2. /\ s \in Process /\ s.phase = "storing" /\ s.cmd = "settle" /\ s.fresh = drawn + 1
          /\ s.todo = r.todo /\ s.new = r.new /\ s.drop = r.drop
      BY <1>2, <1>3, <1>8, <2>1 DEF Process, Phase, Command
    <2>3. /\ q.phase = "storing" /\ q.cmd = "settle" /\ q.fresh = drawn + 1 /\ q.snap = g
          /\ q.made = {} /\ q.todo = r.todo /\ q.new = r.new /\ q.drop = r.drop
      BY <2>2 DEF Process
    <2> HIDE DEF q
    <2>4. r.todo = {} /\ r.new = {} /\ r.drop = {} /\ Own(r) = {}
      BY <1>3, <1>8 DEF Fits, Own
    <2>5. Fits(q) /\ Deleted(q, g, keystore, leaked)
      BY <2>3, <2>4 DEF Fits, Deleted
    <2>6. q.fresh \notin InUse(q.snap)
      <3>1. InUse(g) \subseteq {a} /\ a = r.fresh /\ r.fresh <= drawn /\ r.fresh \in Nat
        BY <1>2, <1>3, <1>8, <2>4, AbsentIsSound
           DEF GoodSave, LedgerAccount, Stored, Loaded, Account
      <3> QED BY <1>4, <2>3, <3>1
    <2>7. InMemory(q) /\ InStores(q, g, keystore, cleared, leaked, drawn')
      BY <1>1, <1>4, <1>8, <2>3, <2>4, <2>5, <2>6, FreshPlan
    <2>8. keystore' \subseteq Referenced(g) \cup leaked' \cup Held(q) \cup Others(p)
      <3>1. Held(r) \subseteq {a}
        BY <1>1, <1>3, <2>4 DEF Held, KeysMade
      <3>2. Referenced(f) = {} /\ a \in Referenced(g)
        BY <1>2, <1>8, <2>4, AbsentIsSound DEF GoodSave
      <3> QED BY <1>1, <3>1, <3>2, KeysAreKnown
    <2> QED BY <1>1, <1>2, <1>6, <1>7, <2>7, <2>8, LockedKeys DEF g
  <1>9. CASE r.cmd # "init"
    <2> DEFINE phase == IF r.drop = {} THEN "closing" ELSE "sweeping"
    <2>1. s = [r EXCEPT !.phase = phase]
      BY <1>9 DEF AfterSave
    <2>2. phase \in {"closing", "sweeping"}
      OBVIOUS
    <2>3. s \in Process /\ s.phase = phase /\ s.cmd = r.cmd /\ s.drop = r.drop
      <3> HIDE DEF phase, s
      <3> QED BY <1>3, <2>1, <2>2 DEF Process, Phase
    <2> HIDE DEF s
    <2>4. q.phase = phase /\ q.cmd = r.cmd /\ q.drop = r.drop /\ q.made = {}
      BY <2>3 DEF Process
    <2> HIDE DEF q
    <2>5. Held(q) = r.drop
      BY <2>4 DEF Held
    <2>6. q.phase = "sweeping" => Lifecycle(q.cmd)
      BY <1>3, <2>4 DEF Fits, Lifecycle
    <2>7. InMemory(q)
      BY <2>2, <2>4, <2>6 DEF InMemory, Works
    <2>8. InStores(q, g, keystore, cleared, leaked, drawn')
      <3>1. r.drop \cap Needed(g) = {}
        BY <1>2 DEF GoodSave
      <3> QED BY <2>2, <2>4, <3>1 DEF InStores, Works, Deletes
    <2>9. keystore' \subseteq Referenced(g) \cup leaked' \cup Held(q) \cup Others(p)
      <3> DEFINE lost == IF r.cmd = "revoke" THEN RevokedAccounts(f, r.fresh) \ {f.ledger} ELSE {}
      <3>1. lost \cap keystore \subseteq leaked \cup r.drop
        BY <1>2, <1>3 DEF Deleted
      <3>2. Held(r) \subseteq Own(r) \cup {a}
        BY <1>1, <1>3 DEF Held, KeysMade
      <3>3. Referenced(f) \cup Own(r) \cup {a} \subseteq Referenced(g) \cup r.drop \cup lost
        BY <1>2 DEF GoodSave
      <3> HIDE DEF lost
      <3> QED BY <1>1, <2>5, <3>1, <3>2, <3>3, KeysAreKnown
    <2> QED BY <1>1, <1>2, <1>6, <1>7, <2>7, <2>8, <2>9, LockedKeys DEF g
  <1> QED BY <1>8, <1>9

-----------------------------------------------------------------------------
(* Theorems.                                                               *)

LEMMA NextKeepsKeys == KInv /\ [Next]_vars => KInv'
  <1> SUFFICES ASSUME KInv, [Next]_vars PROVE KInv'
    OBVIOUS
  <1>1. IInv'
    BY NextKeeps DEF KInv
  <1>2. CASE UNCHANGED vars
    <2>1. UNCHANGED <<disk, keystore, proc, drawn, cleared, leaked>>
      BY <1>2 DEF vars
    <2> QED BY <1>1, <2>1 DEF KInv
  <1>3. ASSUME NEW p \in Proc, NEW c \in Commands, Start(p, c) PROVE KInv'
    BY <1>1, <1>3, StartKeepsKeys
  <1>4. ASSUME NEW p \in Proc, Step(p) PROVE KInv'
    BY <1>1, <1>4, OpenKeepsKeys, RefuseKeepsKeys, PlanKeepsKeys, StoreDeviceKeepsKeys,
       StoreDataKeepsKeys, StoreFailsKeepsKeys, ClearKeepsKeys, CheckKeepsKeys,
       FailedSaveKeepsKeys, KeyLedgerKeepsKeys, WriteKeepsKeys, SweepKeepsKeys,
       UndoKeepsKeys, RemovalKeepsKeys, EndKeepsKeys DEF Step
  <1>5. ASSUME NEW p \in Proc, Crash(p) PROVE KInv'
    BY <1>1, <1>5, EndKeepsKeys
  <1> QED BY <1>2, <1>3, <1>4, <1>5 DEF Next

LEMMA InitEstablishesKeys == Init => KInv
  <1> SUFFICES ASSUME Init PROVE KInv
    OBVIOUS
  <1>1. IInv
    BY InitEstablishes
  <1>2. disk = Absent /\ keystore = {} /\ \A p \in Proc : proc[p] = Idle
    BY DEF Init
  <1>3. FileSound(disk, drawn) /\ Needed(disk) = {}
    BY <1>2, AbsentIsSound
  <1>4. InMemory(Idle) /\ Rests(Idle)
    BY DEF InMemory, Works, Rests, Idle
  <1> QED BY <1>1, <1>2, <1>3, <1>4, RestIsEasy DEF KInv

\* The invariant of the two stores together, at every step of every command.
THEOREM KeysInvariance == Spec => []KInv
  <1> QED BY InitEstablishesKeys, NextKeepsKeys, PTL DEF Spec

\* Whatever the state file points at can be read, unless its key was destroyed
\* on purpose: keys are stored before the save and deleted after it, and no
\* crash, failure or other process comes between.
THEOREM NothingUnreadable == Spec => []KeysBacked
  <1>1. KInv => KeysBacked
    BY DEF KInv, KeysBacked, Needed
  <1> QED BY <1>1, KeysInvariance, PTL

\* Every key in the keystore is one the state file refers to, one a running
\* command will keep or delete, or one that a fault has left behind.
THEOREM NothingForgotten == Spec => []NoOrphanKeys
  <1>1. KInv => NoOrphanKeys
    BY DEF KInv, NoOrphanKeys, Known, Held
  <1> QED BY <1>1, KeysInvariance, PTL

\* A secret has one active version, its newest, and a bound workspace has no
\* version sealed for the local vault.
THEOREM VersionsStaySound == Spec => []VersionsSound
  <1>1. KInv => VersionsSound
    BY DEF KInv, FileSound, Ordered, Bound, Newest, VersionsSound
  <1> QED BY <1>1, KeysInvariance, PTL

-----------------------------------------------------------------------------
(* The atomic vault.                                                       *)

AbstractVersion == [n: Nat \ {0}, active: BOOLEAN, bound: BOOLEAN]

AbstractVault ==
  [exists: BOOLEAN, secrets: [Secret -> SUBSET AbstractVersion],
   trusted: SUBSET Account, revoked: SUBSET Account, local: Account \cup {None},
   bound: SUBSET Secret, events: Nat]

LEMMA SameVault ==
  ASSUME NEW c \in AbstractVault, NEW w \in AbstractVault,
         c.exists = w.exists, c.secrets = w.secrets, c.trusted = w.trusted,
         c.revoked = w.revoked, c.local = w.local, c.bound = w.bound, c.events = w.events
  PROVE  c = w
  BY DEF AbstractVault

\* The ways a command changes a vault.
EnrollIn(c, d) ==
  [c EXCEPT !.trusted = @ \cup {d}, !.local = d, !.events = @ + 1]
RenewIn(c, next, events) == [c EXCEPT !.secrets = next, !.events = events]
SealIn(c, next, bound, events) ==
  [c EXCEPT !.secrets = next, !.bound = bound, !.events = events]
RemoveIn(c, s) == [c EXCEPT !.secrets[s] = {}, !.events = @ + 1]
RevokeIn(c, d, k) ==
  [c EXCEPT !.trusted = @ \ {d}, !.revoked = @ \cup {d}, !.events = @ + k]
RecordIn(c) == [c EXCEPT !.events = @ + 1]

\* The same as equations of the fields.
LEMMA EnrolledVault ==
  ASSUME NEW c \in AbstractVault, NEW w \in AbstractVault, NEW d,
         w.exists = c.exists, w.secrets = c.secrets, w.trusted = c.trusted \cup {d},
         w.revoked = c.revoked, w.local = d, w.bound = c.bound, w.events = c.events + 1
  PROVE  w = EnrollIn(c, d)
  <1> DEFINE u == [c EXCEPT !.trusted = @ \cup {d}, !.local = d, !.events = @ + 1]
  <1>1. c.trusted \cup {d} \in SUBSET Account /\ d \in Account \cup {None} /\ c.events + 1 \in Nat
    BY DEF AbstractVault
  <1>2. /\ u \in AbstractVault
        /\ u.exists = c.exists /\ u.secrets = c.secrets /\ u.trusted = c.trusted \cup {d}
        /\ u.revoked = c.revoked /\ u.local = d /\ u.bound = c.bound /\ u.events = c.events + 1
    BY <1>1 DEF AbstractVault
  <1> HIDE DEF u
  <1>3. u = w
    BY <1>2, SameVault
  <1> QED BY <1>3 DEF u, EnrollIn

LEMMA RenewedVault ==
  ASSUME NEW c \in AbstractVault, NEW w \in AbstractVault, NEW next, NEW events,
         w.exists = c.exists, w.secrets = next, w.trusted = c.trusted,
         w.revoked = c.revoked, w.local = c.local, w.bound = c.bound, w.events = events
  PROVE  w = RenewIn(c, next, events)
  <1> DEFINE u == [c EXCEPT !.secrets = next, !.events = events]
  <1>1. next \in [Secret -> SUBSET AbstractVersion] /\ events \in Nat
    BY DEF AbstractVault
  <1>2. /\ u \in AbstractVault
        /\ u.exists = c.exists /\ u.secrets = next /\ u.trusted = c.trusted
        /\ u.revoked = c.revoked /\ u.local = c.local /\ u.bound = c.bound /\ u.events = events
    BY <1>1 DEF AbstractVault
  <1> HIDE DEF u
  <1>3. u = w
    BY <1>2, SameVault
  <1> QED BY <1>3 DEF u, RenewIn

LEMMA SealedVault ==
  ASSUME NEW c \in AbstractVault, NEW w \in AbstractVault, NEW next, NEW bound, NEW events,
         w.exists = c.exists, w.secrets = next, w.trusted = c.trusted,
         w.revoked = c.revoked, w.local = c.local, w.bound = bound, w.events = events
  PROVE  w = SealIn(c, next, bound, events)
  <1> DEFINE u == [c EXCEPT !.secrets = next, !.bound = bound, !.events = events]
  <1>1. /\ next \in [Secret -> SUBSET AbstractVersion] /\ bound \in SUBSET Secret
        /\ events \in Nat
    BY DEF AbstractVault
  <1>2. /\ u \in AbstractVault
        /\ u.exists = c.exists /\ u.secrets = next /\ u.trusted = c.trusted
        /\ u.revoked = c.revoked /\ u.local = c.local /\ u.bound = bound /\ u.events = events
    BY <1>1 DEF AbstractVault
  <1> HIDE DEF u
  <1>3. u = w
    BY <1>2, SameVault
  <1> QED BY <1>3 DEF u, SealIn

LEMMA RemovedVault ==
  ASSUME NEW c \in AbstractVault, NEW w \in AbstractVault, NEW s \in Secret,
         w.exists = c.exists, w.secrets = [c.secrets EXCEPT ![s] = {}], w.trusted = c.trusted,
         w.revoked = c.revoked, w.local = c.local, w.bound = c.bound, w.events = c.events + 1
  PROVE  w = RemoveIn(c, s)
  <1> DEFINE u == [c EXCEPT !.secrets[s] = {}, !.events = @ + 1]
  <1>1. /\ u \in AbstractVault
        /\ u.exists = c.exists /\ u.secrets = [c.secrets EXCEPT ![s] = {}]
        /\ u.trusted = c.trusted /\ u.revoked = c.revoked /\ u.local = c.local
        /\ u.bound = c.bound /\ u.events = c.events + 1
    BY DEF AbstractVault
  <1> HIDE DEF u
  <1>2. u = w
    BY <1>1, SameVault
  <1> QED BY <1>2 DEF u, RemoveIn

LEMMA RevokedVault ==
  ASSUME NEW c \in AbstractVault, NEW w \in AbstractVault, NEW d \in Account, NEW k \in Nat,
         w.exists = c.exists, w.secrets = c.secrets, w.trusted = c.trusted \ {d},
         w.revoked = c.revoked \cup {d}, w.local = c.local, w.bound = c.bound,
         w.events = c.events + k
  PROVE  w = RevokeIn(c, d, k)
  <1> DEFINE u == [c EXCEPT !.trusted = @ \ {d}, !.revoked = @ \cup {d}, !.events = @ + k]
  <1>1. /\ c.trusted \ {d} \in SUBSET Account /\ c.revoked \cup {d} \in SUBSET Account
        /\ c.events + k \in Nat
    BY DEF AbstractVault
  <1>2. /\ u \in AbstractVault
        /\ u.exists = c.exists /\ u.secrets = c.secrets /\ u.trusted = c.trusted \ {d}
        /\ u.revoked = c.revoked \cup {d} /\ u.local = c.local /\ u.bound = c.bound
        /\ u.events = c.events + k
    BY <1>1 DEF AbstractVault
  <1> HIDE DEF u
  <1>3. u = w
    BY <1>2, SameVault
  <1> QED BY <1>3 DEF u, RevokeIn

LEMMA RecordedVault ==
  ASSUME NEW c \in AbstractVault, NEW w \in AbstractVault,
         w.exists = c.exists, w.secrets = c.secrets, w.trusted = c.trusted,
         w.revoked = c.revoked, w.local = c.local, w.bound = c.bound, w.events = c.events + 1
  PROVE  w = RecordIn(c)
  <1> DEFINE u == [c EXCEPT !.events = @ + 1]
  <1>1. /\ u \in AbstractVault
        /\ u.exists = c.exists /\ u.secrets = c.secrets /\ u.trusted = c.trusted
        /\ u.revoked = c.revoked /\ u.local = c.local /\ u.bound = c.bound
        /\ u.events = c.events + 1
    BY DEF AbstractVault
  <1> HIDE DEF u
  <1>2. u = w
    BY <1>1, SameVault
  <1> QED BY <1>2 DEF u, RecordIn

-----------------------------------------------------------------------------
(* What a state file looks like from outside.                              *)

Bare(v) == [n |-> v.n, active |-> v.active, bound |-> v.bound]
BareVersions(f) == [s \in Secret |-> {Bare(v) : v \in f.secrets[s]}]

\* A version that a newer one replaces, and one that is sealed again.
Staled(v) == [v EXCEPT !.active = FALSE]
Bonded(v) == [v EXCEPT !.bound = TRUE]
StaleBare(v) == [n |-> v.n, active |-> FALSE, bound |-> v.bound]
BondedBare(v) == [n |-> v.n, active |-> v.active, bound |-> TRUE]

LEMMA ChangedBare ==
  ASSUME NEW v
  PROVE  Staled(Bare(v)) = StaleBare(v) /\ Bonded(Bare(v)) = BondedBare(v)
  <1>1. ASSUME NEW x
        PROVE  /\ [Bare(v) EXCEPT !.active = x] = [n |-> v.n, active |-> x, bound |-> v.bound]
               /\ [Bare(v) EXCEPT !.bound = x] = [n |-> v.n, active |-> v.active, bound |-> x]
    BY DEF Bare
  <1> QED BY <1>1 DEF Staled, Bonded, StaleBare, BondedBare

LEMMA BareFields ==
  ASSUME NEW v
  PROVE  Bare(v).n = v.n /\ Bare(v).active = v.active /\ Bare(v).bound = v.bound
  BY DEF Bare

LEMMA ContentsFields ==
  ASSUME NEW f
  PROVE  /\ Contents(f).exists = (f.ledger # None)
         /\ Contents(f).secrets = BareVersions(f)
         /\ Contents(f).trusted = f.trusted /\ Contents(f).revoked = f.revoked
         /\ Contents(f).local = f.local /\ Contents(f).bound = f.bound
         /\ Contents(f).events = f.events
  BY DEF Contents, Initialized, Bare, BareVersions

LEMMA BareSecrets ==
  ASSUME NEW f, NEW s \in Secret
  PROVE  Contents(f).secrets[s] = {Bare(v) : v \in f.secrets[s]}
  <1>1. BareVersions(f)[s] = {Bare(v) : v \in f.secrets[s]}
    BY DEF BareVersions
  <1>2. Contents(f).secrets = BareVersions(f)
    BY ContentsFields
  <1> QED BY <1>1, <1>2

LEMMA BareType ==
  ASSUME NEW f \in StateFile
  PROVE  BareVersions(f) \in [Secret -> SUBSET AbstractVersion]
  <1>1. ASSUME NEW s \in Secret, NEW v \in f.secrets[s] PROVE Bare(v) \in AbstractVersion
    <2>1. v \in Version
      BY DEF StateFile
    <2> QED BY <2>1 DEF Version, Bare, AbstractVersion
  <1> QED BY <1>1 DEF BareVersions

LEMMA ContentsType ==
  ASSUME NEW f \in StateFile
  PROVE  Contents(f) \in AbstractVault
  <1>1. BareVersions(f) \in [Secret -> SUBSET AbstractVersion]
    BY BareType
  <1>2. /\ (f.ledger # None) \in BOOLEAN /\ f.trusted \in SUBSET Account
        /\ f.revoked \in SUBSET Account /\ f.local \in Account \cup {None}
        /\ f.bound \in SUBSET Secret /\ f.events \in Nat
    BY DEF StateFile
  <1>3. Contents(f) = [exists |-> f.ledger # None, secrets |-> BareVersions(f),
                       trusted |-> f.trusted, revoked |-> f.revoked, local |-> f.local,
                       bound |-> f.bound, events |-> f.events]
    BY DEF Contents, Initialized, Bare, BareVersions
  <1> QED BY <1>1, <1>2, <1>3 DEF AbstractVault

LEMMA NoVaultFields ==
  LET v == Vault!NoVault IN
  /\ v \in AbstractVault
  /\ v.exists = FALSE /\ v.secrets = [s \in Secret |-> {}] /\ v.trusted = {}
  /\ v.revoked = {} /\ v.local = None /\ v.bound = {} /\ v.events = 0
  BY DEF Vault!NoVault, AbstractVault

LEMMA NothingIsNoVault == Contents(Absent) = Vault!NoVault
  <1>1. BareVersions(Absent) = [s \in Secret |-> {}]
    BY DEF BareVersions, Absent
  <1>2. /\ Absent.ledger = None /\ Absent.trusted = {} /\ Absent.revoked = {}
        /\ Absent.local = None /\ Absent.bound = {} /\ Absent.events = 0
    BY DEF Absent
  <1> DEFINE c == Contents(Absent)
             v == Vault!NoVault
  <1>3. /\ c \in AbstractVault
        /\ c.exists = FALSE /\ c.secrets = [s \in Secret |-> {}] /\ c.trusted = {}
        /\ c.revoked = {} /\ c.local = None /\ c.bound = {} /\ c.events = 0
    BY <1>1, <1>2, AbsentType, ContentsType, ContentsFields
  <1>4. /\ v \in AbstractVault
        /\ v.exists = FALSE /\ v.secrets = [s \in Secret |-> {}] /\ v.trusted = {}
        /\ v.revoked = {} /\ v.local = None /\ v.bound = {} /\ v.events = 0
    BY NoVaultFields
  <1> HIDE DEF c, v
  <1>5. c = v
    BY <1>3, <1>4, SameVault
  <1> QED BY <1>5 DEF c, v

LEMMA SameActive ==
  ASSUME NEW s \in Secret
  PROVE  Vault!Active(s) = {} <=> ActiveVersions(disk, s) = {}
  <1>1. Contents(disk).secrets[s] = {Bare(v) : v \in disk.secrets[s]}
    BY BareSecrets
  <1>2. ASSUME NEW v \in ActiveVersions(disk, s) PROVE Bare(v) \in Vault!Active(s)
    BY <1>1, BareFields DEF Vault!Active, ActiveVersions
  <1>3. ASSUME NEW u \in Vault!Active(s) PROVE \E v : v \in ActiveVersions(disk, s)
    <2>1. PICK v \in disk.secrets[s] : u = Bare(v)
      BY <1>1 DEF Vault!Active
    <2> QED BY <2>1, BareFields DEF Vault!Active, ActiveVersions
  <1> QED BY <1>2, <1>3

LEMMA SameNext ==
  ASSUME NEW s \in Secret
  PROVE  Vault!NextVersions(s) = NextVersions(disk, s)
  <1> DEFINE V == disk.secrets[s]
             B == Contents(disk).secrets[s]
  <1>1. B = {Bare(v) : v \in V}
    BY BareSecrets
  <1>2. {u.n + 1 : u \in B} = {v.n + 1 : v \in V}
    BY <1>1, BareFields
  <1>3. \A n : (\A u \in B : u.n < n) <=> (\A v \in V : v.n < n)
    BY <1>1, BareFields
  <1> HIDE DEF V, B
  <1>4. {n \in {1} \cup {u.n + 1 : u \in B} : \A u \in B : u.n < n}
          = {n \in {1} \cup {v.n + 1 : v \in V} : \A v \in V : v.n < n}
    BY <1>2, <1>3
  <1> QED BY <1>4 DEF V, B, Vault!NextVersions, NextVersions

-----------------------------------------------------------------------------
(* The saves.                                                              *)

\* The vault before and after a save.
LEMMA Abstractly ==
  ASSUME KInv, NEW p \in Proc, Write(p)
  PROVE  /\ Ready(proc[p], disk) /\ Loaded(proc[p])
         /\ proc[p] \in Process /\ proc[p].snap = disk /\ disk \in StateFile
         /\ Fits(proc[p]) /\ KeysMade(proc[p]) /\ proc[p].todo = {}
         /\ proc[p].cmd # "init" => disk.ledger # None
         /\ disk' = Saved(proc[p], clock + 1)
         /\ Contents(disk) \in AbstractVault /\ Contents(disk') \in AbstractVault
  BY Writing, ReadyFacts, ContentsType

LEMMA CreatesAtomically ==
  ASSUME KInv, NEW p \in Proc, Write(p), proc[p].cmd = "init"
  PROVE  Vault!Create
  <1> DEFINE r == proc[p]
             g == disk'
             w == [Vault!NoVault EXCEPT !.exists = TRUE, !.events = 1]
  <1>1. /\ disk = Absent /\ Loaded(r) /\ r.cmd = "init" /\ g = Saved(r, clock + 1)
        /\ Contents(g) \in AbstractVault
    BY Abstractly, Writing
  <1>2. /\ g.ledger = r.fresh /\ g.secrets = [s \in Secret |-> {}]
        /\ g.trusted = {} /\ g.revoked = {} /\ g.local = None
        /\ g.bound = {} /\ g.events = 1
    <2> HIDE DEF r
    <2> QED BY ONLY <1>1, SavedInit, ZenonT(40)
  <1>3. r.fresh # None
    BY <1>1 DEF Loaded, Account, None
  <1> HIDE DEF g
  <1>4. BareVersions(g) = [s \in Secret |-> {}]
    BY <1>2 DEF BareVersions
  <1>5. /\ Contents(g).exists = TRUE /\ Contents(g).secrets = [s \in Secret |-> {}]
        /\ Contents(g).trusted = {} /\ Contents(g).revoked = {} /\ Contents(g).local = None
        /\ Contents(g).bound = {} /\ Contents(g).events = 1
    BY <1>2, <1>3, <1>4, ContentsFields
  <1>6. /\ w \in AbstractVault
        /\ w.exists = TRUE /\ w.secrets = [s \in Secret |-> {}] /\ w.trusted = {}
        /\ w.revoked = {} /\ w.local = None /\ w.bound = {} /\ w.events = 1
    BY NoVaultFields DEF AbstractVault
  <1> HIDE DEF w
  <1>7. Contents(g) = w
    <2>1. /\ Contents(g).exists = w.exists /\ Contents(g).secrets = w.secrets
          /\ Contents(g).trusted = w.trusted /\ Contents(g).revoked = w.revoked
          /\ Contents(g).local = w.local /\ Contents(g).bound = w.bound
          /\ Contents(g).events = w.events
      BY <1>5, <1>6
    <2> QED BY ONLY <1>1, <1>6, <2>1, SameVault, Zenon
  <1>8. Contents(disk).exists = FALSE
    BY <1>1, NothingIsNoVault, NoVaultFields
  <1> QED BY <1>7, <1>8 DEF Vault!Create, g, w

LEMMA EnrollsAtomically ==
  ASSUME KInv, NEW p \in Proc, Write(p), proc[p].cmd \in {"enroll", "settle"}
  PROVE  proc[p].fresh \in Account /\ Vault!Enroll(proc[p].fresh)
  <1> DEFINE r == proc[p]
             f == disk
             g == disk'
             d == r.fresh
  <1>1. /\ Loaded(r) /\ g = Saved(r, clock + 1) /\ r.snap = f /\ f.ledger # None
        /\ KeysMade(r) /\ d \in Account
        /\ Contents(f) \in AbstractVault /\ Contents(g) \in AbstractVault
    BY Abstractly DEF Loaded
  <1>2. /\ g.ledger = f.ledger /\ g.secrets = f.secrets
        /\ g.trusted = f.trusted \cup {d} /\ g.revoked = f.revoked
        /\ g.local = d /\ g.bound = f.bound /\ g.events = f.events + 1
    BY <1>1, SavedDevice
  <1>3. d \notin f.trusted \cup f.revoked
    BY <1>1 DEF KeysMade, Own, InUse, Devices
  <1> HIDE DEF g
  <1>4. BareVersions(g) = BareVersions(f)
    BY <1>2 DEF BareVersions
  <1>5. /\ Contents(g).exists = Contents(f).exists
        /\ Contents(g).secrets = Contents(f).secrets
        /\ Contents(g).trusted = Contents(f).trusted \cup {d}
        /\ Contents(g).revoked = Contents(f).revoked /\ Contents(g).local = d
        /\ Contents(g).bound = Contents(f).bound
        /\ Contents(g).events = Contents(f).events + 1
    BY <1>2, <1>4, ContentsFields
  <1>6. Contents(g) = EnrollIn(Contents(f), d)
    BY ONLY <1>1, <1>5, EnrolledVault
  <1>7. Contents(f).exists /\ d \notin Contents(f).trusted \cup Contents(f).revoked
    BY <1>1, <1>3, ContentsFields
  <1> QED BY <1>1, <1>6, <1>7 DEF Vault!Enroll, EnrollIn, g

\* The versions of a secret with a newer one, without their accounts.
LEMMA RenewsBare ==
  ASSUME KInv, NEW p \in Proc, Write(p), proc[p].cmd \in {"add", "rekey"},
         NEW s \in Secret, s \in proc[p].scope
  PROVE  BareVersions(disk')[s] = Vault!Newer(s)
  <1> DEFINE r == proc[p]
             f == disk
             g == disk'
             B == Contents(f).secrets[s]
             old == {Staled(u) : u \in B}
             new == {[n |-> n, active |-> TRUE, bound |-> s \in Contents(f).bound] :
                       n \in Vault!NextVersions(s)}
  <1>1. /\ r \in Process /\ f \in StateFile /\ Loaded(r) /\ g = Saved(r, clock + 1)
        /\ r.snap = f /\ Fits(r) /\ r.todo = {}
    BY Abstractly
  <1>2. g.secrets = [t \in Secret |->
                       IF t \in r.scope THEN IF r.cmd = "rm" THEN {} ELSE Rotated(r, t)
                       ELSE r.snap.secrets[t]]
    BY <1>1, SavedSecrets
  <1> HIDE DEF g
  <1>3. g.secrets[s] = Rotated(r, s)
    BY <1>2
  <1>4. B = {Bare(v) : v \in f.secrets[s]} /\ Contents(f).bound = f.bound
    BY BareSecrets, ContentsFields
  <1>5. Vault!NextVersions(s) = NextVersions(f, s)
    BY SameNext
  <1>6. Slots(r) = NextSlots(f, r.scope)
    BY <1>1 DEF Fits, Renews
  <1>7. \A k \in r.new : k.secret = s => k.n \in NextVersions(f, s)
    <2> SUFFICES ASSUME NEW k \in r.new, k.secret = s PROVE k.n \in NextVersions(f, s)
      OBVIOUS
    <2>1. SlotOf(s, k.n) \in NextSlots(f, r.scope)
      BY <1>6 DEF Slots
    <2>2. PICK t \in r.scope : \E n \in NextVersions(f, t) : SlotOf(s, k.n) = SlotOf(t, n)
      BY <2>1 DEF NextSlots, SlotOf
    <2> QED BY <2>2 DEF SlotOf
  <1>8. \A n \in NextVersions(f, s) : \E k \in r.new : k.secret = s /\ k.n = n
    <2> SUFFICES ASSUME NEW n \in NextVersions(f, s)
                 PROVE  \E k \in r.new : k.secret = s /\ k.n = n
      OBVIOUS
    <2>1. SlotOf(s, n) \in Slots(r)
      BY <1>6 DEF NextSlots, SlotOf
    <2>2. PICK k \in r.new : SlotOf(s, n) = SlotOf(k.secret, k.n)
      BY <2>1 DEF Slots
    <2> QED BY <2>2 DEF SlotOf
  <1> HIDE DEF B
  <1>9. old = {StaleBare(v) : v \in f.secrets[s]}
    <2>1. ASSUME NEW u \in B PROVE \E v \in f.secrets[s] : Staled(u) = StaleBare(v)
      BY <1>4, ChangedBare
    <2>2. ASSUME NEW v \in f.secrets[s] PROVE \E u \in B : Staled(u) = StaleBare(v)
      BY <1>4, ChangedBare
    <2> QED BY <2>1, <2>2
  <1>10. new = {[n |-> n, active |-> TRUE, bound |-> s \in f.bound] : n \in NextVersions(f, s)}
    BY <1>4, <1>5
  <1> HIDE DEF old, new
  <1>11. {Bare(x) : x \in Rotated(r, s)} \subseteq old \cup new
    <2> SUFFICES ASSUME NEW x \in Rotated(r, s) PROVE Bare(x) \in old \cup new
      OBVIOUS
    <2>1. CASE \E v \in r.snap.secrets[s] :
                 x.n = v.n /\ x.account = v.account /\ x.bound = v.bound /\ x.active = FALSE
      BY <1>1, <1>9, <2>1 DEF Bare, StaleBare
    <2>2. CASE \E k \in r.new :
                 /\ k.secret = s /\ x.n = k.n /\ x.account = k.account
                 /\ x.active = TRUE /\ x.bound = (s \in r.snap.bound)
      BY <1>1, <1>7, <1>10, <2>2 DEF Bare
    <2> QED BY <1>1, <2>1, <2>2, RotatedElement
  <1>12. old \subseteq {Bare(x) : x \in Rotated(r, s)}
    <2> SUFFICES ASSUME NEW v \in f.secrets[s]
                 PROVE  StaleBare(v) \in {Bare(x) : x \in Rotated(r, s)}
      BY <1>9
    <2> DEFINE x == [v EXCEPT !.active = FALSE]
    <2>1. x \in Rotated(r, s)
      BY <1>1 DEF Rotated
    <2>2. v \in Version
      BY <1>1 DEF StateFile
    <2>3. Bare(x) = StaleBare(v)
      BY <2>2 DEF Bare, Version, StaleBare
    <2> HIDE DEF x
    <2> QED BY <2>1, <2>3
  <1>13. new \subseteq {Bare(x) : x \in Rotated(r, s)}
    <2> SUFFICES ASSUME NEW n \in NextVersions(f, s)
                 PROVE  [n |-> n, active |-> TRUE, bound |-> s \in f.bound] \in
                          {Bare(x) : x \in Rotated(r, s)}
      BY <1>10
    <2>1. PICK k \in r.new : k.secret = s /\ k.n = n
      BY <1>8
    <2> DEFINE x == [n |-> k.n, account |-> k.account, active |-> TRUE, bound |-> s \in f.bound]
    <2>2. x \in Rotated(r, s)
      BY <1>1, <2>1 DEF Rotated
    <2>3. Bare(x) = [n |-> n, active |-> TRUE, bound |-> s \in f.bound]
      BY <2>1 DEF Bare
    <2> HIDE DEF x
    <2> QED BY <2>2, <2>3
  <1>14. BareVersions(g)[s] = old \cup new
    BY <1>3, <1>11, <1>12, <1>13 DEF BareVersions
  <1> QED BY <1>14 DEF Vault!Newer, Staled, g, old, new, B

LEMMA RenewsAtomically ==
  ASSUME KInv, NEW p \in Proc, Write(p), proc[p].cmd \in {"add", "rekey"}
  PROVE  Vault!Renew(proc[p].scope)
  <1> DEFINE r == proc[p]
             f == disk
             g == disk'
  <1>1. /\ Loaded(r) /\ g = Saved(r, clock + 1) /\ r.snap = f /\ f.ledger # None
        /\ Usable(f) /\ Contents(f) \in AbstractVault /\ Contents(g) \in AbstractVault
    BY Abstractly DEF Fits, Renews
  <1>2. /\ g.ledger = r.snap.ledger /\ SameDevices(r.snap, g) /\ g.bound = r.snap.bound
        /\ g.events = r.snap.events + 1
        /\ g.secrets = [s \in Secret |->
                          IF s \in r.scope THEN IF r.cmd = "rm" THEN {} ELSE Rotated(r, s)
                          ELSE r.snap.secrets[s]]
    BY <1>1, SavedSecrets, ZenonT(40)
  <1>3. \A s \in Secret : s \in r.scope => BareVersions(g)[s] = Vault!Newer(s)
    BY RenewsBare
  <1> HIDE DEF g
  <1>4. \A s \in Secret : s \notin r.scope => BareVersions(g)[s] = BareVersions(f)[s]
    BY <1>1, <1>2 DEF BareVersions
  <1> DEFINE next == [s \in Secret |-> IF s \in r.scope THEN Vault!Newer(s) ELSE BareVersions(f)[s]]
             events == f.events + 1
  <1>5. BareVersions(g) = next
    <2>1. BareVersions(g) = [s \in Secret |-> BareVersions(g)[s]]
      BY DEF BareVersions
    <2> QED BY <1>3, <1>4, <2>1
  <1>6. Contents(f).secrets = BareVersions(f) /\ Contents(f).events = f.events
    BY ContentsFields
  <1>7. [s \in Secret |-> IF s \in r.scope THEN Vault!Newer(s) ELSE Contents(f).secrets[s]] = next
    BY <1>6
  <1> HIDE DEF next
  <1>8. /\ Contents(g).exists = Contents(f).exists /\ Contents(g).secrets = next
        /\ Contents(g).trusted = Contents(f).trusted /\ Contents(g).revoked = Contents(f).revoked
        /\ Contents(g).local = Contents(f).local /\ Contents(g).bound = Contents(f).bound
        /\ Contents(g).events = events
    BY <1>1, <1>2, <1>5, ContentsFields DEF SameDevices
  <1> HIDE DEF events
  <1>9. Contents(g) = RenewIn(Contents(f), next, events)
    BY ONLY <1>1, <1>8, RenewedVault
  <1>10. Vault!Usable
    BY <1>1, ContentsFields DEF Vault!Usable, Usable
  <1> QED BY <1>6, <1>7, <1>9, <1>10 DEF Vault!Renew, RenewIn, events, g

LEMMA PutsAtomically ==
  ASSUME KInv, NEW p \in Proc, Write(p), proc[p].cmd = "add"
  PROVE  \E s \in Secret : Vault!Put(s)
  <1>1. Renews(proc[p])
    BY Abstractly DEF Fits
  <1>2. PICK s \in Secret : proc[p].scope = {s}
    BY <1>1 DEF Renews
  <1> QED BY <1>2, RenewsAtomically DEF Vault!Put

LEMMA RekeysAtomically ==
  ASSUME KInv, NEW p \in Proc, Write(p), proc[p].cmd = "rekey"
  PROVE  \E w \in Workspace : Vault!Rekey(w)
  <1>1. Renews(proc[p]) /\ proc[p].snap = disk
    BY Abstractly DEF Fits
  <1>2. PICK w \in Workspace : /\ proc[p].scope # {}
                               /\ proc[p].scope = {s \in w : ActiveVersions(disk, s) # {}}
    BY <1>1 DEF Renews
  <1>3. w \subseteq Secret
    BY ConstantsAssumption
  <1>4. proc[p].scope = {s \in w : Vault!Active(s) # {}}
    BY <1>2, <1>3, SameActive
  <1>5. Vault!Renew(proc[p].scope)
    BY RenewsAtomically
  <1> QED BY <1>2, <1>4, <1>5 DEF Vault!Rekey

LEMMA SealsAtomically ==
  ASSUME KInv, NEW p \in Proc, Write(p), proc[p].cmd \in {"bind", "rename"}
  PROVE  proc[p].scope \in Workspace /\ Vault!Seal(proc[p].scope)
  <1> DEFINE r == proc[p]
             f == disk
             g == disk'
             bonded(s) == {Bonded(u) : u \in Contents(f).secrets[s]}
  <1>1. /\ Loaded(r) /\ g = Saved(r, clock + 1) /\ r.snap = f /\ f.ledger # None
        /\ Usable(f) /\ Reseals(r) /\ r.todo = {} /\ r \in Process /\ f \in StateFile
        /\ r.scope \in Workspace
        /\ Contents(f) \in AbstractVault /\ Contents(g) \in AbstractVault
    BY Abstractly DEF Fits, Reseals
  <1>2. /\ g.ledger = r.snap.ledger /\ SameDevices(r.snap, g)
        /\ g.bound = r.snap.bound \cup r.scope
        /\ g.events = r.snap.events + 1
        /\ g.secrets = [s \in Secret |->
                          IF s \in r.scope THEN Resealed(r, s) ELSE r.snap.secrets[s]]
    BY <1>1, SavedBound
  <1> HIDE DEF g
  <1>3. ASSUME NEW s \in Secret
        PROVE  bonded(s) = {BondedBare(v) : v \in f.secrets[s]}
    <2>1. Contents(f).secrets[s] = {Bare(v) : v \in f.secrets[s]}
      BY BareSecrets
    <2>2. ASSUME NEW u \in Contents(f).secrets[s]
          PROVE  \E v \in f.secrets[s] : Bonded(u) = BondedBare(v)
      BY <2>1, ChangedBare
    <2>3. ASSUME NEW v \in f.secrets[s]
          PROVE  \E u \in Contents(f).secrets[s] : Bonded(u) = BondedBare(v)
      BY <2>1, ChangedBare
    <2> QED BY <2>2, <2>3
  <1>4. ASSUME NEW s \in Secret, s \in r.scope, NEW x, NEW v \in f.secrets[s],
               ResealedFrom(r, s, x, v)
        PROVE  Bare(x) = BondedBare(v)
    <2>1. CASE x.bound = TRUE
      BY <1>4, <2>1 DEF Bare, BondedBare, ResealedFrom
    <2>2. CASE x = v /\ KeysFor(r, s, v.n) = {}
      <3>1. SlotOf(s, v.n) \notin Slots(r)
        BY <2>2 DEF Slots, SlotOf, KeysFor
      <3>2. v.bound
        BY <1>1, <1>4, <3>1 DEF Reseals
      <3>3. v.bound = TRUE
        BY <1>1, <3>2 DEF StateFile, Version
      <3> QED BY <2>2, <3>3 DEF Bare, BondedBare
    <2> QED BY <1>4, <2>1, <2>2 DEF ResealedFrom
  <1>5. ASSUME NEW s \in Secret, s \in r.scope
        PROVE  BareVersions(g)[s] = bonded(s)
    <2>1. BareVersions(g)[s] = {Bare(x) : x \in Resealed(r, s)}
      BY <1>2, <1>5 DEF BareVersions
    <2>2. ASSUME NEW x \in Resealed(r, s) PROVE Bare(x) \in bonded(s)
      <3>1. PICK v \in r.snap.secrets[s] : ResealedFrom(r, s, x, v)
        BY <1>1, ResealedElement
      <3>2. Bare(x) = BondedBare(v)
        BY <1>1, <1>4, <1>5, <3>1
      <3> QED BY <1>1, <1>3, <3>2
    <2>3. ASSUME NEW v \in f.secrets[s] PROVE BondedBare(v) \in BareVersions(g)[s]
      <3>1. v \in r.snap.secrets[s]
        BY <1>1
      <3>2. PICK x \in Resealed(r, s) : ResealedFrom(r, s, x, v)
        BY <1>1, <3>1, ResealedImage
      <3>3. Bare(x) = BondedBare(v)
        BY <1>4, <1>5, <3>2
      <3> QED BY <2>1, <3>3
    <2> HIDE DEF bonded
    <2> QED BY <1>3, <2>1, <2>2, <2>3
  <1>6. \A s \in Secret : s \notin r.scope => BareVersions(g)[s] = BareVersions(f)[s]
    BY <1>1, <1>2 DEF BareVersions
  <1> HIDE DEF bonded
  <1> DEFINE next == [s \in Secret |-> IF s \in r.scope THEN bonded(s) ELSE BareVersions(f)[s]]
             bound == f.bound \cup r.scope
             events == f.events + 1
  <1>7. BareVersions(g) = next
    <2>1. BareVersions(g) = [s \in Secret |-> BareVersions(g)[s]]
      BY DEF BareVersions
    <2> QED BY <1>5, <1>6, <2>1
  <1>8. /\ Contents(f).secrets = BareVersions(f) /\ Contents(f).bound = f.bound
        /\ Contents(f).events = f.events
    BY ContentsFields
  <1>9. [s \in Secret |-> IF s \in r.scope THEN {Bonded(u) : u \in Contents(f).secrets[s]}
                          ELSE Contents(f).secrets[s]] = next
    BY <1>8 DEF bonded
  <1> HIDE DEF next
  <1>10. /\ Contents(g).exists = Contents(f).exists /\ Contents(g).secrets = next
         /\ Contents(g).trusted = Contents(f).trusted /\ Contents(g).revoked = Contents(f).revoked
         /\ Contents(g).local = Contents(f).local /\ Contents(g).bound = bound
         /\ Contents(g).events = events
    BY <1>1, <1>2, <1>7, ContentsFields DEF SameDevices
  <1> HIDE DEF bound, events
  <1>11. Contents(g) = SealIn(Contents(f), next, bound, events)
    BY ONLY <1>1, <1>10, SealedVault
  <1>12. Vault!Usable
    BY <1>1, ContentsFields DEF Vault!Usable, Usable
  <1> QED BY <1>1, <1>8, <1>9, <1>11, <1>12 DEF Vault!Seal, SealIn, Bonded, bound, events, g

LEMMA RemovesAtomically ==
  ASSUME KInv, NEW p \in Proc, Write(p), proc[p].cmd = "rm"
  PROVE  \E s \in Secret : Vault!Remove(s)
  <1> DEFINE r == proc[p]
             f == disk
             g == disk'
  <1>1. /\ Loaded(r) /\ g = Saved(r, clock + 1) /\ r.snap = f /\ Removes(r)
        /\ Contents(f) \in AbstractVault /\ Contents(g) \in AbstractVault
    BY Abstractly DEF Fits
  <1>2. PICK s \in Secret : r.scope = {s} /\ f.secrets[s] # {}
    BY <1>1 DEF Removes
  <1>3. /\ g.ledger = r.snap.ledger /\ SameDevices(r.snap, g) /\ g.bound = r.snap.bound
        /\ g.events = r.snap.events + 1
        /\ g.secrets = [t \in Secret |->
                          IF t \in r.scope THEN IF r.cmd = "rm" THEN {} ELSE Rotated(r, t)
                          ELSE r.snap.secrets[t]]
    BY <1>1, SavedSecrets
  <1> HIDE DEF g
  <1>4. \A t \in Secret : g.secrets[t] = IF t = s THEN {} ELSE f.secrets[t]
    BY <1>1, <1>2, <1>3
  <1>5. BareVersions(g) = [BareVersions(f) EXCEPT ![s] = {}]
    BY <1>4 DEF BareVersions
  <1>6. /\ Contents(g).exists = Contents(f).exists
        /\ Contents(g).secrets = [Contents(f).secrets EXCEPT ![s] = {}]
        /\ Contents(g).trusted = Contents(f).trusted /\ Contents(g).revoked = Contents(f).revoked
        /\ Contents(g).local = Contents(f).local /\ Contents(g).bound = Contents(f).bound
        /\ Contents(g).events = Contents(f).events + 1
    <2>1. Contents(f).secrets = BareVersions(f) /\ Contents(g).secrets = BareVersions(g)
      BY ContentsFields
    <2>2. Contents(g).secrets = [Contents(f).secrets EXCEPT ![s] = {}]
      BY <1>5, <2>1
    <2> QED BY <1>1, <1>3, <2>2, ContentsFields DEF SameDevices
  <1>7. Contents(g) = RemoveIn(Contents(f), s)
    BY ONLY <1>1, <1>6, RemovedVault
  <1>8. Contents(f).secrets[s] # {}
    BY <1>2, BareSecrets
  <1> QED BY <1>7, <1>8 DEF Vault!Remove, RemoveIn, g

LEMMA RevokesAtomically ==
  ASSUME KInv, NEW p \in Proc, Write(p), proc[p].cmd = "revoke"
  PROVE  proc[p].fresh \in Account /\ Vault!Revoke(proc[p].fresh)
  <1> DEFINE r == proc[p]
             f == disk
             g == disk'
             d == r.fresh
             k == IF f.local \in {d, None} THEN 2 ELSE 1
  <1>1. /\ Loaded(r) /\ g = Saved(r, clock + 1) /\ r.snap = f /\ Revokes(r) /\ d \in Account
        /\ Contents(f) \in AbstractVault /\ Contents(g) \in AbstractVault
    BY Abstractly DEF Fits, Loaded
  <1>2. /\ g.ledger = f.ledger /\ g.secrets = f.secrets /\ g.bound = f.bound
        /\ g.trusted = f.trusted \ {d} /\ g.revoked = f.revoked \cup {d}
        /\ g.local = f.local /\ g.events = f.events + k
    BY <1>1, SavedRevoke
  <1> HIDE DEF g
  <1>3. BareVersions(g) = BareVersions(f)
    BY <1>2 DEF BareVersions
  <1>4. /\ Contents(g).exists = Contents(f).exists
        /\ Contents(g).secrets = Contents(f).secrets
        /\ Contents(g).trusted = Contents(f).trusted \ {d}
        /\ Contents(g).revoked = Contents(f).revoked \cup {d}
        /\ Contents(g).local = Contents(f).local /\ Contents(g).bound = Contents(f).bound
        /\ Contents(g).events = Contents(f).events + k
    BY <1>2, <1>3, ContentsFields
  <1>5. k \in {1, 2} /\ k \in Nat
    OBVIOUS
  <1> HIDE DEF k
  <1>6. Contents(g) = RevokeIn(Contents(f), d, k)
    BY ONLY <1>1, <1>4, <1>5, RevokedVault
  <1>7. d \in Contents(f).trusted \cup Contents(f).revoked
    BY <1>1, ContentsFields DEF Revokes, Devices
  <1>8. Contents(f).trusted = {d} => \A s \in Secret : Vault!Active(s) = {}
    BY <1>1, ContentsFields, SameActive DEF Revokes
  <1> QED BY <1>1, <1>5, <1>6, <1>7, <1>8 DEF Vault!Revoke, RevokeIn, g

LEMMA RecordsAtomically ==
  ASSUME KInv, NEW p \in Proc, Write(p), proc[p].cmd = "audit"
  PROVE  Vault!Record
  <1> DEFINE r == proc[p]
             f == disk
             g == disk'
  <1>1. /\ Loaded(r) /\ g = Saved(r, clock + 1) /\ r.snap = f /\ f.ledger # None
        /\ Contents(f) \in AbstractVault /\ Contents(g) \in AbstractVault
    BY Abstractly
  <1>2. /\ g.ledger = f.ledger /\ g.secrets = f.secrets /\ g.bound = f.bound
        /\ SameDevices(f, g) /\ g.events = f.events + 1
    BY <1>1, SavedAudit
  <1> HIDE DEF g
  <1>3. BareVersions(g) = BareVersions(f)
    BY <1>2 DEF BareVersions
  <1>4. /\ Contents(g).exists = Contents(f).exists
        /\ Contents(g).secrets = Contents(f).secrets
        /\ Contents(g).trusted = Contents(f).trusted /\ Contents(g).revoked = Contents(f).revoked
        /\ Contents(g).local = Contents(f).local /\ Contents(g).bound = Contents(f).bound
        /\ Contents(g).events = Contents(f).events + 1
    BY <1>2, <1>3, ContentsFields DEF SameDevices
  <1>5. Contents(g) = RecordIn(Contents(f))
    BY ONLY <1>1, <1>4, RecordedVault
  <1>6. Contents(f).exists
    BY <1>1, ContentsFields
  <1> QED BY <1>5, <1>6 DEF Vault!Record, RecordIn, g

-----------------------------------------------------------------------------
(* The refinement.                                                         *)

LEMMA SavesAtomically ==
  ASSUME KInv, NEW p \in Proc, Write(p)
  PROVE  Vault!Next
  <1>1. proc[p].cmd \in Command \ {"none", "wipe"}
    BY Abstractly DEF Fits, Process
  <1>2. CASE proc[p].cmd = "init"
    BY <1>2, CreatesAtomically DEF Vault!Next
  <1>3. CASE proc[p].cmd \in {"enroll", "settle"}
    BY <1>3, EnrollsAtomically DEF Vault!Next
  <1>4. CASE proc[p].cmd = "add"
    BY <1>4, PutsAtomically DEF Vault!Next
  <1>5. CASE proc[p].cmd = "rekey"
    BY <1>5, RekeysAtomically DEF Vault!Next
  <1>6. CASE proc[p].cmd \in {"bind", "rename"}
    BY <1>6, SealsAtomically DEF Vault!Next
  <1>7. CASE proc[p].cmd = "rm"
    BY <1>7, RemovesAtomically DEF Vault!Next
  <1>8. CASE proc[p].cmd = "revoke"
    BY <1>8, RevokesAtomically DEF Vault!Next
  <1>9. CASE proc[p].cmd = "audit"
    BY <1>9, RecordsAtomically DEF Vault!Next
  <1> QED BY <1>1, <1>2, <1>3, <1>4, <1>5, <1>6, <1>7, <1>8, <1>9 DEF Command

LEMMA RemovedAtomically ==
  ASSUME KInv, disk' = Absent
  PROVE  disk' = disk \/ Vault!Destroy
  <1>1. WellFormed(disk)
    BY DEF KInv, IInv, StampsTell
  <1>2. CASE disk.ledger = None
    BY <1>1, <1>2 DEF WellFormed
  <1>3. CASE disk.ledger # None
    <2>1. Contents(disk).exists
      BY <1>3, ContentsFields
    <2>2. Contents(disk') = Vault!NoVault
      BY NothingIsNoVault
    <2> QED BY <2>1, <2>2 DEF Vault!Destroy
  <1> QED BY <1>2, <1>3

\* Each command changes the vault at one instant, at its save, and as a whole,
\* or not at all: what other processes, crashes and failures do in between,
\* and every step in the keystore, cannot be told from nothing happening.
THEOREM AtomicVaultImplemented == Spec => ImplementsAtomicVault
  <1>1. Init => Vault!Init
    BY NothingIsNoVault DEF Init, Vault!Init
  <1>2. KInv /\ [Next]_vars => [Vault!Next]_(Contents(disk))
    <2> SUFFICES ASSUME KInv, [Next]_vars
                 PROVE  Vault!Next \/ Contents(disk') = Contents(disk)
      OBVIOUS
    <2>1. CASE UNCHANGED vars
      BY <2>1 DEF vars
    <2>2. ASSUME NEW p \in Proc, Write(p) PROVE Vault!Next
      BY <2>2, SavesAtomically
    <2>3. CASE disk' = Absent
      BY <2>3, RemovedAtomically DEF Vault!Next
    <2>4. CASE disk' = disk
      BY <2>4
    <2> QED BY <2>1, <2>2, <2>3, <2>4, FileChanges
  <1> QED BY <1>1, <1>2, KeysInvariance, PTL DEF Spec, ImplementsAtomicVault, Vault!Spec

=============================================================================
