----------------------------- MODULE SyncProofs -----------------------------
(***************************************************************************)
(* What holds of pull and push for any number of devices, of secrets, of   *)
(* versions and of seals: in every environment that no value is lost; and  *)
(* where an older version never comes back under a newer deleted one       *)
(* (OneFloor), that a device that syncs has what its bundle said and gives *)
(* what its user may write,                                                *)
(* that a secret is made again only by who saw it deleted, and that a      *)
(* deletion seen is never undone by what a device uploads.                 *)
(***************************************************************************)
EXTENDS Sync, FiniteSetTheorems, WellFoundedInduction, TLAPS

-----------------------------------------------------------------------------
(* Types.                                                                  *)

LocalVersions == {Absent} \cup [status : {"active", "stale", "deleted"}, env : Envelopes]
RemoteVersions ==
    {Unknown} \cup [status : {"active", "stale", "deleted"}, env : Envelopes, keys : (SUBSET Devices) \ {{}}]
Tombstones == [through : 0 .. MaxVersion, at : 0 .. MaxDeletions]
Entries == [through : 0 .. MaxVersion, at : 0 .. MaxDeletions, since : SUBSET Versions]
Sightings == [active : SUBSET Versions, present : SUBSET Versions, deletions : 0 .. MaxDeletions]

\* A function of some of the names.
ForSome(S) == UNION {[N -> S] : N \in SUBSET Names}

Bundles == [sees : SUBSET Names, tombstone : [Names -> Tombstones],
            seen : ForSome(Sightings), record : ForSome(RemoteVersions)]
Fetches == [at : {"fetched"}, mode : {"pull", "force", "sync"}, bundle : Bundles]
Pulls == [at : {"pulled"}, sees : SUBSET Names, seen : ForSome(Sightings)]
Plans == [at : {"planned"}, writes : SUBSET Names, seen : {<<>>} \cup ForSome(Sightings),
          keys : (SUBSET Devices) \ {{}},
          uploads : ForSome(Versions), rewraps : ForSome(Versions), recreates : ForSome(0 .. MaxVersion)]

Typed ==
    /\ history \in [Devices -> [Names -> [Versions -> LocalVersions]]]
    /\ ledger \in [Devices -> [Names -> Entries]]
    /\ job \in [Devices -> {Idle} \cup Fetches \cup Pulls \cup Plans]
    /\ remote \in [Names -> [Versions -> RemoteVersions]]
    /\ tombstone \in [Names -> Tombstones]
    /\ trusted \in (SUBSET Devices) \ {{}}

-----------------------------------------------------------------------------
(* What holds in every environment.                                        *)

\* Of a secret at most one version is active.
OneActive(secret) == \A v, w \in Active(secret) : v = w

\* The control plane has this very version.
Shared(n, v, env) == Has(remote[n], v) /\ remote[n][v].env = env

RemoteSound(n) ==
    /\ OneActive(remote[n])
    /\ \A v \in Active(remote[n]) : v > tombstone[n].through

\* What is live on a device and not above the deletions it knows came from the
\* control plane, which had taken the deletion back.
LocalSound(d, n) ==
    /\ OneActive(history[d][n])
    /\ \A v \in Active(history[d][n]) :
         v > ledger[d][n].through \/ Shared(n, v, history[d][n][v].env)

\* What a bundle names is active above its tombstone, and still exists.
BundleSound(b) ==
    /\ DOMAIN b.seen = b.sees /\ DOMAIN b.record = b.sees
    /\ \A n \in Names \ b.sees : b.tombstone[n] = NoTombstone
    /\ \A n \in b.sees :
         /\ \A v, w \in b.seen[n].active : v = w
         /\ \A v \in b.seen[n].active :
              v > b.tombstone[n].through /\ b.record[n] # Unknown /\ Shared(n, v, b.record[n].env)

\* What a plan publishes is live on the device, which knows of the deletions
\* that the plan names.
PlanSound(d, p) ==
    /\ \A n \in DOMAIN p.uploads : p.uploads[n] \in Active(history[d][n])
    /\ \A n \in DOMAIN p.rewraps :
         LET v == p.rewraps[n] IN v \in Active(history[d][n]) /\ Shared(n, v, history[d][n][v].env)
    /\ \A n \in DOMAIN p.recreates :
         /\ n \in DOMAIN p.uploads
         /\ ledger[d][n].through = p.recreates[n] /\ p.uploads[n] \in ledger[d][n].since

BaseInv ==
    /\ Typed
    /\ \A n \in Names : RemoteSound(n)
    /\ \A d \in Devices, n \in Names : LocalSound(d, n)
    /\ \A d \in Devices : /\ job[d].at = "fetched" => BundleSound(job[d].bundle)
                          /\ job[d].at = "planned" => PlanSound(d, job[d])

-----------------------------------------------------------------------------
(* What holds while no deletion of a secret is of a lower version than one *)
(* before it: a secret is deleted once, or no deleted record is restored.  *)
(* (Otherwise an older version may be active under a newer deleted one,    *)
(* which a device that has the newer one skips, and a later deletion may   *)
(* lower the version in the ledger: TLC then refutes the three properties. *)

OneFloor == MaxDeletions <= 1 \/ "restore" \notin Environment

Deleted(n) == {v \in Versions : remote[n][v].status = "deleted"}

\* The newest version is the active one, or the one that was deleted.
NewestCounts(n) ==
    /\ \A v \in Active(remote[n]), w \in Present(remote[n]) : w <= v
    /\ Active(remote[n]) = {} => \A w \in Present(remote[n]) : w <= tombstone[n].through
    /\ Active(remote[n]) = {} /\ tombstone[n].through > 0 => tombstone[n].through \in Deleted(n)

DeletionsCount(n) ==
    /\ tombstone[n].at = 0 => tombstone[n].through = 0 /\ Deleted(n) = {}
    /\ tombstone[n].at > 0 /\ tombstone[n].through = 0 => "restore" \in Environment
    /\ "restore" \in Environment => \A v, w \in Deleted(n) : v = w

\* A tombstone (or entry) told was the state of affairs before now.
Older(told, now) ==
    /\ told.at <= now.at
    /\ told.at = 0 => told.through = 0
    /\ told.at = now.at => now.through \in {0, told.through}
    /\ told.at < now.at /\ now.through > 0 => told.through < now.through

\* No live version is deleted, as far as the device or the control plane says.
NoneLiveDeleted(d, n) ==
    \A v \in Active(history[d][n]) : v > ledger[d][n].through \/ v > tombstone[n].through

Told(d, n) ==
    LET told == job[d].bundle.tombstone[n] IN
    /\ Older(told, tombstone[n])
    /\ n \in job[d].bundle.sees =>
         /\ Older(ledger[d][n], told)
         /\ told.at > 0 /\ told.through = 0 => "restore" \in Environment

\* s is what n was like before, or is like now; if it was another, it will not
\* be like that again.
Past(s, n) ==
    /\ s.deletions <= tombstone[n].at
    /\ s.present \subseteq Present(remote[n])
    /\ s.deletions = tombstone[n].at /\ s.present = Present(remote[n]) =>
          s.active = Active(remote[n]) \/ (s.active = {} /\ Active(remote[n]) # {})

\* What the import of a sync left: a version that is not older than the active
\* one, and equal to it if it is the same version.
Caught(d, n) ==
    \A v \in job[d].seen[n].active :
       \E w \in Active(history[d][n]) : w > v \/ (w = v /\ Shared(n, v, history[d][n][w].env))

\* The device and the control plane agree on n, and these can read it.
Agrees(d, n, keys) ==
    /\ Active(history[d][n]) = Active(remote[n])
    /\ \A v \in Active(remote[n]) :
          history[d][n][v].env = remote[n][v].env /\ keys \subseteq remote[n][v].keys

\* What a plan is to publish, and need not touch.
Left(d) == (DOMAIN job[d].seen \cap job[d].writes) \ (DOMAIN job[d].uploads \cup DOMAIN job[d].rewraps)

JobSound(d) ==
    /\ job[d].at = "fetched" =>
         /\ \A n \in Names : Told(d, n)
         /\ \A n \in job[d].bundle.sees : Past(job[d].bundle.seen[n], n)
    /\ job[d].at = "pulled" =>
         /\ DOMAIN job[d].seen = job[d].sees
         /\ \A n \in job[d].sees : Past(job[d].seen[n], n) /\ Caught(d, n)
    /\ job[d].at = "planned" =>
         /\ \A n \in DOMAIN job[d].seen : Past(job[d].seen[n], n) /\ Caught(d, n)
         /\ \A n \in Left(d) : Seen(n) = job[d].seen[n] => Agrees(d, n, job[d].keys)

FloorInv ==
    /\ \A n \in Names : NewestCounts(n) /\ DeletionsCount(n)
    /\ \A d \in Devices, n \in Names : Older(ledger[d][n], tombstone[n]) /\ NoneLiveDeleted(d, n)
    /\ \A d \in Devices : JobSound(d)

SInv == BaseInv /\ FloorInv

-----------------------------------------------------------------------------
(* Operators.                                                              *)

LEMMA LeastNat ==
  ASSUME NEW T \in SUBSET Nat, T # {}
  PROVE  \E x \in T : \A y \in T : x <= y
  <1>1. PICK x \in T : \A y \in T : ~(<<y, x>> \in OpToRel(<, Nat))
    BY NatLessThanWellFounded, WFMin
  <1>2. \A y \in T : ~(y < x)
    BY <1>1 DEF OpToRel
  <1> QED BY <1>2

LEMMA MaxIs ==
  ASSUME NEW N \in Nat, NEW S \in SUBSET (0 .. N), S # {}
  PROVE  Max(S) \in S /\ \A y \in S : y <= Max(S)
  <1> DEFINE T == {N - y : y \in S}
  <1>1. T \in SUBSET Nat /\ T # {}
    <2>1. \A y \in S : y \in Nat /\ N - y \in Nat
      OBVIOUS
    <2> QED BY <2>1
  <1> HIDE DEF T
  <1>2. PICK m \in T : \A y \in T : m <= y
    BY <1>1, LeastNat
  <1>3. PICK x \in S : m = N - x
    BY <1>2 DEF T
  <1>4. \A y \in S : x >= y
    <2> TAKE y \in S
    <2>1. N - y \in T
      BY DEF T
    <2> QED BY <2>1, <1>2, <1>3
  <1> QED BY <1>4 DEF Max

LEMMA VersionsAre ==
  ASSUME SyncAssumption
  PROVE  Versions \subseteq Nat \ {0} /\ Versions \subseteq 0 .. MaxVersion /\ MaxVersion \in Nat
  BY DEF Versions, SyncAssumption

\* The newest of a set of versions, 0 if there is none.
LEMMA MaxOr0 ==
  ASSUME SyncAssumption, NEW S \in SUBSET Versions
  PROVE  /\ Max(S \cup {0}) \in 0 .. MaxVersion
         /\ \A v \in S : v <= Max(S \cup {0})
         /\ Max(S \cup {0}) > 0 => Max(S \cup {0}) \in S
  <1>1. S \cup {0} \in SUBSET (0 .. MaxVersion) /\ MaxVersion \in Nat
    BY VersionsAre
  <1>2. Max(S \cup {0}) \in S \cup {0} /\ \A y \in S \cup {0} : y <= Max(S \cup {0})
    BY <1>1, MaxIs
  <1> QED BY <1>1, <1>2

LEMMA NewestIs ==
  ASSUME SyncAssumption, NEW secret
  PROVE  /\ Newest(secret) \in 0 .. MaxVersion
         /\ \A v \in Present(secret) : v <= Newest(secret)
         /\ Newest(secret) > 0 => Newest(secret) \in Present(secret)
  BY MaxOr0 DEF Newest, Present

LEMMA OneIsMax ==
  ASSUME SyncAssumption, NEW S \in SUBSET Versions, NEW v \in S, \A w \in S : w = v
  PROVE  Max(S) = v
  <1>1. S \in SUBSET (0 .. MaxVersion) /\ MaxVersion \in Nat /\ S # {}
    BY VersionsAre
  <1> QED BY <1>1, MaxIs

LEMMA AtMostOne ==
  ASSUME NEW secret, OneActive(secret)
  PROVE  Cardinality(Active(secret)) <= 1
  <1>1. CASE Active(secret) = {}
    BY <1>1, FS_EmptySet
  <1>2. CASE Active(secret) # {}
    <2>1. PICK v \in Active(secret) : TRUE
      BY <1>2
    <2>2. Active(secret) = {v}
      BY <2>1 DEF OneActive
    <2> QED BY <2>2, FS_Singleton
  <1> QED BY <1>1, <1>2

LEMMA SupersededIs ==
  ASSUME NEW x \in LocalVersions \cup RemoteVersions
  PROVE  LET s == Superseded(x) IN
         /\ x \in LocalVersions => s \in LocalVersions
         /\ x \in RemoteVersions => s \in RemoteVersions /\ s.keys = x.keys
         /\ s.env = x.env /\ s.status # "active" /\ (s.status = "none" <=> x.status = "none")
         /\ x.status # "active" => s = x
  <1>1. CASE x.status # "active"
    BY <1>1 DEF Superseded
  <1>2. CASE x.status = "active"
    BY <1>2 DEF Superseded, LocalVersions, RemoteVersions, Absent, Unknown
  <1> QED BY <1>1, <1>2

LEMMA WithActiveIs ==
  ASSUME NEW secret \in [Versions -> LocalVersions], NEW v \in Versions, NEW env \in Envelopes
  PROVE  LET s == WithActive(secret, v, env) IN
         /\ s \in [Versions -> LocalVersions]
         /\ Active(s) = {v} /\ s[v].env = env
         /\ \A w \in Versions \ {v} : (Has(s, w) <=> Has(secret, w)) /\ s[w].env = secret[w].env
  <1> DEFINE s == WithActive(secret, v, env)
  <1>1. \A w \in Versions : s[w] = IF w = v THEN [status |-> "active", env |-> env] ELSE Superseded(secret[w])
    BY DEF WithActive
  <1>2. \A w \in Versions : s[w] \in LocalVersions
    BY <1>1, SupersededIs DEF LocalVersions
  <1>3. s \in [Versions -> LocalVersions]
    BY <1>2 DEF WithActive
  <1>4. \A w \in Versions \ {v} :
           s[w].status # "active" /\ s[w].env = secret[w].env /\ (s[w].status = "none" <=> secret[w].status = "none")
    BY <1>1, SupersededIs
  <1>5. s[v].status = "active" /\ s[v].env = env
    BY <1>1
  <1> HIDE DEF s
  <1>6. Active(s) = {v}
    BY <1>4, <1>5 DEF Active
  <1> QED BY <1>3, <1>4, <1>5, <1>6 DEF Has, s

LEMMA RetiredIs ==
  ASSUME NEW secret \in [Versions -> LocalVersions], NEW through
  PROVE  LET s == Retired(secret, through) IN
         /\ s \in [Versions -> LocalVersions]
         /\ \A v \in Versions : (Has(s, v) <=> Has(secret, v)) /\ s[v].env = secret[v].env
         /\ \A v \in Versions : v <= through /\ Has(secret, v) => s[v].status = "deleted"
         /\ \A v \in Versions : ~(v <= through) => s[v] = secret[v]
  <1> DEFINE s == Retired(secret, through)
  <1>1. \A v \in Versions : s[v] = IF v <= through /\ Has(secret, v)
                                   THEN [secret[v] EXCEPT !.status = "deleted"] ELSE secret[v]
    BY DEF Retired
  <1>2. \A v \in Versions : v <= through /\ Has(secret, v) =>
           s[v] \in LocalVersions /\ s[v].status = "deleted" /\ s[v].env = secret[v].env
    <2> TAKE v \in Versions
    <2> HAVE v <= through /\ Has(secret, v)
    <2>1. secret[v] \in [status : {"active", "stale", "deleted"}, env : Envelopes]
      BY DEF LocalVersions, Absent, Has
    <2>2. s[v] = [secret[v] EXCEPT !.status = "deleted"]
      BY <1>1
    <2> QED BY <2>1, <2>2 DEF LocalVersions
  <1>3. \A v \in Versions : ~(v <= through /\ Has(secret, v)) => s[v] = secret[v]
    BY <1>1
  <1>4. s \in [Versions -> LocalVersions]
    BY <1>2, <1>3 DEF Retired
  <1> HIDE DEF s
  <1> QED BY <1>2, <1>3, <1>4 DEF Has, s

\* Nothing becomes active by a deletion.
LEMMA RetiredActive ==
  ASSUME SyncAssumption, NEW secret \in [Versions -> LocalVersions], NEW through \in Nat
  PROVE  Active(Retired(secret, through)) = {v \in Active(secret) : v > through}
  <1> DEFINE s == Retired(secret, through)
  <1>1. /\ \A v \in Versions : v <= through /\ Has(secret, v) => s[v].status = "deleted"
        /\ \A v \in Versions : ~(v <= through) => s[v] = secret[v]
        /\ \A v \in Versions : Has(s, v) <=> Has(secret, v)
    BY RetiredIs
  <1> HIDE DEF s
  <1>2. \A v \in Versions : v > through <=> ~(v <= through)
    BY VersionsAre
  <1>3. \A v \in Versions : s[v].status = "active" <=> secret[v].status = "active" /\ v > through
    BY <1>1, <1>2 DEF Has
  <1> QED BY <1>3 DEF Active, s


-----------------------------------------------------------------------------
(* Jobs.                                                                   *)

LEMMA ForSomeIs ==
  ASSUME NEW S, NEW f \in ForSome(S)
  PROVE  DOMAIN f \in SUBSET Names /\ (\A n \in DOMAIN f : f[n] \in S)
  BY DEF ForSome

LEMMA SomeIs ==
  ASSUME NEW S, NEW N \in SUBSET Names, NEW f \in [N -> S]
  PROVE  f \in ForSome(S)
  BY DEF ForSome

LEMMA JobIs ==
  ASSUME Typed, NEW d \in Devices
  PROVE  /\ job[d].at = "fetched" => job[d] \in Fetches
         /\ job[d].at = "pulled" => job[d] \in Pulls
         /\ job[d].at = "planned" => job[d] \in Plans
  BY DEF Typed, Idle, Fetches, Pulls, Plans

LEMMA ReconciledIs ==
  ASSUME NEW own \in Entries, NEW told \in Tombstones
  PROVE  /\ Reconciled(own, told) \in Entries
         /\ told.through = 0 => Reconciled(own, told) = own
         /\ told.through # 0 => Reconciled(own, told).through = told.through /\ Reconciled(own, told).at = told.at
  BY DEF Reconciled, Entries, Tombstones

LEMMA MergedIs ==
  ASSUME SyncAssumption, Typed, NEW d \in Devices, job[d].at = "fetched", NEW n \in Names
  PROVE  /\ Merged(d)[n] = Reconciled(ledger[d][n], job[d].bundle.tombstone[n])
         /\ Merged(d)[n] \in Entries /\ Merged(d)[n].through \in Nat
         /\ ledger[d][n] \in Entries /\ job[d].bundle.tombstone[n] \in Tombstones
         /\ Buried(d)[n] = Retired(history[d][n], Merged(d)[n].through)
  <1>1. job[d] \in Fetches
    BY JobIs
  <1>2. ledger[d][n] \in Entries /\ job[d].bundle.tombstone[n] \in Tombstones
    BY <1>1 DEF Typed, Fetches, Bundles
  <1>3. Merged(d)[n] = Reconciled(ledger[d][n], job[d].bundle.tombstone[n])
    BY DEF Merged
  <1>4. Merged(d)[n] \in Entries
    BY <1>2, <1>3, ReconciledIs
  <1>5. Merged(d)[n].through \in Nat
    BY <1>4, VersionsAre DEF Entries
  <1> QED BY <1>2, <1>3, <1>4, <1>5 DEF Buried

\* What an import does to a secret: nothing, or it takes the active version of
\* the bundle, if that does not conflict.
LEMMA ImportIs ==
  ASSUME SyncAssumption, Typed, NEW d \in Devices, job[d].at = "fetched",
         NEW b, b = job[d].bundle, BundleSound(b), NEW i, i = Import(d), NEW n \in Names
  PROVE  /\ \/ i.secrets[n] = Buried(d)[n]
            \/ /\ n \in b.sees
               /\ \E v \in b.seen[n].active :
                    /\ i.secrets[n] = WithActive(Buried(d)[n], v, b.record[n].env)
                    /\ ~Refuses(job[d].mode, Buried(d)[n], v, b.record[n].env)
         /\ i.refused = {} /\ ~i.partial /\ n \in b.sees =>
               \A v \in b.seen[n].active :
                  \/ i.secrets[n] = WithActive(Buried(d)[n], v, b.record[n].env)
                  \/ i.secrets[n] = Buried(d)[n] /\ \E w \in Active(Buried(d)[n]) : w > v
  <1> DEFINE secrets == Buried(d)
             known == {m \in b.sees : b.seen[m].active # {}}
             pick(m) == Max(b.seen[m].active)
             locked == {m \in known : d \notin b.record[m].keys}
             tried == {m \in known \ locked : ~Skips(job[d].mode, secrets[m], pick(m))}
             refused == {m \in tried : Refuses(job[d].mode, secrets[m], pick(m), b.record[m].env)}
             taken == IF refused # {} \/ (job[d].mode = "sync" /\ locked # {}) THEN {} ELSE tried
  <1>1. i = [refused |-> refused, partial |-> locked # {}, taken |-> taken,
             secrets |-> [m \in Names |-> IF m \in taken THEN WithActive(secrets[m], pick(m), b.record[m].env)
                                          ELSE secrets[m]]]
    BY DEF Import
  <1>2. i.refused = refused /\ i.partial = (locked # {}) /\ i.taken = taken
        /\ i.secrets[n] = IF n \in taken THEN WithActive(secrets[n], pick(n), b.record[n].env) ELSE secrets[n]
    <2> HIDE DEF secrets, pick, locked, refused, taken
    <2> QED BY <1>1
  <1>3. b \in Bundles
    BY JobIs DEF Fetches
  <1>4. ASSUME n \in b.sees, NEW v \in b.seen[n].active
        PROVE  pick(n) = v
    <2>1. b.seen[n] \in Sightings
      BY <1>3, <1>4, ForSomeIs DEF BundleSound, Bundles
    <2>2. b.seen[n].active \in SUBSET Versions /\ \A w \in b.seen[n].active : w = v
      BY <1>4, <2>1 DEF Sightings, BundleSound
    <2> QED BY <2>2, OneIsMax
  <1>5. \/ i.secrets[n] = secrets[n]
        \/ /\ n \in b.sees
           /\ \E v \in b.seen[n].active :
                /\ i.secrets[n] = WithActive(secrets[n], v, b.record[n].env)
                /\ ~Refuses(job[d].mode, secrets[n], v, b.record[n].env)
    <2>1. CASE n \notin taken
      BY <1>2, <2>1
    <2>2. CASE n \in taken
      <3>1. n \in tried /\ refused = {}
        BY <2>2
      <3>2. n \in b.sees /\ b.seen[n].active # {} /\ ~Refuses(job[d].mode, secrets[n], pick(n), b.record[n].env)
        BY <3>1
      <3>3. PICK v \in b.seen[n].active : pick(n) = v
        BY <3>2, <1>4
      <3>4. i.secrets[n] = WithActive(secrets[n], pick(n), b.record[n].env)
        BY <1>2, <2>2
      <3> HIDE DEF secrets, pick
      <3> QED BY <3>2, <3>3, <3>4
    <2> QED BY <2>1, <2>2
  <1>6. ASSUME i.refused = {}, ~i.partial, n \in b.sees, NEW v \in b.seen[n].active
        PROVE  \/ i.secrets[n] = WithActive(secrets[n], v, b.record[n].env)
               \/ i.secrets[n] = secrets[n] /\ \E w \in Active(secrets[n]) : w > v
    <2>1. n \in known /\ locked = {} /\ refused = {} /\ pick(n) = v
      BY <1>2, <1>4, <1>6
    <2>2. CASE Skips(job[d].mode, secrets[n], pick(n))
      <3>1. n \notin taken /\ \E w \in Active(secrets[n]) : w > v
        BY <2>1, <2>2 DEF Skips
      <3> QED BY <3>1, <1>2
    <2>3. CASE ~Skips(job[d].mode, secrets[n], pick(n))
      <3>1. n \in taken
        BY <2>1, <2>3
      <3> QED BY <3>1, <1>2, <2>1
    <2> QED BY <2>2, <2>3
  <1> QED BY <1>5, <1>6

\* What is left of a secret by the import of one bundle.
Keeps(d, n, b, old, new, entry) ==
    /\ new \in [Versions -> LocalVersions] /\ OneActive(new) /\ entry \in Entries
    /\ \A v \in Active(new) : \/ v > entry.through
                              \/ n \in b.sees /\ v \in b.seen[n].active /\ new[v].env = b.record[n].env
    /\ job[d].mode # "force" =>
         \A v \in Active(old) : Has(new, v) /\ Value(new[v]) = Value(old[v])

LEMMA ImportKeeps ==
  ASSUME SyncAssumption, BaseInv, NEW d \in Devices, job[d].at = "fetched", NEW n \in Names
  PROVE  Keeps(d, n, job[d].bundle, history[d][n], Import(d).secrets[n], Merged(d)[n])
  <1> SUFFICES ASSUME NEW b, NEW old, NEW new, NEW entry,
                      b = job[d].bundle, old = history[d][n], new = Import(d).secrets[n], entry = Merged(d)[n]
               PROVE  Keeps(d, n, b, old, new, entry)
    OBVIOUS
  <1>1. Typed /\ BundleSound(b) /\ b \in Bundles /\ LocalSound(d, n) /\ job[d].mode \in {"pull", "force", "sync"}
    BY JobIs DEF BaseInv, Fetches
  <1>2. PICK r : r = Buried(d)[n]
    OBVIOUS
  <1>3. r = Retired(old, entry.through) /\ entry \in Entries /\ entry.through \in Nat
    BY <1>1, <1>2, MergedIs
  <1>4. old \in [Versions -> LocalVersions] /\ OneActive(old)
    BY <1>1 DEF Typed, LocalSound
  <1>5. /\ r \in [Versions -> LocalVersions]
        /\ \A v \in Versions : (Has(r, v) <=> Has(old, v)) /\ r[v].env = old[v].env
        /\ \A v \in Versions : v <= entry.through /\ Has(old, v) => r[v].status = "deleted"
    BY <1>3, <1>4, RetiredIs
  <1>6. Active(r) = {v \in Active(old) : v > entry.through}
    BY <1>3, <1>4, RetiredActive
  <1>7. Active(old) \subseteq Versions /\ \A v \in Active(old) : Has(old, v)
    BY DEF Active, Has
  <1>8. CASE new = r
    <2>1. OneActive(new) /\ \A v \in Active(new) : v > entry.through
      BY <1>4, <1>6, <1>8 DEF OneActive
    <2>2. \A v \in Active(old) : Has(new, v) /\ Value(new[v]) = Value(old[v])
      BY <1>5, <1>7, <1>8 DEF Value
    <2> QED BY <1>3, <1>5, <1>8, <2>1, <2>2 DEF Keeps
  <1>9. ASSUME n \in b.sees, NEW v \in b.seen[n].active, new = WithActive(r, v, b.record[n].env),
               ~Refuses(job[d].mode, r, v, b.record[n].env)
        PROVE  /\ new \in [Versions -> LocalVersions] /\ OneActive(new)
               /\ \A w \in Active(new) : w = v /\ new[w].env = b.record[n].env
               /\ job[d].mode # "force" =>
                    \A w \in Active(old) : Has(new, w) /\ Value(new[w]) = Value(old[w])
    <2>1. b.seen[n] \in Sightings /\ b.record[n] \in RemoteVersions
      BY <1>1, <1>9, ForSomeIs DEF BundleSound, Bundles
    <2>2. PICK env : env = b.record[n].env
      OBVIOUS
    <2>3. v \in Versions /\ env \in Envelopes
      <3>1. b.record[n] # Unknown
        BY <1>1, <1>9 DEF BundleSound
      <3>2. b.record[n] \in [status : {"active", "stale", "deleted"}, env : Envelopes, keys : (SUBSET Devices) \ {{}}]
        BY <2>1, <3>1 DEF RemoteVersions
      <3> QED BY <1>9, <2>1, <2>2, <3>2 DEF Sightings
    <2>4. /\ new \in [Versions -> LocalVersions] /\ Active(new) = {v} /\ new[v].env = env
          /\ \A w \in Versions \ {v} : (Has(new, w) <=> Has(r, w)) /\ new[w].env = r[w].env
      <3>1. new = WithActive(r, v, env) /\ r \in [Versions -> LocalVersions]
        BY <1>5, <1>9, <2>2
      <3>2. LET t == WithActive(r, v, env) IN
            /\ t \in [Versions -> LocalVersions] /\ Active(t) = {v} /\ t[v].env = env
            /\ \A w \in Versions \ {v} : (Has(t, w) <=> Has(r, w)) /\ t[w].env = r[w].env
        BY <2>3, <3>1, WithActiveIs
      <3> QED BY <3>1, <3>2
    <2>5. \A w \in Active(old) \ {v} : Has(new, w) /\ Value(new[w]) = Value(old[w])
      BY <1>5, <1>7, <2>4 DEF Value
    <2>6. ASSUME job[d].mode # "force", v \in Active(old)
          PROVE  Value(old[v]) = env[2]
      <3>1. Has(r, v) /\ r[v].env = old[v].env /\ v \in Present(r)
        BY <1>5, <1>7, <2>3, <2>6 DEF Present
      <3>2. CASE v \in Active(r)
        <4>1. ~(Value(r[v]) # env[2])
          BY <1>1, <1>9, <2>2, <2>6, <3>1, <3>2 DEF Refuses
        <4> QED BY <4>1, <3>1 DEF Value
      <3>3. CASE v \notin Active(r)
        <4>1. ~(v > entry.through)
          BY <1>6, <2>6, <3>3
        <4>2. CASE job[d].mode = "pull"
          <5>1. Active(r) = {}
            BY <1>4, <1>6, <2>6, <4>1 DEF OneActive
          <5>2. r[v].env = env
            BY <1>9, <2>2, <3>1, <4>2, <5>1 DEF Refuses
          <5> QED BY <5>2, <3>1 DEF Value
        <4>3. CASE job[d].mode = "sync"
          <5>1. v > b.tombstone[n].through /\ Shared(n, v, env)
            BY <1>1, <1>9, <2>2 DEF BundleSound
          <5>2. entry = Reconciled(ledger[d][n], b.tombstone[n]) /\ ledger[d][n] \in Entries
                /\ b.tombstone[n] \in Tombstones
            BY <1>1, MergedIs
          <5>3. b.tombstone[n].through = 0 /\ entry = ledger[d][n]
            BY <4>1, <5>1, <5>2, ReconciledIs
          <5>4. Shared(n, v, old[v].env)
            BY <1>1, <2>6, <4>1, <5>3 DEF LocalSound
          <5> QED BY <5>1, <5>4 DEF Shared, Value
        <4> QED BY <1>1, <2>6, <4>2, <4>3
      <3> QED BY <3>2, <3>3
    <2>7. Has(new, v)
      BY <2>3, <2>4 DEF Active, Has
    <2>8. ASSUME job[d].mode # "force", NEW w \in Active(old)
          PROVE  Has(new, w) /\ Value(new[w]) = Value(old[w])
      <3>1. CASE w = v
        <4>1. Value(new[v]) = env[2]
          BY <2>4 DEF Value
        <4> QED BY <2>6, <2>7, <2>8, <3>1, <4>1
      <3> QED BY <3>1, <2>5
    <2>9. OneActive(new) /\ \A w \in Active(new) : w = v /\ new[w].env = b.record[n].env
      BY <2>2, <2>4 DEF OneActive
    <2> QED BY <2>4, <2>8, <2>9
  <1>10. \/ new = r
         \/ n \in b.sees /\ \E v \in b.seen[n].active :
              new = WithActive(r, v, b.record[n].env) /\ ~Refuses(job[d].mode, r, v, b.record[n].env)
    BY <1>1, <1>2, ImportIs
  <1>11. CASE n \in b.sees /\ \E v \in b.seen[n].active :
                 new = WithActive(r, v, b.record[n].env) /\ ~Refuses(job[d].mode, r, v, b.record[n].env)
    <2>1. PICK v \in b.seen[n].active :
             new = WithActive(r, v, b.record[n].env) /\ ~Refuses(job[d].mode, r, v, b.record[n].env)
      BY <1>11
    <2>2. /\ new \in [Versions -> LocalVersions] /\ OneActive(new)
          /\ \A w \in Active(new) : w = v /\ new[w].env = b.record[n].env
          /\ job[d].mode # "force" => \A w \in Active(old) : Has(new, w) /\ Value(new[w]) = Value(old[w])
      BY <1>9, <1>11, <2>1
    <2> QED BY <1>3, <1>11, <2>1, <2>2 DEF Keeps
  <1> QED BY <1>8, <1>10, <1>11


-----------------------------------------------------------------------------
(* A step of the base invariant.                                           *)

AnyJob == {Idle} \cup Fetches \cup Pulls \cup Plans

\* The control plane loses no version, no envelope and no key.
Grows(n) ==
    \A v \in Versions : Has(remote[n], v) =>
        /\ Has(remote'[n], v) /\ remote'[n][v].env = remote[n][v].env
        /\ remote[n][v].keys \subseteq remote'[n][v].keys

LEMMA SharedGrows ==
  ASSUME NEW n \in Names, Grows(n), NEW v \in Versions, NEW env, Shared(n, v, env)
  PROVE  Shared(n, v, env)'
  BY DEF Grows, Shared

LEMMA BundleCarries ==
  ASSUME NEW b \in Bundles, BundleSound(b), \A n \in Names : Grows(n)
  PROVE  BundleSound(b)'
  <1>1. \A n \in b.sees : n \in Names /\ b.seen[n].active \subseteq Versions
    <2>1. b.seen \in ForSome(Sightings) /\ DOMAIN b.seen = b.sees /\ b.sees \in SUBSET Names
      BY DEF BundleSound, Bundles
    <2>2. \A n \in b.sees : b.seen[n] \in Sightings
      BY <2>1, ForSomeIs
    <2> QED BY <2>1, <2>2 DEF Sightings
  <1>2. ASSUME NEW n \in b.sees, NEW v \in b.seen[n].active
        PROVE  Shared(n, v, b.record[n].env)'
    <2>1. PICK env : env = b.record[n].env
      OBVIOUS
    <2>2. Shared(n, v, env)
      BY <1>2, <2>1 DEF BundleSound
    <2>3. Shared(n, v, env)'
      BY <1>1, <1>2, <2>2, SharedGrows
    <2> QED BY <2>1, <2>3
  <1> QED BY <1>2 DEF BundleSound

LEMMA LocalCarries ==
  ASSUME Typed, NEW d \in Devices, NEW n \in Names, LocalSound(d, n), Grows(n),
         history'[d][n] = history[d][n], ledger'[d][n] = ledger[d][n]
  PROVE  LocalSound(d, n)'
  <1>1. PICK h : h = history[d][n]
    OBVIOUS
  <1>2. \A v \in Active(h) : v > ledger[d][n].through \/ Shared(n, v, h[v].env)
    BY <1>1 DEF LocalSound
  <1>3. \A v \in Active(h) : v > ledger[d][n].through \/ Shared(n, v, h[v].env)'
    <2> TAKE v \in Active(h)
    <2>1. v \in Versions
      BY DEF Active
    <2>2. PICK env : env = h[v].env
      OBVIOUS
    <2>3. Shared(n, v, env) => Shared(n, v, env)'
      BY <2>1, SharedGrows
    <2> QED BY <1>2, <2>2, <2>3
  <1>4. OneActive(h)
    BY <1>1 DEF LocalSound
  <1> QED BY <1>1, <1>3, <1>4 DEF LocalSound

LEMMA PlanCarries ==
  ASSUME Typed, NEW d \in Devices, NEW p \in Plans, PlanSound(d, p), \A n \in Names : Grows(n),
         history'[d] = history[d], ledger'[d] = ledger[d]
  PROVE  PlanSound(d, p)'
  <1>1. \A n \in DOMAIN p.rewraps : n \in Names /\ p.rewraps[n] \in Versions
    BY ForSomeIs DEF Plans
  <1>2. PICK h : h = history[d]
    OBVIOUS
  <1>3. \A n \in DOMAIN p.rewraps : p.rewraps[n] \in Active(h[n]) /\ Shared(n, p.rewraps[n], h[n][p.rewraps[n]].env)
    BY <1>2 DEF PlanSound
  <1>4. \A n \in DOMAIN p.rewraps : Shared(n, p.rewraps[n], h[n][p.rewraps[n]].env)'
    BY <1>1, <1>3, SharedGrows
  <1> QED BY <1>2, <1>3, <1>4 DEF PlanSound

LEMMA BaseStep ==
  ASSUME BaseInv, Typed', \A n \in Names : RemoteSound(n)' /\ Grows(n),
         \A d \in Devices, n \in Names :
            (history'[d][n] = history[d][n] /\ ledger'[d][n] = ledger[d][n]) \/ LocalSound(d, n)',
         \A d \in Devices :
            \/ job'[d] = job[d] /\ history'[d] = history[d] /\ ledger'[d] = ledger[d]
            \/ (/\ job[d].at = "fetched" => BundleSound(job[d].bundle)
                /\ job[d].at = "planned" => PlanSound(d, job[d]))'
  PROVE  BaseInv'
  <1>1. \A d \in Devices, n \in Names : LocalSound(d, n)'
    BY LocalCarries DEF BaseInv
  <1>2. ASSUME NEW d \in Devices
        PROVE  (/\ job[d].at = "fetched" => BundleSound(job[d].bundle)
                /\ job[d].at = "planned" => PlanSound(d, job[d]))'
    <2>1. CASE job'[d] = job[d] /\ history'[d] = history[d] /\ ledger'[d] = ledger[d]
      <3>1. PICK j : j = job[d]
        OBVIOUS
      <3>2. /\ j.at = "fetched" => j.bundle \in Bundles /\ BundleSound(j.bundle)
            /\ j.at = "planned" => j \in Plans /\ PlanSound(d, j)
        BY <3>1, JobIs DEF BaseInv, Fetches
      <3>3. j.at = "fetched" => BundleSound(j.bundle)'
        BY <3>2, BundleCarries
      <3>4. j.at = "planned" => PlanSound(d, j)'
        BY <2>1, <3>2, PlanCarries DEF BaseInv
      <3> QED BY <2>1, <3>1, <3>3, <3>4
    <2> QED BY <2>1
  <1> QED BY <1>1, <1>2 DEF BaseInv

LEMMA JobTurns ==
  ASSUME Typed, NEW d \in Devices, NEW x \in AnyJob, job' = [job EXCEPT ![d] = x]
  PROVE  /\ job' \in [Devices -> AnyJob] /\ job'[d] = x
         /\ \A e \in Devices \ {d} : job'[e] = job[e]
  BY DEF Typed, AnyJob

LEMMA Still ==
  ASSUME NEW n \in Names, remote'[n] = remote[n]
  PROVE  Grows(n)
  BY DEF Grows

\* Only the job of d changes.
LEMMA QuietStep ==
  ASSUME BaseInv, NEW d \in Devices, NEW x \in AnyJob, job' = [job EXCEPT ![d] = x],
         UNCHANGED <<history, ledger, remote, tombstone, trusted>>,
         x.at = "fetched" => BundleSound(x.bundle), x.at = "planned" => PlanSound(d, x)
  PROVE  BaseInv'
  <1>1. /\ job' \in [Devices -> AnyJob] /\ job'[d] = x
        /\ \A e \in Devices \ {d} : job'[e] = job[e]
    BY JobTurns DEF BaseInv
  <1>2. Typed'
    BY <1>1 DEF BaseInv, Typed, AnyJob
  <1>3. \A n \in Names : RemoteSound(n)' /\ Grows(n)
    BY Still DEF BaseInv, RemoteSound
  <1>4. (/\ job[d].at = "fetched" => BundleSound(job[d].bundle)
         /\ job[d].at = "planned" => PlanSound(d, job[d]))'
    <2>1. x.at = "fetched" => BundleSound(x.bundle)'
      BY DEF BundleSound, Shared
    <2>2. x.at = "planned" => PlanSound(d, x)'
      BY DEF PlanSound, Shared
    <2> QED BY <1>1, <2>1, <2>2
  <1> QED BY <1>1, <1>2, <1>3, <1>4, BaseStep

\* The command of d ends, and nothing else.
LEMMA EndStep ==
  ASSUME BaseInv, NEW d \in Devices, job' = [job EXCEPT ![d] = Idle],
         UNCHANGED <<history, ledger, remote, tombstone, trusted>>
  PROVE  BaseInv'
  <1>1. Idle \in AnyJob /\ Idle.at # "fetched" /\ Idle.at # "planned"
    BY DEF AnyJob, Idle
  <1>2. PICK x : x = Idle
    OBVIOUS
  <1> QED BY <1>1, <1>2, QuietStep


-----------------------------------------------------------------------------
(* The actions, and the base invariant.                                    *)

LEMMA NextVersionIs ==
  ASSUME SyncAssumption, Typed, NEW d \in Devices, NEW n \in Names
  PROVE  /\ NextVersion(d, n) \in Nat \ {0}
         /\ NextVersion(d, n) > ledger[d][n].through /\ NextVersion(d, n) > Newest(history[d][n])
  <1>1. ledger[d][n].through \in 0 .. MaxVersion /\ Newest(history[d][n]) \in 0 .. MaxVersion
    BY NewestIs DEF Typed, Entries
  <1>2. {Newest(history[d][n]), ledger[d][n].through} \in SUBSET (0 .. MaxVersion) /\ MaxVersion \in Nat
    BY <1>1, VersionsAre
  <1>3. Max({Newest(history[d][n]), ledger[d][n].through}) \in 0 .. MaxVersion
        /\ Max({Newest(history[d][n]), ledger[d][n].through}) >= ledger[d][n].through
        /\ Max({Newest(history[d][n]), ledger[d][n].through}) >= Newest(history[d][n])
    BY <1>2, MaxIs
  <1> QED BY <1>1, <1>2, <1>3 DEF NextVersion

\* A device changes its own file, between requests.
LEMMA LocalStep ==
  ASSUME BaseInv, NEW d \in Devices, UNCHANGED <<remote, tombstone, trusted>>,
         history' \in [Devices -> [Names -> [Versions -> LocalVersions]]],
         ledger' \in [Devices -> [Names -> Entries]],
         \A e \in Devices \ {d} : history'[e] = history[e] /\ ledger'[e] = ledger[e],
         \A n \in Names : (history'[d][n] = history[d][n] /\ ledger'[d][n] = ledger[d][n]) \/ LocalSound(d, n)',
         NEW x \in AnyJob, job' = [job EXCEPT ![d] = x], x.at # "fetched", x.at # "planned"
  PROVE  BaseInv'
  <1>1. /\ job' \in [Devices -> AnyJob] /\ job'[d] = x
        /\ \A e \in Devices \ {d} : job'[e] = job[e]
    BY JobTurns DEF BaseInv
  <1>2. Typed'
    BY <1>1 DEF BaseInv, Typed, AnyJob
  <1>3. \A n \in Names : RemoteSound(n)' /\ Grows(n)
    BY Still DEF BaseInv, RemoteSound
  <1> QED BY <1>1, <1>2, <1>3, BaseStep

\* What Add makes of a secret.
LEMMA AddIs ==
  ASSUME SyncAssumption, Typed, NEW d \in Devices, NEW n \in Names, NEW x \in Values, Add(d, n, x)
  PROVE  LET v == NextVersion(d, n) IN
         /\ v \in Versions /\ v > ledger[d][n].through /\ v \notin Present(history[d][n])
         /\ history' \in [Devices -> [Names -> [Versions -> LocalVersions]]]
         /\ ledger' \in [Devices -> [Names -> Entries]]
         /\ \A e \in Devices, m \in Names : e # d \/ m # n => history'[e][m] = history[e][m] /\ ledger'[e][m] = ledger[e][m]
         /\ \A e \in Devices \ {d} : history'[e] = history[e] /\ ledger'[e] = ledger[e]
         /\ Active(history'[d][n]) = {v}
         /\ ledger'[d][n].through = ledger[d][n].through /\ ledger'[d][n].at = ledger[d][n].at
  <1> DEFINE v == NextVersion(d, n)
             s == WithActive(history[d][n], v, <<d, x>>)
             l == [ledger[d][n] EXCEPT !.since = IF ledger[d][n].through > 0 THEN @ \cup {v} ELSE {}]
  <1>1. v \in Nat \ {0} /\ v > ledger[d][n].through /\ v > Newest(history[d][n])
    BY NextVersionIs
  <1>2. v \in Versions
    BY <1>1, VersionsAre DEF Add, Versions
  <1>3. v \notin Present(history[d][n])
    <2>1. \A w \in Present(history[d][n]) : w <= Newest(history[d][n])
      BY NewestIs
    <2>2. Newest(history[d][n]) \in 0 .. MaxVersion
      BY NewestIs
    <2> QED BY <1>1, <2>1, <2>2, VersionsAre
  <1>4. history[d][n] \in [Versions -> LocalVersions] /\ <<d, x>> \in Envelopes /\ ledger[d][n] \in Entries
    BY DEF Typed, Envelopes
  <1> HIDE DEF v
  <1>5. s \in [Versions -> LocalVersions] /\ Active(s) = {v}
    BY <1>2, <1>4, WithActiveIs
  <1>6. l \in Entries /\ l.through = ledger[d][n].through /\ l.at = ledger[d][n].at
    BY <1>2, <1>4 DEF Entries
  <1>7. history' = [history EXCEPT ![d][n] = s]
    BY DEF Add, v
  <1>8. ledger' = [ledger EXCEPT ![d][n] = l]
    <2>1. ledger' = [ledger EXCEPT ![d][n].since = IF ledger[d][n].through > 0 THEN @ \cup {v} ELSE {}]
      BY DEF Add, v
    <2> QED BY <2>1 DEF Typed
  <1> HIDE DEF s, l
  <1>9. /\ history' \in [Devices -> [Names -> [Versions -> LocalVersions]]] /\ history'[d][n] = s
        /\ \A e \in Devices, m \in Names : e # d \/ m # n => history'[e][m] = history[e][m]
        /\ \A e \in Devices \ {d} : history'[e] = history[e]
    BY <1>5, <1>7 DEF Typed
  <1>10. /\ ledger' \in [Devices -> [Names -> Entries]] /\ ledger'[d][n] = l
         /\ \A e \in Devices, m \in Names : e # d \/ m # n => ledger'[e][m] = ledger[e][m]
         /\ \A e \in Devices \ {d} : ledger'[e] = ledger[e]
    BY <1>6, <1>8 DEF Typed
  <1> QED BY <1>1, <1>2, <1>3, <1>5, <1>6, <1>9, <1>10 DEF v

LEMMA FreeStays ==
  ASSUME Typed, NEW d \in Devices, Free(d), UNCHANGED job
  PROVE  job[d] \in AnyJob /\ job' = [job EXCEPT ![d] = job[d]] /\ job[d].at # "fetched" /\ job[d].at # "planned"
  BY DEF Typed, Free, AnyJob, Idle

LEMMA BAdd ==
  ASSUME SyncAssumption, BaseInv, NEW d \in Devices, NEW n \in Names, NEW x \in Values, Add(d, n, x)
  PROVE  BaseInv'
  <1>1. PICK v : v = NextVersion(d, n)
    OBVIOUS
  <1>2. Typed
    BY DEF BaseInv
  <1>3. /\ v > ledger[d][n].through
        /\ history' \in [Devices -> [Names -> [Versions -> LocalVersions]]]
        /\ ledger' \in [Devices -> [Names -> Entries]]
        /\ \A e \in Devices, m \in Names : e # d \/ m # n => history'[e][m] = history[e][m] /\ ledger'[e][m] = ledger[e][m]
        /\ \A e \in Devices \ {d} : history'[e] = history[e] /\ ledger'[e] = ledger[e]
        /\ Active(history'[d][n]) = {v} /\ ledger'[d][n].through = ledger[d][n].through
    BY <1>1, <1>2, AddIs
  <1>4. LocalSound(d, n)'
    BY <1>3 DEF LocalSound, OneActive, Active
  <1>5. /\ UNCHANGED <<job, remote, tombstone, trusted>> /\ Free(d)
    BY DEF Add
  <1>6. job[d] \in AnyJob /\ job' = [job EXCEPT ![d] = job[d]] /\ job[d].at # "fetched" /\ job[d].at # "planned"
    BY <1>2, <1>5, FreeStays
  <1>7. \A m \in Names : (history'[d][m] = history[d][m] /\ ledger'[d][m] = ledger[d][m]) \/ LocalSound(d, m)'
    BY <1>3, <1>4
  <1>8. PICK j : j = job[d]
    OBVIOUS
  <1> QED BY <1>3, <1>5, <1>6, <1>7, <1>8, LocalStep

LEMMA RemoveIs ==
  ASSUME Typed, NEW d \in Devices, NEW n \in Names, RemoveSecret(d, n)
  PROVE  /\ history' \in [Devices -> [Names -> [Versions -> LocalVersions]]]
         /\ ledger' \in [Devices -> [Names -> Entries]]
         /\ \A e \in Devices, m \in Names : e # d \/ m # n => history'[e][m] = history[e][m] /\ ledger'[e][m] = ledger[e][m]
         /\ \A e \in Devices \ {d} : history'[e] = history[e] /\ ledger'[e] = ledger[e]
         /\ Active(history'[d][n]) = {}
         /\ ledger'[d][n].through = ledger[d][n].through /\ ledger'[d][n].at = ledger[d][n].at
  <1> DEFINE s == [v \in Versions |-> Absent]
             l == [ledger[d][n] EXCEPT !.since = {}]
  <1>1. s \in [Versions -> LocalVersions] /\ Active(s) = {}
    BY DEF LocalVersions, Active, Absent
  <1>2. l \in Entries /\ l.through = ledger[d][n].through /\ l.at = ledger[d][n].at
    <2>1. ledger[d][n] \in Entries /\ {} \in SUBSET Versions
      BY DEF Typed
    <2> QED BY <2>1 DEF Entries
  <1>3. history' = [history EXCEPT ![d][n] = s] /\ ledger' = [ledger EXCEPT ![d][n] = l]
    BY DEF RemoveSecret, Typed
  <1> HIDE DEF s, l
  <1>4. /\ history' \in [Devices -> [Names -> [Versions -> LocalVersions]]] /\ history'[d][n] = s
        /\ \A e \in Devices, m \in Names : e # d \/ m # n => history'[e][m] = history[e][m]
        /\ \A e \in Devices \ {d} : history'[e] = history[e]
    BY <1>1, <1>3 DEF Typed
  <1>5. /\ ledger' \in [Devices -> [Names -> Entries]] /\ ledger'[d][n] = l
        /\ \A e \in Devices, m \in Names : e # d \/ m # n => ledger'[e][m] = ledger[e][m]
        /\ \A e \in Devices \ {d} : ledger'[e] = ledger[e]
    BY <1>2, <1>3 DEF Typed
  <1> QED BY <1>1, <1>2, <1>4, <1>5

LEMMA BRemove ==
  ASSUME BaseInv, NEW d \in Devices, NEW n \in Names, RemoveSecret(d, n)
  PROVE  BaseInv'
  <1>1. Typed
    BY DEF BaseInv
  <1>2. /\ history' \in [Devices -> [Names -> [Versions -> LocalVersions]]]
        /\ ledger' \in [Devices -> [Names -> Entries]]
        /\ \A e \in Devices, m \in Names : e # d \/ m # n => history'[e][m] = history[e][m] /\ ledger'[e][m] = ledger[e][m]
        /\ \A e \in Devices \ {d} : history'[e] = history[e] /\ ledger'[e] = ledger[e]
        /\ Active(history'[d][n]) = {}
    BY <1>1, RemoveIs
  <1>3. LocalSound(d, n)'
    BY <1>2 DEF LocalSound, OneActive
  <1>4. UNCHANGED <<job, remote, tombstone, trusted>> /\ Free(d)
    BY DEF RemoveSecret
  <1>5. job[d] \in AnyJob /\ job' = [job EXCEPT ![d] = job[d]] /\ job[d].at # "fetched" /\ job[d].at # "planned"
    BY <1>1, <1>4, FreeStays
  <1>6. \A m \in Names : (history'[d][m] = history[d][m] /\ ledger'[d][m] = ledger[d][m]) \/ LocalSound(d, m)'
    BY <1>2, <1>3
  <1> QED BY <1>2, <1>4, <1>5, <1>6, LocalStep

\* What a bundle holds when it is read.
LEMMA BundleIs ==
  ASSUME SyncAssumption, BaseInv, NEW sees \in SUBSET Names
  PROVE  Bundle(sees) \in Bundles /\ BundleSound(Bundle(sees)) /\ Bundle(sees).sees = sees
  <1> DEFINE t == [n \in Names |-> IF n \in sees THEN tombstone[n] ELSE NoTombstone]
             e == [n \in sees |-> Seen(n)]
             r == [n \in sees |-> IF Active(remote[n]) = {} THEN Unknown ELSE remote[n][Max(Active(remote[n]))]]
             b == [sees |-> sees, tombstone |-> t, seen |-> e, record |-> r]
  <1>1. b = Bundle(sees)
    BY DEF Bundle
  <1>2. NoTombstone \in Tombstones
    BY VersionsAre DEF NoTombstone, Tombstones, SyncAssumption
  <1>3. t \in [Names -> Tombstones]
    BY <1>2 DEF BaseInv, Typed
  <1>4. \A n \in sees : Seen(n) \in Sightings
    BY DEF BaseInv, Typed, Tombstones, Seen, Sightings, Active, Present
  <1>5. e \in ForSome(Sightings)
    BY <1>4, SomeIs
  <1>6. ASSUME NEW n \in sees, NEW v \in Active(remote[n])
        PROVE  /\ Max(Active(remote[n])) = v /\ v > tombstone[n].through
               /\ remote[n][v] \in RemoteVersions /\ remote[n][v] # Unknown /\ Has(remote[n], v)
    <2>1. RemoteSound(n) /\ v \in Versions /\ Active(remote[n]) \in SUBSET Versions
      BY DEF BaseInv, Active
    <2>2. Max(Active(remote[n])) = v
      BY <1>6, <2>1, OneIsMax DEF RemoteSound, OneActive
    <2>3. remote[n][v] \in RemoteVersions
      BY <2>1 DEF BaseInv, Typed
    <2> QED BY <1>6, <2>1, <2>2, <2>3 DEF Active, Has, Unknown, RemoteSound
  <1>7. \A n \in sees : r[n] \in RemoteVersions
    BY <1>6 DEF RemoteVersions
  <1>8. r \in ForSome(RemoteVersions)
    BY <1>7, SomeIs
  <1>9. \A n \in sees : \A v \in Active(remote[n]) : r[n] = remote[n][v]
    BY <1>6
  <1>10. \A n \in sees : e[n].active = Active(remote[n]) /\ t[n] = tombstone[n]
    BY DEF Seen
  <1>11. DOMAIN e = sees /\ DOMAIN r = sees /\ \A n \in Names \ sees : t[n] = NoTombstone
    OBVIOUS
  <1> HIDE DEF t, e, r
  <1>12. b \in Bundles
    BY <1>3, <1>5, <1>8 DEF Bundles
  <1>13. BundleSound(b)
    <2>1. \A n \in sees : \A v, w \in e[n].active : v = w
      BY <1>10 DEF BaseInv, RemoteSound, OneActive
    <2>2. \A n \in sees : \A v \in e[n].active : v > t[n].through /\ r[n] # Unknown /\ Shared(n, v, r[n].env)
      BY <1>6, <1>9, <1>10 DEF Shared
    <2> QED BY <1>11, <2>1, <2>2 DEF BundleSound
  <1> QED BY <1>1, <1>12, <1>13

LEMMA BFetch ==
  ASSUME SyncAssumption, BaseInv, NEW d \in Devices, NEW mode \in Commands, Fetch(d, mode)
  PROVE  BaseInv'
  <1>1. PICK sees \in SUBSET Names :
           job' = [job EXCEPT ![d] = [at |-> "fetched", mode |-> mode, bundle |-> Bundle(sees)]]
    BY DEF Fetch
  <1>2. PICK b : b = Bundle(sees)
    OBVIOUS
  <1>3. b \in Bundles /\ BundleSound(b)
    BY <1>2, BundleIs
  <1>4. mode \in {"pull", "force", "sync"}
    BY DEF Fetch, SyncAssumption
  <1>5. PICK x : x = [at |-> "fetched", mode |-> mode, bundle |-> b]
    OBVIOUS
  <1>6. x \in AnyJob /\ x.at = "fetched" /\ x.bundle = b /\ job' = [job EXCEPT ![d] = x]
    BY <1>1, <1>2, <1>3, <1>4, <1>5 DEF AnyJob, Fetches
  <1>7. UNCHANGED <<history, ledger, remote, tombstone, trusted>>
    BY DEF Fetch
  <1> QED BY <1>3, <1>6, <1>7, QuietStep


LEMMA ImportShape ==
  ASSUME NEW d \in Devices
  PROVE  Import(d).secrets = [n \in Names |-> Import(d).secrets[n]]
  <1>1. \E f : Import(d).secrets = [n \in Names |-> f[n]]
    <2> DEFINE b == job[d].bundle
               known == {n \in b.sees : b.seen[n].active # {}}
               pick(n) == Max(b.seen[n].active)
               locked == {n \in known : d \notin b.record[n].keys}
               tried == {n \in known \ locked : ~Skips(job[d].mode, Buried(d)[n], pick(n))}
               refused == {n \in tried : Refuses(job[d].mode, Buried(d)[n], pick(n), b.record[n].env)}
               taken == IF refused # {} \/ (job[d].mode = "sync" /\ locked # {}) THEN {} ELSE tried
               f == [n \in Names |-> IF n \in taken THEN WithActive(Buried(d)[n], pick(n), b.record[n].env)
                                     ELSE Buried(d)[n]]
    <2>1. Import(d) = [refused |-> refused, partial |-> locked # {}, taken |-> taken, secrets |-> f]
      BY DEF Import
    <2>2. f = [n \in Names |-> f[n]]
      OBVIOUS
    <2> HIDE DEF refused, locked, taken, f
    <2>3. Import(d).secrets = f
      BY <2>1
    <2> QED BY <2>2, <2>3
  <1>2. PICK f : Import(d).secrets = [n \in Names |-> f[n]]
    BY <1>1
  <1>3. \A n \in Names : Import(d).secrets[n] = f[n]
    BY <1>2
  <1> QED BY <1>2, <1>3

\* The import saves.
LEMMA AbsorbedIs ==
  ASSUME SyncAssumption, BaseInv, NEW d \in Devices, job[d].at = "fetched",
         NEW i, i = Import(d).secrets, history' = [history EXCEPT ![d] = i],
         NEW l, l = Merged(d), ledger' = [ledger EXCEPT ![d] = l], UNCHANGED <<remote, tombstone>>
  PROVE  /\ history' \in [Devices -> [Names -> [Versions -> LocalVersions]]]
         /\ ledger' \in [Devices -> [Names -> Entries]]
         /\ \A e \in Devices \ {d} : history'[e] = history[e] /\ ledger'[e] = ledger[e]
         /\ history'[d] = i /\ ledger'[d] = l
         /\ \A n \in Names : LocalSound(d, n)'
  <1>1. PICK b : b = job[d].bundle
    OBVIOUS
  <1>2. ASSUME NEW n \in Names
        PROVE  /\ i[n] \in [Versions -> LocalVersions] /\ OneActive(i[n]) /\ l[n] \in Entries
               /\ \A v \in Active(i[n]) : \/ v > l[n].through
                                          \/ n \in b.sees /\ v \in b.seen[n].active /\ i[n][v].env = b.record[n].env
    <2>1. PICK old : old = history[d][n]
      OBVIOUS
    <2>2. Keeps(d, n, b, old, i[n], l[n])
      BY <1>1, <2>1, ImportKeeps
    <2> QED BY <2>2 DEF Keeps
  <1>3. BundleSound(b)
    BY <1>1 DEF BaseInv
  <1>4. i = [n \in Names |-> i[n]]
    BY ImportShape
  <1>5. i \in [Names -> [Versions -> LocalVersions]]
    BY <1>2, <1>4
  <1>6. l \in [Names -> Entries]
    <2>1. l = [n \in Names |-> Reconciled(ledger[d][n], job[d].bundle.tombstone[n])]
      BY DEF Merged
    <2>2. \A n \in Names : Reconciled(ledger[d][n], job[d].bundle.tombstone[n]) = l[n]
      BY <2>1
    <2> QED BY <1>2, <2>1, <2>2
  <1>7. /\ history' \in [Devices -> [Names -> [Versions -> LocalVersions]]] /\ history'[d] = i
        /\ ledger' \in [Devices -> [Names -> Entries]] /\ ledger'[d] = l
        /\ \A e \in Devices \ {d} : history'[e] = history[e] /\ ledger'[e] = ledger[e]
    BY <1>5, <1>6 DEF BaseInv, Typed
  <1>8. ASSUME NEW n \in Names
        PROVE  LocalSound(d, n)'
    <2>1. ASSUME NEW v \in Active(i[n])
          PROVE  v > l[n].through \/ Shared(n, v, i[n][v].env)'
      <3>1. CASE n \in b.sees /\ v \in b.seen[n].active /\ i[n][v].env = b.record[n].env
        BY <1>3, <3>1 DEF BundleSound, Shared
      <3> QED BY <1>2, <3>1
    <2> QED BY <1>2, <1>7, <2>1 DEF LocalSound
  <1> QED BY <1>7, <1>8

LEMMA PulledIs ==
  ASSUME Typed, NEW d \in Devices, job[d].at = "fetched",
         NEW x, x = IF job[d].mode # "sync" THEN Idle
                    ELSE [at |-> "pulled", sees |-> job[d].bundle.sees, seen |-> job[d].bundle.seen]
  PROVE  x \in AnyJob /\ x.at # "fetched" /\ x.at # "planned"
  <1>1. job[d].bundle.sees \in SUBSET Names /\ job[d].bundle.seen \in ForSome(Sightings)
    BY JobIs DEF Fetches, Bundles
  <1> QED BY <1>1 DEF AnyJob, Pulls, Idle

LEMMA BAbsorb ==
  ASSUME SyncAssumption, BaseInv, NEW d \in Devices, Absorb(d)
  PROVE  BaseInv'
  <1>1. Typed /\ job[d].at = "fetched" /\ UNCHANGED <<remote, tombstone, trusted>>
    BY DEF Absorb, BaseInv
  <1>2. PICK x : x = IF job[d].mode # "sync" THEN Idle
                     ELSE [at |-> "pulled", sees |-> job[d].bundle.sees, seen |-> job[d].bundle.seen]
    OBVIOUS
  <1>3. x \in AnyJob /\ x.at # "fetched" /\ x.at # "planned"
    BY <1>1, <1>2, PulledIs
  <1>4. job' = [job EXCEPT ![d] = x]
    BY <1>2 DEF Absorb
  <1>5. CASE UNCHANGED <<history, ledger>>
    BY <1>1, <1>3, <1>4, <1>5, QuietStep
  <1>6. CASE history' = [history EXCEPT ![d] = Import(d).secrets] /\ ledger' = [ledger EXCEPT ![d] = Merged(d)]
    <2>1. PICK i, l : i = Import(d).secrets /\ l = Merged(d)
      OBVIOUS
    <2>2. /\ history' \in [Devices -> [Names -> [Versions -> LocalVersions]]]
          /\ ledger' \in [Devices -> [Names -> Entries]]
          /\ \A e \in Devices \ {d} : history'[e] = history[e] /\ ledger'[e] = ledger[e]
          /\ \A n \in Names : LocalSound(d, n)'
      BY <1>1, <1>6, <2>1, AbsorbedIs
    <2> QED BY <1>1, <1>3, <1>4, <2>2, LocalStep
  <1> QED BY <1>5, <1>6 DEF Absorb

LEMMA BAbsorbHalf ==
  ASSUME SyncAssumption, BaseInv, NEW d \in Devices, AbsorbHalf(d)
  PROVE  BaseInv'
  <1>1. /\ job[d].at = "fetched" /\ UNCHANGED <<remote, tombstone, trusted>> /\ job' = [job EXCEPT ![d] = Idle]
        /\ history' = [history EXCEPT ![d] = Import(d).secrets] /\ ledger' = [ledger EXCEPT ![d] = Merged(d)]
    BY DEF AbsorbHalf
  <1>2. PICK i, l : i = Import(d).secrets /\ l = Merged(d)
    OBVIOUS
  <1>3. /\ history' \in [Devices -> [Names -> [Versions -> LocalVersions]]]
        /\ ledger' \in [Devices -> [Names -> Entries]]
        /\ \A e \in Devices \ {d} : history'[e] = history[e] /\ ledger'[e] = ledger[e]
        /\ \A n \in Names : LocalSound(d, n)'
    BY <1>1, <1>2, AbsorbedIs
  <1>4. PICK x : x = Idle
    OBVIOUS
  <1>5. x \in AnyJob /\ x.at # "fetched" /\ x.at # "planned" /\ job' = [job EXCEPT ![d] = x]
    BY <1>1, <1>4 DEF AnyJob, Idle
  <1> QED BY <1>1, <1>3, <1>5, LocalStep

\* What a plan is, when it is made.
IsPlan(d, names, seen, x) ==
    /\ x \in AnyJob /\ x.at # "fetched" /\ x.at # "pulled"
    /\ \/ x = Idle
       \/ /\ \A n \in Offered(d, names) : ~Blocked(d, n, Published(d, n))
          /\ x \in Plans /\ x.writes = names /\ x.seen = seen /\ x.keys = trusted
          /\ DOMAIN x.uploads = Uploads(d, names) /\ DOMAIN x.rewraps = Rewraps(d, names)
          /\ PlanSound(d, x)

LEMMA PlannedIs ==
  ASSUME SyncAssumption, BaseInv, NEW d \in Devices, NEW names, names \in SUBSET Names,
         NEW seen, seen \in {<<>>} \cup ForSome(Sightings)
  PROVE  IsPlan(d, names, seen, Planned(d, names, seen))
  <1> DEFINE x == Planned(d, names, seen)
  <1> DEFINE up == Uploads(d, names)
             wr == Rewraps(d, names)
             re == {m \in up : Recreates(d, m, Published(d, m))}
             u == [n \in up |-> Published(d, n)]
             w == [n \in wr |-> Published(d, n)]
             r == [n \in re |-> tombstone[n].through]
             p == [at |-> "planned", writes |-> names, seen |-> seen, keys |-> trusted,
                   uploads |-> u, rewraps |-> w, recreates |-> r]
  <1>1. /\ up \in SUBSET Offered(d, names) /\ wr \in SUBSET Offered(d, names)
        /\ Offered(d, names) \in SUBSET Names /\ re \in SUBSET up
    BY DEF Uploads, Rewraps, Offered
  <1>2. \A n \in wr : Has(remote[n], Published(d, n))
    BY DEF Rewraps
  <1>3. \A n \in Offered(d, names) : Published(d, n) \in Active(history[d][n]) /\ Published(d, n) \in Versions
    <2> TAKE n \in Offered(d, names)
    <2>1. \E v \in Versions : v \in Active(history[d][n])
      BY DEF Offered, Active
    <2> QED BY <2>1 DEF Published
  <1>4. \A n \in Names : tombstone[n].through \in 0 .. MaxVersion
    BY DEF BaseInv, Typed, Tombstones
  <1>5. u \in ForSome(Versions) /\ w \in ForSome(Versions) /\ r \in ForSome(0 .. MaxVersion)
    <2>1. u \in [up -> Versions] /\ w \in [wr -> Versions] /\ r \in [re -> 0 .. MaxVersion]
      BY <1>1, <1>3, <1>4
    <2>2. up \in SUBSET Names /\ wr \in SUBSET Names /\ re \in SUBSET Names
      BY <1>1
    <2> HIDE DEF up, wr, re, u, w, r
    <2> QED BY <2>1, <2>2, SomeIs
  <1>6. /\ DOMAIN u = up /\ DOMAIN w = wr /\ DOMAIN r = re
        /\ \A n \in up : u[n] = Published(d, n)
        /\ \A n \in wr : w[n] = Published(d, n)
        /\ \A n \in re : r[n] = tombstone[n].through /\ Recreates(d, n, Published(d, n))
    OBVIOUS
  <1>7. x = IF \E n \in Offered(d, names) : Blocked(d, n, Published(d, n)) THEN Idle
            ELSE IF up \cup wr = {} THEN Idle ELSE p
    BY DEF Planned, Refused, Settled
  <1> HIDE DEF up, wr, re, u, w, r
  <1>8. trusted \in (SUBSET Devices) \ {{}}
    BY DEF BaseInv, Typed
  <1>9. p \in Plans
    BY <1>5, <1>8 DEF Plans
  <1>10. p.at = "planned" /\ p.writes = names /\ p.seen = seen /\ p.keys = trusted
         /\ p.uploads = u /\ p.rewraps = w /\ p.recreates = r
    OBVIOUS
  <1> HIDE DEF p, x
  <1>11. ASSUME \A n \in Offered(d, names) : ~Blocked(d, n, Published(d, n))
         PROVE  PlanSound(d, p)
    <2>1. \A n \in up : u[n] \in Active(history[d][n])
      BY <1>1, <1>3, <1>6
    <2>2. ASSUME NEW n \in wr
          PROVE  w[n] \in Active(history[d][n]) /\ Shared(n, w[n], history[d][n][w[n]].env)
      <3>1. n \in Offered(d, names) /\ w[n] = Published(d, n)
        BY <1>1, <1>6
      <3>2. Matches(d, n, w[n])
        BY <1>2, <1>11, <3>1 DEF Blocked
      <3> QED BY <1>2, <1>3, <3>1, <3>2 DEF Matches, Shared
    <2>3. ASSUME NEW n \in re
          PROVE  n \in up /\ ledger[d][n].through = r[n] /\ u[n] \in ledger[d][n].since
      <3>1. n \in up /\ n \in Offered(d, names) /\ u[n] = Published(d, n)
        BY <1>1, <1>6
      <3>2. MayRecreate(d, n, u[n])
        BY <1>6, <1>11, <3>1 DEF Blocked
      <3> QED BY <1>6, <3>1, <3>2 DEF MayRecreate
    <2> QED BY <1>6, <1>10, <2>1, <2>2, <2>3 DEF PlanSound
  <1>13. CASE x = p /\ \A n \in Offered(d, names) : ~Blocked(d, n, Published(d, n))
    BY <1>6, <1>9, <1>10, <1>11, <1>13 DEF AnyJob, IsPlan, x, up, wr
  <1>12. CASE x = Idle
    BY <1>12 DEF IsPlan, AnyJob, Idle, x
  <1> QED BY <1>7, <1>12, <1>13

LEMMA PushIs ==
  ASSUME SyncAssumption, BaseInv, NEW d \in Devices, Push(d)
  PROVE  \E names, x :
           /\ names \in SUBSET Names /\ IsPlan(d, names, <<>>, x) /\ job' = [job EXCEPT ![d] = x]
           /\ UNCHANGED <<history, ledger, remote, tombstone, trusted>>
  <1>1. PICK names, x :
           /\ names \in SUBSET Names
           /\ x = Planned(d, names, <<>>) \/ x = Idle
           /\ job' = [job EXCEPT ![d] = x] /\ UNCHANGED <<history, ledger, remote, tombstone, trusted>>
    BY DEF Push
  <1>2. CASE x = Planned(d, names, <<>>)
    <2>1. IsPlan(d, names, <<>>, x)
      BY <1>1, <1>2, PlannedIs
    <2> QED BY <1>1, <2>1
  <1>3. CASE x = Idle
    <2>1. IsPlan(d, names, <<>>, x)
      BY <1>3 DEF IsPlan, AnyJob, Idle
    <2> QED BY <1>1, <2>1
  <1> QED BY <1>1, <1>2, <1>3

\* A sync plans for secrets that the bundle showed.
LEMMA PublishIs ==
  ASSUME SyncAssumption, BaseInv, NEW d \in Devices, Publish(d)
  PROVE  \E names, x :
           /\ names \in SUBSET job[d].sees /\ names \in SUBSET Names /\ job[d].at = "pulled"
           /\ IsPlan(d, names, job[d].seen, x) /\ job' = [job EXCEPT ![d] = x]
           /\ UNCHANGED <<history, ledger, remote, tombstone, trusted>>
  <1>1. PICK names \in Writable(job[d].sees) :
           /\ job[d].at = "pulled" /\ job' = [job EXCEPT ![d] = Planned(d, names, job[d].seen)]
           /\ UNCHANGED <<history, ledger, remote, tombstone, trusted>>
    BY DEF Publish
  <1>2. job[d].sees \in SUBSET Names /\ job[d].seen \in ForSome(Sightings)
    BY <1>1, JobIs DEF BaseInv, Pulls
  <1>3. names \in SUBSET job[d].sees /\ names \in SUBSET Names
    BY <1>2 DEF Writable
  <1>4. PICK seen, x : seen = job[d].seen /\ x = Planned(d, names, seen)
    OBVIOUS
  <1>5. IsPlan(d, names, seen, x)
    BY <1>2, <1>3, <1>4, PlannedIs
  <1> QED BY <1>1, <1>3, <1>4, <1>5

LEMMA BPush ==
  ASSUME SyncAssumption, BaseInv, NEW d \in Devices, Push(d) \/ Publish(d)
  PROVE  BaseInv'
  <1>1. PICK names, seen, x :
           /\ IsPlan(d, names, seen, x) /\ job' = [job EXCEPT ![d] = x]
           /\ UNCHANGED <<history, ledger, remote, tombstone, trusted>>
    BY PushIs, PublishIs
  <1>2. x \in AnyJob /\ x.at # "fetched" /\ (x.at = "planned" => PlanSound(d, x))
    BY <1>1 DEF IsPlan, Idle
  <1> QED BY <1>1, <1>2, QuietStep

LEMMA BEnds ==
  ASSUME BaseInv, NEW d \in Devices, AbsorbFails(d) \/ CommitFails(d) \/ Stop(d)
  PROVE  BaseInv'
  <1>1. job' = [job EXCEPT ![d] = Idle] /\ UNCHANGED <<history, ledger, remote, tombstone, trusted>>
    BY DEF AbsorbFails, CommitFails, Stop
  <1> QED BY <1>1, EndStep

LEMMA BTrust ==
  ASSUME BaseInv, NEW d \in Devices, Trust(d)
  PROVE  BaseInv'
  <1>1. UNCHANGED <<history, ledger, job, remote, tombstone>> /\ trusted' = trusted \cup {d}
    BY DEF Trust
  <1>2. Typed'
    BY <1>1 DEF BaseInv, Typed
  <1>3. \A n \in Names : RemoteSound(n)' /\ Grows(n)
    BY <1>1, Still DEF BaseInv, RemoteSound
  <1> QED BY <1>1, <1>2, <1>3, BaseStep

\* A step at the control plane, of which at most one command hears.
LEMMA RemoteStep ==
  ASSUME BaseInv, UNCHANGED <<history, ledger, trusted>>,
         remote' \in [Names -> [Versions -> RemoteVersions]], tombstone' \in [Names -> Tombstones],
         \A n \in Names : RemoteSound(n)' /\ Grows(n),
         UNCHANGED job \/ \E d \in Devices : job' = [job EXCEPT ![d] = Idle]
  PROVE  BaseInv'
  <1>1. CASE UNCHANGED job
    <2>1. Typed'
      BY <1>1 DEF BaseInv, Typed
    <2> QED BY <1>1, <2>1, BaseStep
  <1>2. ASSUME NEW d \in Devices, job' = [job EXCEPT ![d] = Idle]
        PROVE  BaseInv'
    <2>1. PICK x : x = Idle
      OBVIOUS
    <2>2. x \in AnyJob /\ x.at # "fetched" /\ x.at # "planned" /\ job' = [job EXCEPT ![d] = x]
      BY <1>2, <2>1 DEF AnyJob, Idle
    <2>3. job' \in [Devices -> AnyJob] /\ job'[d] = x /\ \A e \in Devices \ {d} : job'[e] = job[e]
      BY <2>2, JobTurns DEF BaseInv
    <2>4. Typed'
      BY <2>3 DEF BaseInv, Typed, AnyJob
    <2> QED BY <2>2, <2>3, <2>4, BaseStep
  <1> QED BY <1>1, <1>2

\* What Delete does to n, and to no other secret.
LEMMA DeleteIs ==
  ASSUME SyncAssumption, BaseInv, NEW n \in Names, Delete(n)
  PROVE  \E v \in Active(remote[n]) :
           /\ remote' \in [Names -> [Versions -> RemoteVersions]] /\ tombstone' \in [Names -> Tombstones]
           /\ \A m \in Names \ {n} : remote'[m] = remote[m] /\ tombstone'[m] = tombstone[m]
           /\ tombstone'[n] = [through |-> v, at |-> tombstone[n].at + 1] /\ tombstone[n].at < MaxDeletions
           /\ \A w \in Versions \ {v} : remote'[n][w] = remote[n][w] /\ w \notin Active(remote[n])
           /\ remote'[n][v] = [remote[n][v] EXCEPT !.status = "deleted"]
           /\ v \in Versions /\ v > tombstone[n].through
           /\ remote[n][v] \in [status : {"active", "stale", "deleted"}, env : Envelopes, keys : (SUBSET Devices) \ {{}}]
  <1>1. PICK v : v = Max(Active(remote[n]))
    OBVIOUS
  <1>2. /\ remote' = [remote EXCEPT ![n][v].status = "deleted"]
        /\ tombstone' = [tombstone EXCEPT ![n] = [through |-> v, at |-> @.at + 1]]
        /\ tombstone[n].at < MaxDeletions /\ Active(remote[n]) # {}
    BY <1>1 DEF Delete
  <1>3. Active(remote[n]) \in SUBSET Versions /\ \A u, w \in Active(remote[n]) : u = w
    BY DEF Active, BaseInv, RemoteSound, OneActive
  <1>4. v \in Active(remote[n]) /\ v \in Versions /\ \A w \in Versions \ {v} : w \notin Active(remote[n])
    BY <1>1, <1>2, <1>3, OneIsMax
  <1>5. v > tombstone[n].through
    BY <1>4 DEF BaseInv, RemoteSound
  <1>6. remote[n][v] \in [status : {"active", "stale", "deleted"}, env : Envelopes, keys : (SUBSET Devices) \ {{}}]
    <2>1. remote[n][v] \in RemoteVersions /\ remote[n][v].status = "active"
      BY <1>4 DEF BaseInv, Typed, Active
    <2> QED BY <2>1 DEF RemoteVersions, Unknown
  <1>7. PICK x : x = [remote[n][v] EXCEPT !.status = "deleted"]
    OBVIOUS
  <1>8. x \in RemoteVersions
    BY <1>6, <1>7 DEF RemoteVersions
  <1>9. remote \in [Names -> [Versions -> RemoteVersions]]
    BY DEF BaseInv, Typed
  <1>10. remote' = [remote EXCEPT ![n] = [remote[n] EXCEPT ![v] = x]]
    BY <1>2, <1>4, <1>7, <1>9
  <1>11. /\ remote' \in [Names -> [Versions -> RemoteVersions]]
         /\ \A m \in Names \ {n} : remote'[m] = remote[m]
         /\ remote'[n][v] = x /\ \A w \in Versions \ {v} : remote'[n][w] = remote[n][w]
    BY <1>4, <1>8, <1>9, <1>10
  <1>12. tombstone \in [Names -> Tombstones] /\ tombstone[n] \in Tombstones
    BY DEF BaseInv, Typed
  <1>13. [through |-> v, at |-> tombstone[n].at + 1] \in Tombstones
    BY <1>2, <1>4, <1>12, VersionsAre DEF Tombstones, SyncAssumption
  <1>14. /\ tombstone' \in [Names -> Tombstones] /\ tombstone'[n] = [through |-> v, at |-> tombstone[n].at + 1]
         /\ \A m \in Names \ {n} : tombstone'[m] = tombstone[m]
    BY <1>2, <1>12, <1>13
  <1> QED BY <1>2, <1>4, <1>5, <1>6, <1>7, <1>11, <1>14

LEMMA BDelete ==
  ASSUME SyncAssumption, BaseInv, NEW n \in Names, Delete(n)
  PROVE  BaseInv'
  <1>1. PICK v \in Active(remote[n]) :
           /\ remote' \in [Names -> [Versions -> RemoteVersions]] /\ tombstone' \in [Names -> Tombstones]
           /\ \A m \in Names \ {n} : remote'[m] = remote[m] /\ tombstone'[m] = tombstone[m]
           /\ \A w \in Versions \ {v} : remote'[n][w] = remote[n][w] /\ w \notin Active(remote[n])
           /\ remote'[n][v] = [remote[n][v] EXCEPT !.status = "deleted"]
           /\ v \in Versions
           /\ remote[n][v] \in [status : {"active", "stale", "deleted"}, env : Envelopes, keys : (SUBSET Devices) \ {{}}]
    BY DeleteIs
  <1>2. /\ remote'[n][v].status = "deleted" /\ remote'[n][v].env = remote[n][v].env
        /\ remote'[n][v].keys = remote[n][v].keys
    BY <1>1
  <1>3. Active(remote'[n]) = {}
    BY <1>1, <1>2 DEF Active
  <1>4. Grows(n) /\ RemoteSound(n)'
    BY <1>1, <1>2, <1>3 DEF Grows, RemoteSound, OneActive, Has
  <1>5. \A m \in Names \ {n} : Grows(m) /\ RemoteSound(m)'
    BY <1>1, Still DEF BaseInv, RemoteSound
  <1>6. UNCHANGED <<history, ledger, job, trusted>>
    BY DEF Delete
  <1> QED BY <1>1, <1>4, <1>5, <1>6, RemoteStep

\* What Restore does to n, and to no other secret.
LEMMA RestoreIs ==
  ASSUME SyncAssumption, BaseInv, NEW n \in Names, Restore(n)
  PROVE  \E v \in Deleted(n) :
           /\ remote' \in [Names -> [Versions -> RemoteVersions]] /\ tombstone' \in [Names -> Tombstones]
           /\ \A m \in Names \ {n} : remote'[m] = remote[m] /\ tombstone'[m] = tombstone[m]
           /\ tombstone'[n].at = tombstone[n].at
           /\ tombstone'[n].through \in Nat /\ tombstone'[n].through < v
           /\ tombstone'[n].through > 0 => tombstone'[n].through \in Deleted(n)
           /\ \A w \in Versions \ {v} : remote'[n][w] = remote[n][w]
           /\ remote'[n][v] = [remote[n][v] EXCEPT !.status = "active"]
           /\ v \in Versions /\ Active(remote[n]) = {} /\ "restore" \in Environment
           /\ remote[n][v] \in [status : {"active", "stale", "deleted"}, env : Envelopes, keys : (SUBSET Devices) \ {{}}]
  <1>1. PICK v \in Versions :
           /\ remote[n][v].status = "deleted"
           /\ remote' = [remote EXCEPT ![n][v].status = "active"]
           /\ tombstone' = [tombstone EXCEPT ![n].through =
                               Max({w \in 1 .. v - 1 : remote[n][w].status = "deleted"} \cup {0})]
    BY DEF Restore
  <1>2. remote \in [Names -> [Versions -> RemoteVersions]] /\ tombstone[n] \in Tombstones
    BY DEF BaseInv, Typed
  <1>3. remote[n][v] \in [status : {"active", "stale", "deleted"}, env : Envelopes, keys : (SUBSET Devices) \ {{}}]
    <2>1. remote[n][v] \in RemoteVersions
      BY <1>2
    <2> QED BY <1>1, <2>1 DEF RemoteVersions, Unknown
  <1>4. PICK x : x = [remote[n][v] EXCEPT !.status = "active"]
    OBVIOUS
  <1>5. x \in RemoteVersions
    BY <1>3, <1>4 DEF RemoteVersions
  <1>6. remote' = [remote EXCEPT ![n] = [remote[n] EXCEPT ![v] = x]]
    BY <1>1, <1>2, <1>4
  <1>7. /\ remote' \in [Names -> [Versions -> RemoteVersions]]
        /\ \A m \in Names \ {n} : remote'[m] = remote[m]
        /\ remote'[n][v] = x /\ \A w \in Versions \ {v} : remote'[n][w] = remote[n][w]
    BY <1>2, <1>5, <1>6
  <1>8. PICK S, t : S = {w \in 1 .. v - 1 : remote[n][w].status = "deleted"} /\ t = Max(S \cup {0})
    OBVIOUS
  <1>9. v \in Nat /\ v <= MaxVersion /\ S \in SUBSET Versions /\ \A w \in S : w < v
    BY <1>8, VersionsAre DEF Versions
  <1>10. t \in 0 .. MaxVersion /\ (t > 0 => t \in S)
    BY <1>8, <1>9, MaxOr0
  <1>11. t \in Nat /\ t < v /\ (t > 0 => t \in Deleted(n))
    <2>1. \A w \in S : w \in Deleted(n)
      BY <1>8, <1>9 DEF Deleted
    <2>2. v > 0 /\ t \in Nat
      BY <1>10, VersionsAre
    <2> QED BY <1>9, <1>10, <2>1, <2>2
  <1>12. tombstone' = [tombstone EXCEPT ![n].through = t]
    BY <1>1, <1>8
  <1>13. [tombstone[n] EXCEPT !.through = t] \in Tombstones
    BY <1>2, <1>10 DEF Tombstones
  <1>14. /\ tombstone' \in [Names -> Tombstones] /\ tombstone'[n].through = t
         /\ tombstone'[n].at = tombstone[n].at
         /\ \A m \in Names \ {n} : tombstone'[m] = tombstone[m]
    <2>1. tombstone' = [tombstone EXCEPT ![n] = [tombstone[n] EXCEPT !.through = t]]
      BY <1>12 DEF BaseInv, Typed
    <2> QED BY <1>2, <1>13, <2>1 DEF BaseInv, Typed, Tombstones
  <1>15. v \in Deleted(n) /\ Active(remote[n]) = {} /\ "restore" \in Environment
    BY <1>1 DEF Deleted, Restore
  <1> QED BY <1>3, <1>4, <1>7, <1>11, <1>14, <1>15

LEMMA BRestore ==
  ASSUME SyncAssumption, BaseInv, NEW n \in Names, Restore(n)
  PROVE  BaseInv'
  <1>1. PICK v \in Deleted(n) :
           /\ remote' \in [Names -> [Versions -> RemoteVersions]] /\ tombstone' \in [Names -> Tombstones]
           /\ \A m \in Names \ {n} : remote'[m] = remote[m] /\ tombstone'[m] = tombstone[m]
           /\ tombstone'[n].through \in Nat /\ tombstone'[n].through < v
           /\ \A w \in Versions \ {v} : remote'[n][w] = remote[n][w]
           /\ remote'[n][v] = [remote[n][v] EXCEPT !.status = "active"]
           /\ v \in Versions /\ Active(remote[n]) = {}
           /\ remote[n][v] \in [status : {"active", "stale", "deleted"}, env : Envelopes, keys : (SUBSET Devices) \ {{}}]
    BY RestoreIs
  <1>2. /\ remote'[n][v].status = "active" /\ remote'[n][v].env = remote[n][v].env
        /\ remote'[n][v].keys = remote[n][v].keys
    BY <1>1
  <1>3. Active(remote'[n]) = {v}
    BY <1>1, <1>2 DEF Active
  <1>4. v > tombstone'[n].through
    BY <1>1, VersionsAre
  <1>5. Grows(n) /\ RemoteSound(n)'
    BY <1>1, <1>2, <1>3, <1>4 DEF Grows, RemoteSound, OneActive, Has
  <1>6. \A m \in Names \ {n} : Grows(m) /\ RemoteSound(m)'
    BY <1>1, Still DEF BaseInv, RemoteSound
  <1>7. UNCHANGED <<history, ledger, job, trusted>>
    BY DEF Restore
  <1> QED BY <1>1, <1>5, <1>6, <1>7, RemoteStep


\* What becomes of n by an upload of version u, and by a rewrap of version v.
Uploaded(n, u, s, env, keys) ==
    /\ u \in Versions /\ u > tombstone[n].through /\ \A w \in Present(remote[n]) : w < u
    /\ s[u] = [status |-> "active", env |-> env, keys |-> keys]
    /\ Active(s) = {u} /\ Present(s) = Present(remote[n]) \cup {u}
    /\ \A w \in Versions \ {u} :
         /\ Has(s, w) <=> Has(remote[n], w)
         /\ s[w].env = remote[n][w].env /\ s[w].keys = remote[n][w].keys
         /\ s[w].status = "deleted" <=> remote[n][w].status = "deleted"

Rewrapped(n, v, s, keys) ==
    /\ v \in Active(remote[n])
    /\ s[v] = [remote[n][v] EXCEPT !.keys = @ \cup keys]
    /\ s[v].status = "active" /\ s[v].env = remote[n][v].env /\ s[v].keys = remote[n][v].keys \cup keys
    /\ \A w \in Versions \ {v} : s[w] = remote[n][w]

LEMMA UploadedIs ==
  ASSUME SyncAssumption, BaseInv, NEW n \in Names, NEW u \in Versions, NEW env \in Envelopes,
         NEW keys \in (SUBSET Devices) \ {{}}, u > Newest(remote[n]), u > tombstone[n].through,
         NEW s, s = [v \in Versions |-> IF v = u THEN [status |-> "active", env |-> env, keys |-> keys]
                                        ELSE Superseded(remote[n][v])]
  PROVE  s \in [Versions -> RemoteVersions] /\ Uploaded(n, u, s, env, keys)
  <1>1. \A w \in Versions : remote[n][w] \in RemoteVersions
    BY DEF BaseInv, Typed
  <1>2. s[u] = [status |-> "active", env |-> env, keys |-> keys] /\ s[u] \in RemoteVersions
        /\ s[u].status = "active"
    BY DEF RemoteVersions
  <1>3. ASSUME NEW w \in Versions \ {u}
        PROVE  /\ s[w] \in RemoteVersions /\ s[w].status # "active" /\ (Has(s, w) <=> Has(remote[n], w))
               /\ s[w].env = remote[n][w].env /\ s[w].keys = remote[n][w].keys
               /\ s[w].status = "deleted" <=> remote[n][w].status = "deleted"
    <2>1. PICK x : x = remote[n][w]
      OBVIOUS
    <2>2. x \in RemoteVersions
      BY <1>1, <2>1
    <2>3. s[w] = Superseded(x)
      BY <2>1
    <2>4. /\ Superseded(x) \in RemoteVersions /\ Superseded(x).keys = x.keys /\ Superseded(x).env = x.env
          /\ Superseded(x).status # "active" /\ (Superseded(x).status = "none" <=> x.status = "none")
          /\ (x.status # "active" => Superseded(x) = x)
      BY <2>2, SupersededIs
    <2>5. x.status = "active" => Superseded(x).status = "stale"
      BY <2>2 DEF Superseded, RemoteVersions
    <2> QED BY <2>1, <2>3, <2>4, <2>5 DEF Has
  <1>4. s \in [Versions -> RemoteVersions]
    BY <1>2, <1>3
  <1>5. \A w \in Present(remote[n]) : w < u
    <2>1. /\ Newest(remote[n]) \in 0 .. MaxVersion
          /\ \A v \in Present(remote[n]) : v <= Newest(remote[n])
      BY NewestIs
    <2> QED BY <2>1, VersionsAre DEF Present
  <1>6. Active(s) = {u} /\ Present(s) = Present(remote[n]) \cup {u}
    BY <1>2, <1>3 DEF Active, Present, Has
  <1> QED BY <1>2, <1>3, <1>4, <1>5, <1>6 DEF Uploaded

LEMMA StoredIs ==
  ASSUME SyncAssumption, BaseInv, NEW d \in Devices, job[d].at = "planned", Takes(d), NEW n \in Names,
         NEW p, p = job[d], NEW s, s = Stored(d, n), NEW h, h = history[d][n]
  PROVE  /\ s \in [Versions -> RemoteVersions]
         /\ \/ /\ n \in DOMAIN p.uploads /\ p.uploads[n] \in Active(h)
               /\ Uploaded(n, p.uploads[n], s, h[p.uploads[n]].env, p.keys)
            \/ /\ n \in DOMAIN p.rewraps /\ p.rewraps[n] \in Active(h)
               /\ h[p.rewraps[n]].env = remote[n][p.rewraps[n]].env
               /\ Rewrapped(n, p.rewraps[n], s, p.keys)
            \/ n \notin DOMAIN p.uploads \cup DOMAIN p.rewraps /\ s = remote[n]
  <1>1. p \in Plans /\ PlanSound(d, p) /\ p.keys \in (SUBSET Devices) \ {{}}
    BY JobIs DEF BaseInv, Plans
  <1>2. remote[n] \in [Versions -> RemoteVersions] /\ h \in [Versions -> LocalVersions]
    BY DEF BaseInv, Typed
  <1>3. CASE n \in DOMAIN p.uploads
    <2>1. PICK u : u = p.uploads[n]
      OBVIOUS
    <2>2. u \in Active(h) /\ u \in Versions
      BY <1>1, <1>3, <2>1 DEF PlanSound, Active
    <2>3. h[u].env \in Envelopes
      BY <1>2, <2>2 DEF Active, LocalVersions, Absent
    <2>4. u > Newest(remote[n]) /\ u > tombstone[n].through
      BY <1>3, <2>1 DEF Takes
    <2>5. s = [v \in Versions |-> IF v = u THEN [status |-> "active", env |-> h[u].env, keys |-> p.keys]
                                  ELSE Superseded(remote[n][v])]
      BY <1>3, <2>1 DEF Stored
    <2>6. s \in [Versions -> RemoteVersions] /\ Uploaded(n, u, s, h[u].env, p.keys)
      BY <1>1, <2>2, <2>3, <2>4, <2>5, UploadedIs
    <2> QED BY <1>3, <2>1, <2>2, <2>6
  <1>4. CASE n \notin DOMAIN p.uploads /\ n \in DOMAIN p.rewraps
    <2>1. PICK v : v = p.rewraps[n]
      OBVIOUS
    <2>2. v \in Active(h) /\ Shared(n, v, h[v].env) /\ v \in Versions
      BY <1>1, <1>4, <2>1 DEF PlanSound, Active
    <2>3. remote[n][v].status = "active"
      BY <1>4, <2>1 DEF Takes
    <2>4. PICK x : x = [remote[n][v] EXCEPT !.keys = @ \cup p.keys]
      OBVIOUS
    <2>5. remote[n][v] \in [status : {"active", "stale", "deleted"}, env : Envelopes, keys : (SUBSET Devices) \ {{}}]
      BY <1>2, <2>2, <2>3 DEF RemoteVersions, Unknown
    <2>6. /\ x \in RemoteVersions /\ x.status = "active" /\ x.env = remote[n][v].env
          /\ x.keys = remote[n][v].keys \cup p.keys
      BY <1>1, <2>3, <2>4, <2>5 DEF RemoteVersions
    <2>7. s = [remote[n] EXCEPT ![v] = x]
      <3>1. s = [remote[n] EXCEPT ![v].keys = @ \cup p.keys]
        BY <1>4, <2>1 DEF Stored
      <3> QED BY <1>2, <2>2, <2>4, <3>1
    <2>8. s \in [Versions -> RemoteVersions] /\ s[v] = x /\ \A w \in Versions \ {v} : s[w] = remote[n][w]
      BY <1>2, <2>2, <2>6, <2>7
    <2>9. Rewrapped(n, v, s, p.keys)
      BY <2>2, <2>3, <2>4, <2>6, <2>8 DEF Rewrapped, Active
    <2> QED BY <1>4, <2>1, <2>2, <2>8, <2>9 DEF Shared
  <1>5. CASE n \notin DOMAIN p.uploads /\ n \notin DOMAIN p.rewraps
    BY <1>2, <1>5 DEF Stored
  <1> QED BY <1>3, <1>4, <1>5

LEMMA CommitGrows ==
  ASSUME SyncAssumption, BaseInv, NEW d \in Devices, Commit(d), NEW n \in Names
  PROVE  remote'[n] \in [Versions -> RemoteVersions] /\ RemoteSound(n)' /\ Grows(n)
  <1>1. /\ job[d].at = "planned" /\ Takes(d) /\ UNCHANGED <<history, ledger, tombstone, trusted>>
        /\ remote' = [m \in Names |-> Stored(d, m)]
    BY DEF Commit
  <1>2. PICK p, h, s : p = job[d] /\ h = history[d][n] /\ s = Stored(d, n)
    OBVIOUS
  <1>3. remote'[n] = s
    BY <1>1, <1>2
  <1>4. /\ s \in [Versions -> RemoteVersions]
        /\ \/ Uploaded(n, p.uploads[n], s, h[p.uploads[n]].env, p.keys)
           \/ Rewrapped(n, p.rewraps[n], s, p.keys)
           \/ s = remote[n]
    BY <1>1, <1>2, StoredIs
  <1>5. RemoteSound(n)
    BY DEF BaseInv
  <1>6. CASE Uploaded(n, p.uploads[n], s, h[p.uploads[n]].env, p.keys)
    <2>1. PICK u, env : u = p.uploads[n] /\ env = h[p.uploads[n]].env
      OBVIOUS
    <2>2. Uploaded(n, u, s, env, p.keys)
      BY <1>6, <2>1
    <2>3. u \notin Present(remote[n])
      BY <2>2, VersionsAre DEF Uploaded
    <2>4. Grows(n)
      BY <1>3, <2>2, <2>3 DEF Grows, Uploaded, Present
    <2>5. RemoteSound(n)'
      BY <1>1, <1>3, <2>2 DEF RemoteSound, OneActive, Uploaded
    <2> QED BY <1>3, <1>4, <2>4, <2>5
  <1>7. CASE Rewrapped(n, p.rewraps[n], s, p.keys)
    <2>1. PICK v : v = p.rewraps[n]
      OBVIOUS
    <2>2. Rewrapped(n, v, s, p.keys)
      BY <1>7, <2>1
    <2>3. Active(s) = Active(remote[n])
      <3>1. v \in Versions /\ remote[n][v].status = "active"
        BY <2>2 DEF Rewrapped, Active
      <3>2. \A w \in Versions : s[w].status = "active" <=> remote[n][w].status = "active"
        <4> TAKE w \in Versions
        <4> QED BY <2>2, <3>1 DEF Rewrapped
      <3> QED BY <3>2 DEF Active
    <2>4. Grows(n)
      BY <1>3, <2>2 DEF Grows, Rewrapped, Active, Has
    <2>5. RemoteSound(n)'
      BY <1>1, <1>3, <1>5, <2>3 DEF RemoteSound, OneActive
    <2> QED BY <1>3, <1>4, <2>4, <2>5
  <1>8. CASE s = remote[n]
    BY <1>1, <1>3, <1>4, <1>5, <1>8, Still DEF RemoteSound
  <1> QED BY <1>4, <1>6, <1>7, <1>8

LEMMA BCommit ==
  ASSUME SyncAssumption, BaseInv, NEW d \in Devices, Commit(d)
  PROVE  BaseInv'
  <1>1. /\ job[d].at = "planned" /\ UNCHANGED <<history, ledger, tombstone, trusted>>
        /\ remote' = [m \in Names |-> Stored(d, m)]
        /\ job' = [job EXCEPT ![d] = Idle]
    BY DEF Commit
  <1>2. \A n \in Names : remote'[n] \in [Versions -> RemoteVersions] /\ RemoteSound(n)' /\ Grows(n)
    BY CommitGrows
  <1>3. remote' \in [Names -> [Versions -> RemoteVersions]]
    <2>1. \A n \in Names : Stored(d, n) = remote'[n]
      BY <1>1
    <2> QED BY <1>1, <1>2, <2>1
  <1>4. tombstone' \in [Names -> Tombstones]
    BY <1>1 DEF BaseInv, Typed
  <1> QED BY <1>1, <1>2, <1>3, <1>4, RemoteStep

LEMMA BInit == SyncAssumption /\ Init => BaseInv
  <1> SUFFICES ASSUME SyncAssumption, Init PROVE BaseInv
    OBVIOUS
  <1>1. NoTombstone \in Tombstones /\ NoEntry \in Entries
    BY VersionsAre DEF NoTombstone, NoEntry, Tombstones, Entries, SyncAssumption
  <1>2. Absent \in LocalVersions /\ Unknown \in RemoteVersions /\ Absent.status = "none" /\ Unknown.status = "none"
    BY DEF LocalVersions, RemoteVersions, Absent, Unknown
  <1>3. Typed
    BY <1>1, <1>2 DEF Init, Typed
  <1>4. /\ \A n \in Names : Active(remote[n]) = {}
        /\ \A d \in Devices, n \in Names : Active(history[d][n]) = {}
        /\ \A d \in Devices : job[d].at = "idle"
    BY <1>2 DEF Init, Active, Idle
  <1> QED BY <1>3, <1>4 DEF BaseInv, RemoteSound, LocalSound, OneActive

LEMMA BNext ==
  ASSUME SyncAssumption, BaseInv, Next
  PROVE  BaseInv'
  <1>1. ASSUME NEW d \in Devices, NEW n \in Names, RemoveSecret(d, n) \/ \E x \in Values : Add(d, n, x)
        PROVE  BaseInv'
    BY <1>1, BRemove, BAdd
  <1>2. ASSUME NEW d \in Devices, NEW mode \in Commands, Fetch(d, mode)
        PROVE  BaseInv'
    BY <1>2, BFetch
  <1>3. ASSUME NEW d \in Devices, AbsorbFails(d) \/ CommitFails(d) \/ Stop(d)
        PROVE  BaseInv'
    BY <1>3, BEnds
  <1>4. ASSUME NEW d \in Devices, Push(d) \/ Publish(d)
        PROVE  BaseInv'
    BY <1>4, BPush
  <1>5. ASSUME NEW n \in Names, Delete(n) \/ Restore(n)
        PROVE  BaseInv'
    BY <1>5, BDelete, BRestore
  <1> QED BY <1>1, <1>2, <1>3, <1>4, <1>5, BAbsorb, BAbsorbHalf, BCommit, BTrust DEF Next

\* A step that changes nothing.
LEMMA BStutter ==
  ASSUME BaseInv, UNCHANGED <<history, ledger, job, remote, tombstone, trusted>>
  PROVE  BaseInv'
  <1>1. Typed'
    BY DEF BaseInv, Typed
  <1>2. \A n \in Names : RemoteSound(n)'
    BY DEF BaseInv, RemoteSound
  <1>3. \A d \in Devices, n \in Names : LocalSound(d, n)'
    BY DEF BaseInv, LocalSound, Shared
  <1>4. ASSUME NEW d \in Devices
        PROVE  (/\ job[d].at = "fetched" => BundleSound(job[d].bundle)
                /\ job[d].at = "planned" => PlanSound(d, job[d]))'
    <2>1. PICK j : j = job[d] /\ job'[d] = j
      OBVIOUS
    <2>2. j.at = "fetched" => BundleSound(j.bundle)
      BY <2>1 DEF BaseInv
    <2>3. PICK b : b = j.bundle
      OBVIOUS
    <2>4. BundleSound(b) => BundleSound(b)'
      BY DEF BundleSound, Shared
    <2>5. j.at = "planned" => PlanSound(d, j)
      BY <2>1 DEF BaseInv
    <2>6. PlanSound(d, j) => PlanSound(d, j)'
      BY DEF PlanSound, Shared
    <2>7. job'[d].at = "fetched" => BundleSound(j.bundle)'
      BY <2>1, <2>2, <2>3, <2>4
    <2>8. job'[d].at = "planned" => PlanSound(d, j)'
      BY <2>1, <2>5, <2>6
    <2> QED BY <2>1, <2>7, <2>8
  <1> QED BY <1>1, <1>2, <1>3, <1>4 DEF BaseInv

\* What the base invariant says of a device and of the control plane holds in
\* every reachable state, whatever the environment does.
THEOREM SyncInvariance ==
  ASSUME SyncAssumption
  PROVE  Spec => []BaseInv
  <1>1. Init => BaseInv
    BY BInit
  <1>2. BaseInv /\ [Next]_vars => BaseInv'
    <2>1. ASSUME BaseInv, UNCHANGED vars PROVE BaseInv'
      BY <2>1, BStutter DEF vars
    <2> QED BY <2>1, BNext
  <1> QED BY <1>1, <1>2, PTL DEF Spec

\* The types hold, and at most one version of a secret is active anywhere.
THEOREM TypesHold ==
  ASSUME SyncAssumption
  PROVE  Spec => []TypeOK
  <1>1. BaseInv => TypeOK
    <2> SUFFICES ASSUME BaseInv PROVE TypeOK
      OBVIOUS
    <2>1. ASSUME NEW d \in Devices, NEW n \in Names
          PROVE  /\ ledger[d][n].through \in 0 .. MaxVersion /\ ledger[d][n].since \subseteq Versions
                 /\ \A v \in Present(history[d][n]) : history[d][n][v].env \in Envelopes
      <3>1. ledger[d][n] \in Entries /\ \A v \in Versions : history[d][n][v] \in LocalVersions
        BY DEF BaseInv, Typed
      <3> QED BY <3>1 DEF Entries, LocalVersions, Absent, Present, Has
    <2>2. ASSUME NEW n \in Names
          PROVE  /\ tombstone[n].through \in 0 .. MaxVersion
                 /\ \A v \in Present(remote[n]) : remote[n][v].env \in Envelopes /\ remote[n][v].keys # {}
      <3>1. tombstone[n] \in Tombstones /\ \A v \in Versions : remote[n][v] \in RemoteVersions
        BY DEF BaseInv, Typed
      <3> QED BY <3>1 DEF Tombstones, RemoteVersions, Unknown, Present, Has
    <2>3. \A d \in Devices, n \in Names : Cardinality(Active(history[d][n])) <= 1
      BY AtMostOne DEF BaseInv, LocalSound
    <2>4. \A n \in Names : Cardinality(Active(remote[n])) <= 1
      BY AtMostOne DEF BaseInv, RemoteSound
    <2> QED BY <2>1, <2>2, <2>3, <2>4 DEF TypeOK, BaseInv, Typed
  <1> QED BY <1>1, SyncInvariance, PTL

\* pull and sync never change or lose the live value of a secret.
THEOREM ValuesAreKept ==
  ASSUME SyncAssumption
  PROVE  Spec => ValuesKept
  <1>1. ASSUME BaseInv, Next, NEW d \in Devices, NEW n \in Names, job[d].at = "fetched", job[d].mode # "force",
               NEW v \in Active(history[d][n])
        PROVE  Has(history'[d][n], v) /\ Value(history'[d][n][v]) = Value(history[d][n][v])
    <2>1. Has(history[d][n], v)
      BY DEF Active, Has
    <2>2. Typed /\ ~Free(d)
      BY <1>1, JobIs DEF BaseInv, Free, Idle
    <2>3. CASE history'[d] = history[d]
      BY <2>1, <2>3
    <2>4. CASE history' = [history EXCEPT ![d] = Import(d).secrets]
      <3>1. history'[d][n] = Import(d).secrets[n]
        BY <2>2, <2>4 DEF Typed
      <3>2. Keeps(d, n, job[d].bundle, history[d][n], Import(d).secrets[n], Merged(d)[n])
        BY <1>1, ImportKeeps
      <3> QED BY <1>1, <3>1, <3>2 DEF Keeps
    <2>5. \/ history'[d] = history[d]
          \/ history' = [history EXCEPT ![d] = Import(d).secrets]
      <3>1. ASSUME NEW e \in Devices, NEW m \in Names, RemoveSecret(e, m) \/ \E x \in Values : Add(e, m, x)
            PROVE  history'[d] = history[d]
        <4>1. Free(e)
          BY <3>1 DEF RemoveSecret, Add
        <4>2. e # d
          BY <2>2, <4>1
        <4> QED BY <2>2, <3>1, <4>2 DEF RemoveSecret, Add, Typed
      <3>2. ASSUME NEW e \in Devices, Absorb(e) \/ AbsorbHalf(e)
            PROVE  \/ history'[d] = history[d]
                   \/ history' = [history EXCEPT ![d] = Import(d).secrets]
        <4>1. UNCHANGED history \/ history' = [history EXCEPT ![e] = Import(e).secrets]
          BY <3>2 DEF Absorb, AbsorbHalf
        <4> QED BY <2>2, <4>1 DEF Typed
      <3>3. ASSUME NEW e \in Devices, \/ \E mode \in Commands : Fetch(e, mode)
                                      \/ AbsorbFails(e) \/ Push(e) \/ Publish(e) \/ Commit(e) \/ CommitFails(e)
                                      \/ Stop(e) \/ Trust(e)
            PROVE  UNCHANGED history
        BY <3>3 DEF Fetch, AbsorbFails, Push, Publish, Commit, CommitFails, Stop, Trust
      <3>4. ASSUME NEW m \in Names, Delete(m) \/ Restore(m)
            PROVE  UNCHANGED history
        BY <3>4 DEF Delete, Restore
      <3> QED BY <1>1, <3>1, <3>2, <3>3, <3>4 DEF Next
    <2> QED BY <2>3, <2>4, <2>5
  <1>2. BaseInv /\ [Next]_vars =>
          [\A d \in Devices, n \in Names :
             (job[d].at = "fetched" /\ job[d].mode # "force") =>
                \A v \in Active(history[d][n]) :
                   /\ Has(history'[d][n], v)
                   /\ Value(history'[d][n][v]) = Value(history[d][n][v])]_vars
    BY <1>1
  <1> QED BY <1>2, SyncInvariance, PTL DEF Spec, ValuesKept


-----------------------------------------------------------------------------
(* A step at the control plane, where no deletion is of a lower version    *)
(* than one before it.                                                     *)

\* What is known of n stays known, and if n looks as it did when it was seen
\* then nothing has happened to it.
Passes(n) ==
    /\ NewestCounts(n)' /\ DeletionsCount(n)'
    /\ \A told \in Entries \cup Tombstones : Older(told, tombstone[n]) =>
         /\ Older(told, tombstone'[n])
         /\ \A v \in Versions : v <= told.through /\ v > tombstone[n].through => v > tombstone'[n].through
    /\ \A s \in Sightings : Past(s, n) => Past(s, n)' /\ (Seen(n)' = s => Seen(n) = s)

LEMMA Numbers ==
  ASSUME SyncAssumption, NEW told \in Entries \cup Tombstones
  PROVE  told.at \in Nat /\ told.through \in Nat /\ told.at <= MaxDeletions
  BY VersionsAre DEF Entries, Tombstones, SyncAssumption

\* Nothing happens to n but a change of keys.
LEMMA PassesStill ==
  ASSUME SyncAssumption, BaseInv, NEW n \in Names, NewestCounts(n), DeletionsCount(n),
         tombstone'[n] = tombstone[n],
         Active(remote'[n]) = Active(remote[n]), Present(remote'[n]) = Present(remote[n]), Deleted(n)' = Deleted(n)
  PROVE  Passes(n)
  <1>1. Seen(n)' = Seen(n)
    BY DEF Seen
  <1>2. NewestCounts(n)' /\ DeletionsCount(n)'
    BY DEF NewestCounts, DeletionsCount
  <1>3. \A s \in Sightings : Past(s, n)' <=> Past(s, n)
    BY DEF Past
  <1> QED BY <1>1, <1>2, <1>3 DEF Passes

\* n gets a new version.
LEMMA PassesUpload ==
  ASSUME SyncAssumption, BaseInv, NEW n \in Names, DeletionsCount(n), tombstone'[n] = tombstone[n],
         NEW u, NEW env, NEW keys, Uploaded(n, u, remote'[n], env, keys)
  PROVE  Passes(n)
  <1>1. /\ u \in Versions /\ u \notin Present(remote[n]) /\ \A w \in Present(remote[n]) : w < u
        /\ Active(remote'[n]) = {u} /\ Present(remote'[n]) = Present(remote[n]) \cup {u}
    BY VersionsAre DEF Uploaded
  <1>2. NewestCounts(n)'
    BY <1>1, VersionsAre DEF NewestCounts, Present
  <1>3. Deleted(n)' = Deleted(n)
    <2>1. \A w \in Versions : remote'[n][w].status = "deleted" <=> remote[n][w].status = "deleted"
      <3>1. remote'[n][u].status = "active"
        BY DEF Uploaded
      <3>2. remote[n][u].status = "none"
        BY <1>1 DEF Present, Has
      <3> QED BY <3>1, <3>2 DEF Uploaded
    <2> QED BY <2>1 DEF Deleted
  <1>4. DeletionsCount(n)'
    BY <1>3 DEF DeletionsCount
  <1>5. ASSUME NEW s \in Sightings, Past(s, n)
        PROVE  Past(s, n)' /\ Seen(n)' # s
    <2>1. s.present \subseteq Present(remote[n])
      BY <1>5 DEF Past
    <2>2. s.present # Present(remote'[n]) /\ s.present \subseteq Present(remote'[n])
      BY <1>1, <2>1
    <2> QED BY <1>5, <2>2 DEF Past, Seen
  <1> QED BY <1>2, <1>4, <1>5 DEF Passes

LEMMA PassesDelete ==
  ASSUME SyncAssumption, OneFloor, BaseInv, NEW n \in Names, NewestCounts(n), DeletionsCount(n), Delete(n)
  PROVE  Passes(n)
  <1>1. PICK v \in Active(remote[n]) :
           /\ tombstone'[n] = [through |-> v, at |-> tombstone[n].at + 1] /\ tombstone[n].at < MaxDeletions
           /\ \A w \in Versions \ {v} : remote'[n][w] = remote[n][w] /\ w \notin Active(remote[n])
           /\ remote'[n][v] = [remote[n][v] EXCEPT !.status = "deleted"]
           /\ v \in Versions /\ v > tombstone[n].through
           /\ remote[n][v] \in [status : {"active", "stale", "deleted"}, env : Envelopes, keys : (SUBSET Devices) \ {{}}]
    BY DeleteIs
  <1>2. remote'[n][v].status = "deleted" /\ remote[n][v].status = "active"
    BY <1>1 DEF Active
  <1>3. Active(remote'[n]) = {} /\ Present(remote'[n]) = Present(remote[n]) /\ Deleted(n)' = Deleted(n) \cup {v}
    BY <1>1, <1>2 DEF Active, Present, Has, Deleted
  <1>4. tombstone[n] \in Tombstones
    BY DEF BaseInv, Typed
  <1>5. tombstone[n].at \in Nat /\ tombstone[n].through \in Nat /\ v \in Nat \ {0} /\ MaxDeletions \in Nat
    BY <1>1, <1>4, Numbers, VersionsAre DEF SyncAssumption
  <1>6. tombstone'[n].through = v /\ tombstone'[n].at = tombstone[n].at + 1
    BY <1>1
  <1>7. NewestCounts(n)'
    BY <1>1, <1>3, <1>6 DEF NewestCounts
  <1>8. tombstone[n].at > 0 => tombstone[n].through > 0 /\ "restore" \notin Environment
    BY <1>1, <1>5 DEF OneFloor, DeletionsCount
  <1>9. DeletionsCount(n)'
    <2>1. "restore" \in Environment => Deleted(n)' = {v}
      BY <1>3, <1>5, <1>8 DEF DeletionsCount
    <2> QED BY <1>5, <1>6, <2>1 DEF DeletionsCount
  <1>10. ASSUME NEW told \in Entries \cup Tombstones, Older(told, tombstone[n])
         PROVE  told.through <= tombstone[n].through /\ Older(told, tombstone'[n])
    <2>1. told.at \in Nat /\ told.through \in Nat
      BY Numbers
    <2>2. told.through <= tombstone[n].through
      BY <1>5, <1>8, <1>10, <2>1 DEF Older
    <2> QED BY <1>1, <1>5, <1>6, <1>10, <2>1, <2>2 DEF Older
  <1>11. \A told \in Entries \cup Tombstones : Older(told, tombstone[n]) =>
            /\ Older(told, tombstone'[n])
            /\ \A w \in Versions : w <= told.through /\ w > tombstone[n].through => w > tombstone'[n].through
    <2> TAKE told \in Entries \cup Tombstones
    <2> HAVE Older(told, tombstone[n])
    <2>1. told.through \in Nat /\ told.through <= tombstone[n].through /\ Older(told, tombstone'[n])
      BY <1>10, Numbers
    <2> QED BY <1>5, <2>1, VersionsAre
  <1>12. ASSUME NEW s \in Sightings, Past(s, n)
         PROVE  Past(s, n)' /\ Seen(n)' # s
    <2>1. s.deletions \in Nat /\ s.deletions <= tombstone[n].at /\ s.present \subseteq Present(remote[n])
      BY <1>12 DEF Sightings, SyncAssumption, Past
    <2>2. s.deletions <= tombstone'[n].at /\ s.deletions # tombstone'[n].at
      BY <1>5, <1>6, <2>1
    <2> QED BY <1>3, <2>1, <2>2 DEF Past, Seen
  <1> QED BY <1>7, <1>9, <1>11, <1>12 DEF Passes

LEMMA PassesRestore ==
  ASSUME SyncAssumption, OneFloor, BaseInv, NEW n \in Names, NewestCounts(n), DeletionsCount(n), Restore(n)
  PROVE  Passes(n)
  <1>1. PICK v \in Deleted(n) :
           /\ tombstone'[n].at = tombstone[n].at
           /\ tombstone'[n].through \in Nat /\ tombstone'[n].through < v
           /\ tombstone'[n].through > 0 => tombstone'[n].through \in Deleted(n)
           /\ \A w \in Versions \ {v} : remote'[n][w] = remote[n][w]
           /\ remote'[n][v] = [remote[n][v] EXCEPT !.status = "active"]
           /\ v \in Versions /\ Active(remote[n]) = {} /\ "restore" \in Environment
           /\ remote[n][v] \in [status : {"active", "stale", "deleted"}, env : Envelopes, keys : (SUBSET Devices) \ {{}}]
    BY RestoreIs
  <1>2. remote'[n][v].status = "active" /\ remote[n][v].status = "deleted"
    BY <1>1 DEF Deleted
  <1>3. Active(remote'[n]) = {v} /\ Present(remote'[n]) = Present(remote[n]) /\ Deleted(n)' = Deleted(n) \ {v}
    BY <1>1, <1>2 DEF Active, Present, Has, Deleted
  <1>4. \A w \in Deleted(n) : w = v
    BY <1>1 DEF DeletionsCount
  <1>5. tombstone[n].at \in Nat /\ tombstone[n].through \in Nat /\ v \in Nat \ {0} /\ MaxDeletions \in Nat
    BY <1>1, Numbers, VersionsAre DEF SyncAssumption, BaseInv, Typed
  <1>6. tombstone'[n].through = 0
    BY <1>1, <1>4, <1>5
  <1>7. v \in Present(remote[n]) /\ v <= tombstone[n].through /\ tombstone[n].through = v
    <2>1. v \in Present(remote[n])
      BY <1>1, <1>2 DEF Present, Has
    <2>2. v <= tombstone[n].through
      BY <1>1, <2>1 DEF NewestCounts
    <2>3. tombstone[n].through \in Deleted(n)
      BY <1>1, <1>5, <2>2 DEF NewestCounts
    <2> QED BY <1>4, <2>1, <2>2, <2>3
  <1>8. NewestCounts(n)'
    BY <1>1, <1>3, <1>7 DEF NewestCounts
  <1>9. DeletionsCount(n)'
    <2>1. tombstone[n].at > 0
      BY <1>1, <1>5 DEF DeletionsCount
    <2>2. Deleted(n)' = {}
      BY <1>3, <1>4
    <2> QED BY <1>1, <1>5, <1>6, <2>1, <2>2 DEF DeletionsCount
  <1>10. \A told \in Entries \cup Tombstones : Older(told, tombstone[n]) =>
            /\ Older(told, tombstone'[n])
            /\ \A w \in Versions : w <= told.through /\ w > tombstone[n].through => w > tombstone'[n].through
    <2>1. \A w \in Versions : w > tombstone'[n].through
      BY <1>6, VersionsAre
    <2> QED BY <1>1, <1>5, <1>6, <2>1 DEF Older
  <1>11. ASSUME NEW s \in Sightings, Past(s, n)
         PROVE  Past(s, n)' /\ Seen(n)' # s
    <2>1. s.deletions = tombstone[n].at /\ s.present = Present(remote[n]) => s.active = {}
      BY <1>1, <1>11 DEF Past
    <2>2. Past(s, n)'
      BY <1>1, <1>3, <1>11, <2>1 DEF Past
    <2>3. Seen(n)' # s
      BY <1>1, <1>3, <2>1 DEF Seen
    <2> QED BY <2>2, <2>3
  <1> QED BY <1>8, <1>9, <1>10, <1>11 DEF Passes

LEMMA PassesCommit ==
  ASSUME SyncAssumption, BaseInv, NEW d \in Devices, Commit(d), NEW n \in Names, NewestCounts(n), DeletionsCount(n)
  PROVE  Passes(n)
  <1>1. /\ job[d].at = "planned" /\ Takes(d) /\ UNCHANGED tombstone
        /\ remote' = [m \in Names |-> Stored(d, m)]
    BY DEF Commit
  <1>2. PICK p, h, s : p = job[d] /\ h = history[d][n] /\ s = Stored(d, n)
    OBVIOUS
  <1>3. remote'[n] = s
    BY <1>1, <1>2
  <1>4. \/ Uploaded(n, p.uploads[n], s, h[p.uploads[n]].env, p.keys)
        \/ Rewrapped(n, p.rewraps[n], s, p.keys)
        \/ s = remote[n]
    BY <1>1, <1>2, StoredIs
  <1>5. CASE Uploaded(n, p.uploads[n], s, h[p.uploads[n]].env, p.keys)
    BY <1>1, <1>3, <1>5, PassesUpload
  <1>6. CASE Rewrapped(n, p.rewraps[n], s, p.keys)
    <2>1. PICK v : v = p.rewraps[n]
      OBVIOUS
    <2>2. v \in Versions /\ remote[n][v].status = "active"
      BY <1>6, <2>1 DEF Rewrapped, Active
    <2>3. \A w \in Versions : s[w].status = remote[n][w].status
      <3> TAKE w \in Versions
      <3> QED BY <1>6, <2>1, <2>2 DEF Rewrapped
    <2>4. Active(s) = Active(remote[n]) /\ Present(s) = Present(remote[n])
      BY <2>3 DEF Active, Present, Has
    <2>5. Deleted(n)' = Deleted(n)
      BY <1>3, <2>3 DEF Deleted
    <2> QED BY <1>1, <1>3, <2>4, <2>5, PassesStill
  <1>7. CASE s = remote[n]
    <2>1. Deleted(n)' = Deleted(n)
      BY <1>3, <1>7 DEF Deleted
    <2> QED BY <1>1, <1>3, <1>7, <2>1, PassesStill
  <1> QED BY <1>4, <1>5, <1>6, <1>7


-----------------------------------------------------------------------------
(* A step of what holds while no deletion is of a lower version.           *)

LEMMA Numbered ==
  ASSUME SyncAssumption, BaseInv, NEW d \in Devices, NEW n \in Names
  PROVE  /\ ledger[d][n] \in Entries /\ tombstone[n] \in Tombstones
         /\ ledger[d][n].through \in Nat /\ ledger[d][n].at \in Nat
         /\ tombstone[n].through \in Nat /\ tombstone[n].at \in Nat /\ tombstone[n].at <= MaxDeletions
  BY Numbers DEF BaseInv, Typed

\* What a device has stays undeleted, as far as it or the control plane says.
LEMMA FloorCarries ==
  ASSUME SyncAssumption, BaseInv, NEW d \in Devices, NEW n \in Names, Passes(n),
         Older(ledger[d][n], tombstone[n]), NoneLiveDeleted(d, n),
         history'[d][n] = history[d][n], ledger'[d][n] = ledger[d][n]
  PROVE  Older(ledger[d][n], tombstone[n])' /\ NoneLiveDeleted(d, n)'
  <1>1. PICK told : told = ledger[d][n]
    OBVIOUS
  <1>2. told \in Entries /\ told.through \in Nat
    BY <1>1, Numbered
  <1>3. Older(told, tombstone'[n])
    BY <1>1, <1>2 DEF Passes
  <1>4. \A v \in Active(history[d][n]) : v > told.through \/ v > tombstone'[n].through
    <2> TAKE v \in Active(history[d][n])
    <2>1. v \in Versions /\ v \in Nat
      BY VersionsAre DEF Active
    <2>2. v > told.through \/ v > tombstone[n].through
      BY <1>1 DEF NoneLiveDeleted
    <2>3. v <= told.through /\ v > tombstone[n].through => v > tombstone'[n].through
      BY <1>1, <1>2, <2>1 DEF Passes
    <2> QED BY <1>2, <2>1, <2>2, <2>3
  <1>5. Older(ledger'[d][n], tombstone'[n])
    BY <1>1, <1>3
  <1> QED BY <1>1, <1>4, <1>5 DEF NoneLiveDeleted, Older

\* What a running command knows stays true.
LEMMA ToldCarries ==
  ASSUME SyncAssumption, BaseInv, NEW d \in Devices, NEW n \in Names, Passes(n), job[d].at = "fetched", Told(d, n),
         job'[d] = job[d], ledger'[d] = ledger[d]
  PROVE  Told(d, n)'
  <1>1. PICK told : told = job[d].bundle.tombstone[n]
    OBVIOUS
  <1>2. told \in Tombstones
    BY <1>1, JobIs DEF BaseInv, Fetches, Bundles
  <1>3. Older(told, tombstone'[n])
    BY <1>1, <1>2 DEF Passes, Told
  <1>4. job'[d].bundle.tombstone[n] = told
    BY <1>1
  <1>5. Older(told, tombstone[n])'
    BY <1>3 DEF Older
  <1>6. n \in job[d].bundle.sees =>
          /\ Older(ledger[d][n], told)
          /\ told.at > 0 /\ told.through = 0 => "restore" \in Environment
    BY <1>1 DEF Told
  <1> QED BY <1>3, <1>4, <1>6 DEF Told, Older

LEMMA AgreesCarries ==
  ASSUME SyncAssumption, BaseInv, NEW d \in Devices, NEW n \in Names, Grows(n), Seen(n)' = Seen(n),
         history'[d] = history[d], NEW keys, Agrees(d, n, keys)
  PROVE  Agrees(d, n, keys)'
  <1>1. Active(remote'[n]) = Active(remote[n])
    BY DEF Seen
  <1>2. \A v \in Active(remote[n]) : remote'[n][v].env = remote[n][v].env /\ remote[n][v].keys \subseteq remote'[n][v].keys
    BY DEF Grows, Active, Has
  <1> QED BY <1>1, <1>2 DEF Agrees

LEMMA CaughtCarries ==
  ASSUME SyncAssumption, BaseInv, NEW d \in Devices, NEW n \in Names, Grows(n), Caught(d, n),
         history'[d] = history[d], job'[d] = job[d], job[d].seen[n] \in Sightings
  PROVE  Caught(d, n)'
  <1>1. PICK h, A : h = history[d][n] /\ A = job[d].seen[n].active
    OBVIOUS
  <1>2. A \subseteq Versions
    BY <1>1 DEF Sightings
  <1>3. ASSUME NEW v \in A
        PROVE  \E w \in Active(h) : w > v \/ (w = v /\ Shared(n, v, h[w].env)')
    <2>1. PICK w \in Active(h) : w > v \/ (w = v /\ Shared(n, v, h[w].env))
      BY <1>1 DEF Caught
    <2>2. PICK env : env = h[w].env
      OBVIOUS
    <2>3. Shared(n, v, env) => Shared(n, v, env)'
      BY <1>2, SharedGrows
    <2> QED BY <2>1, <2>2, <2>3
  <1>4. history'[d][n] = h /\ job'[d].seen[n].active = A
    BY <1>1
  <1> QED BY <1>3, <1>4 DEF Caught

LEMMA JobCarries ==
  ASSUME SyncAssumption, BaseInv, NEW d \in Devices, JobSound(d), \A n \in Names : Passes(n) /\ Grows(n),
         job'[d] = job[d], history'[d] = history[d], ledger'[d] = ledger[d]
  PROVE  JobSound(d)'
  <1>1. PICK j : j = job[d] /\ job'[d] = j
    OBVIOUS
  <1>2. \A s \in Sightings, n \in Names : Past(s, n) => Past(s, n)' /\ (Seen(n)' = s => Seen(n) = s)
    BY DEF Passes
  <1>3. CASE j.at = "fetched"
    <2>1. j.bundle \in Bundles /\ BundleSound(j.bundle)
      BY <1>1, <1>3, JobIs DEF BaseInv, Fetches
    <2>2. \A n \in j.bundle.sees : n \in Names /\ j.bundle.seen[n] \in Sightings
      <3>1. j.bundle.seen \in ForSome(Sightings) /\ DOMAIN j.bundle.seen = j.bundle.sees /\ j.bundle.sees \in SUBSET Names
        BY <2>1 DEF BundleSound, Bundles
      <3> QED BY <3>1, ForSomeIs
    <2>3. \A n \in Names : Told(d, n)'
      BY <1>1, <1>3, ToldCarries DEF JobSound
    <2>4. ASSUME NEW n \in j.bundle.sees
          PROVE  Past(j.bundle.seen[n], n)'
      <3>1. PICK s : s = j.bundle.seen[n]
        OBVIOUS
      <3>2. s \in Sightings /\ n \in Names /\ Past(s, n)
        BY <1>1, <1>3, <2>2, <3>1 DEF JobSound
      <3>3. Past(s, n)'
        BY <1>2, <3>2
      <3> QED BY <3>1, <3>3
    <2> QED BY <1>1, <1>3, <2>3, <2>4 DEF JobSound
  <1>4. CASE j.at = "pulled"
    <2>1. j.seen \in ForSome(Sightings) /\ j.sees \in SUBSET Names
      BY <1>1, <1>4, JobIs DEF BaseInv, Pulls
    <2>2. DOMAIN j.seen = j.sees /\ \A n \in j.sees : Past(j.seen[n], n) /\ Caught(d, n)
      BY <1>1, <1>4 DEF JobSound
    <2>3. \A n \in j.sees : n \in Names /\ j.seen[n] \in Sightings
      BY <2>1, <2>2, ForSomeIs
    <2>4. ASSUME NEW n \in j.sees
          PROVE  Past(j.seen[n], n)' /\ Caught(d, n)'
      <3>1. PICK s : s = j.seen[n]
        OBVIOUS
      <3>2. s \in Sightings /\ n \in Names /\ Past(s, n)
        BY <2>2, <2>3, <3>1
      <3>3. Past(s, n)'
        BY <1>2, <3>2
      <3>4. Caught(d, n)'
        BY <1>1, <2>2, <3>1, <3>2, CaughtCarries
      <3> QED BY <3>1, <3>3, <3>4
    <2> QED BY <1>1, <1>4, <2>2, <2>4 DEF JobSound
  <1>5. CASE j.at = "planned"
    <2>1. j \in Plans
      BY <1>1, <1>5, JobIs DEF BaseInv
    <2>2. \A n \in DOMAIN j.seen : n \in Names /\ j.seen[n] \in Sightings
      <3>1. CASE j.seen = <<>>
        BY <3>1
      <3>2. CASE j.seen \in ForSome(Sightings)
        BY <3>2, ForSomeIs
      <3> QED BY <2>1, <3>1, <3>2 DEF Plans
    <2>3. PICK L : L = (DOMAIN j.seen \cap j.writes) \ (DOMAIN j.uploads \cup DOMAIN j.rewraps)
      OBVIOUS
    <2>4. ASSUME NEW n \in DOMAIN j.seen
          PROVE  Past(j.seen[n], n)' /\ (Seen(n)' = j.seen[n] => Seen(n) = j.seen[n])
      <3>1. PICK s : s = j.seen[n]
        OBVIOUS
      <3>2. s \in Sightings /\ n \in Names /\ Past(s, n)
        BY <1>1, <1>5, <2>2, <3>1 DEF JobSound
      <3>3. Past(s, n)' /\ (Seen(n)' = s => Seen(n) = s)
        BY <1>2, <3>2
      <3> QED BY <3>1, <3>3
    <2>5. ASSUME NEW n \in DOMAIN j.seen
          PROVE  Caught(d, n)'
      <3>1. n \in Names /\ job[d].seen[n] \in Sightings /\ Caught(d, n)
        BY <1>1, <1>5, <2>2 DEF JobSound
      <3> QED BY <1>1, <3>1, CaughtCarries
    <2>6. ASSUME NEW n \in L, Seen(n)' = j.seen[n]
          PROVE  Agrees(d, n, j.keys)'
      <3>1. n \in DOMAIN j.seen /\ n \in Names /\ Seen(n) = j.seen[n] /\ n \in Left(d)
        BY <1>1, <2>2, <2>3, <2>4, <2>6 DEF Left
      <3>2. Agrees(d, n, j.keys)
        BY <1>1, <1>5, <3>1 DEF JobSound
      <3>3. PICK keys : keys = j.keys
        OBVIOUS
      <3>4. Agrees(d, n, keys)'
        BY <2>6, <3>1, <3>2, <3>3, AgreesCarries
      <3> QED BY <3>3, <3>4
    <2>7. Left(d)' = L
      BY <1>1, <2>3 DEF Left
    <2> QED BY <1>1, <1>5, <2>4, <2>5, <2>6, <2>7 DEF JobSound
  <1> QED BY <1>1, <1>3, <1>4, <1>5 DEF JobSound

LEMMA FloorStep ==
  ASSUME SyncAssumption, BaseInv, FloorInv, \A n \in Names : Passes(n) /\ Grows(n),
         \A d \in Devices, n \in Names :
            \/ history'[d][n] = history[d][n] /\ ledger'[d][n] = ledger[d][n]
            \/ Older(ledger[d][n], tombstone[n])' /\ NoneLiveDeleted(d, n)',
         \A d \in Devices :
            \/ job'[d] = job[d] /\ history'[d] = history[d] /\ ledger'[d] = ledger[d]
            \/ JobSound(d)'
  PROVE  FloorInv'
  <1>1. \A n \in Names : NewestCounts(n)' /\ DeletionsCount(n)'
    BY DEF Passes
  <1>2. \A d \in Devices, n \in Names : Older(ledger[d][n], tombstone[n])' /\ NoneLiveDeleted(d, n)'
    BY FloorCarries DEF FloorInv
  <1>3. \A d \in Devices : JobSound(d)'
    BY JobCarries DEF FloorInv
  <1> QED BY <1>1, <1>2, <1>3 DEF FloorInv

\* A job that is no command has nothing to be sound.
LEMMA FreeSound ==
  ASSUME NEW d \in Devices, job'[d].at \notin {"fetched", "pulled", "planned"}
  PROVE  JobSound(d)'
  BY DEF JobSound

\* Nothing happens at the control plane.
LEMMA PassesAll ==
  ASSUME SyncAssumption, BaseInv, FloorInv, UNCHANGED <<remote, tombstone>>
  PROVE  \A n \in Names : Passes(n) /\ Grows(n)
  <1> TAKE n \in Names
  <1>1. NewestCounts(n) /\ DeletionsCount(n) /\ Deleted(n)' = Deleted(n)
    BY DEF FloorInv, Deleted
  <1>2. Passes(n)
    BY <1>1, PassesStill
  <1> QED BY <1>2, Still


-----------------------------------------------------------------------------
(* The actions, while no deletion is of a lower version.                   *)

\* Only the job of d changes.
LEMMA FloorQuiet ==
  ASSUME SyncAssumption, BaseInv, FloorInv, NEW d \in Devices, NEW x \in AnyJob, job' = [job EXCEPT ![d] = x],
         UNCHANGED <<history, ledger, remote, tombstone, trusted>>, JobSound(d)'
  PROVE  FloorInv'
  <1>1. \A n \in Names : Passes(n) /\ Grows(n)
    BY PassesAll
  <1>2. \A e \in Devices \ {d} : job'[e] = job[e]
    BY JobTurns DEF BaseInv
  <1>3. \A e \in Devices : \/ job'[e] = job[e] /\ history'[e] = history[e] /\ ledger'[e] = ledger[e]
                           \/ JobSound(e)'
    BY <1>2
  <1>4. \A e \in Devices, n \in Names :
           \/ history'[e][n] = history[e][n] /\ ledger'[e][n] = ledger[e][n]
           \/ Older(ledger[e][n], tombstone[n])' /\ NoneLiveDeleted(e, n)'
    OBVIOUS
  <1> QED BY <1>1, <1>3, <1>4, FloorStep

LEMMA FEnds ==
  ASSUME SyncAssumption, BaseInv, FloorInv, NEW d \in Devices, AbsorbFails(d) \/ CommitFails(d) \/ Stop(d)
  PROVE  FloorInv'
  <1>1. job' = [job EXCEPT ![d] = Idle] /\ UNCHANGED <<history, ledger, remote, tombstone, trusted>>
    BY DEF AbsorbFails, CommitFails, Stop
  <1>2. PICK x : x = Idle
    OBVIOUS
  <1>3. x \in AnyJob /\ x.at = "idle"
    BY <1>2 DEF AnyJob, Idle
  <1>4. job' = [job EXCEPT ![d] = x] /\ job'[d] = x
    BY <1>1, <1>2, <1>3, JobTurns DEF BaseInv
  <1>5. JobSound(d)'
    BY <1>3, <1>4, FreeSound
  <1> QED BY <1>1, <1>3, <1>4, <1>5, FloorQuiet

LEMMA FTrust ==
  ASSUME SyncAssumption, BaseInv, FloorInv, NEW d \in Devices, Trust(d)
  PROVE  FloorInv'
  <1>1. UNCHANGED <<history, ledger, job, remote, tombstone>>
    BY DEF Trust
  <1>2. \A n \in Names : Passes(n) /\ Grows(n)
    BY <1>1, PassesAll
  <1> QED BY <1>1, <1>2, FloorStep

LEMMA RemoteGrows ==
  ASSUME SyncAssumption, BaseInv, NEW n \in Names, Delete(n) \/ Restore(n)
  PROVE  Grows(n)
  <1>1. ASSUME Delete(n)
        PROVE  Grows(n)
    <2>1. PICK v \in Active(remote[n]) :
             /\ remote' \in [Names -> [Versions -> RemoteVersions]] /\ tombstone' \in [Names -> Tombstones]
             /\ \A w \in Versions \ {v} : remote'[n][w] = remote[n][w] /\ w \notin Active(remote[n])
             /\ remote'[n][v] = [remote[n][v] EXCEPT !.status = "deleted"]
             /\ remote[n][v] \in [status : {"active", "stale", "deleted"}, env : Envelopes, keys : (SUBSET Devices) \ {{}}]
      BY <1>1, DeleteIs
    <2>2. /\ remote'[n][v].status = "deleted" /\ remote'[n][v].env = remote[n][v].env
          /\ remote'[n][v].keys = remote[n][v].keys
      BY <2>1
    <2> QED BY <2>1, <2>2 DEF Grows, Has
  <1>2. ASSUME Restore(n)
        PROVE  Grows(n)
    <2>1. PICK v \in Deleted(n) :
             /\ remote' \in [Names -> [Versions -> RemoteVersions]] /\ tombstone' \in [Names -> Tombstones]
             /\ \A w \in Versions \ {v} : remote'[n][w] = remote[n][w]
             /\ remote'[n][v] = [remote[n][v] EXCEPT !.status = "active"]
             /\ remote[n][v] \in [status : {"active", "stale", "deleted"}, env : Envelopes, keys : (SUBSET Devices) \ {{}}]
      BY <1>2, RestoreIs
    <2>2. /\ remote'[n][v].status = "active" /\ remote'[n][v].env = remote[n][v].env
          /\ remote'[n][v].keys = remote[n][v].keys
      BY <2>1
    <2> QED BY <2>1, <2>2 DEF Grows, Has
  <1> QED BY <1>1, <1>2

LEMMA FRemote ==
  ASSUME SyncAssumption, OneFloor, BaseInv, FloorInv, NEW n \in Names, Delete(n) \/ Restore(n)
  PROVE  FloorInv'
  <1>1. UNCHANGED <<history, ledger, job, trusted>>
    BY DEF Delete, Restore
  <1>2. \A m \in Names : NewestCounts(m) /\ DeletionsCount(m)
    BY DEF FloorInv
  <1>3. Passes(n)
    BY <1>2, PassesDelete, PassesRestore
  <1>4. remote \in [Names -> [Versions -> RemoteVersions]] /\ tombstone \in [Names -> Tombstones]
    BY DEF BaseInv, Typed
  <1>5. \A m \in Names \ {n} : remote'[m] = remote[m] /\ tombstone'[m] = tombstone[m]
    BY <1>4 DEF Delete, Restore
  <1>6. \A m \in Names \ {n} : Passes(m) /\ Grows(m)
    <2> TAKE m \in Names \ {n}
    <2>1. Deleted(m)' = Deleted(m)
      BY <1>5 DEF Deleted
    <2> QED BY <1>2, <1>5, <2>1, PassesStill, Still
  <1>7. Grows(n)
    BY RemoteGrows
  <1>8. \A m \in Names : Passes(m) /\ Grows(m)
    BY <1>3, <1>6, <1>7
  <1> QED BY <1>1, <1>8, FloorStep

LEMMA FCommit ==
  ASSUME SyncAssumption, BaseInv, FloorInv, NEW d \in Devices, Commit(d)
  PROVE  FloorInv'
  <1>1. /\ job[d].at = "planned" /\ UNCHANGED <<history, ledger, tombstone, trusted>>
        /\ job' = [job EXCEPT ![d] = Idle]
    BY DEF Commit
  <1>2. \A n \in Names : Passes(n) /\ Grows(n)
    BY PassesCommit, CommitGrows DEF FloorInv
  <1>3. PICK x : x = Idle
    OBVIOUS
  <1>4. x \in AnyJob /\ x.at = "idle" /\ job' = [job EXCEPT ![d] = x]
    BY <1>1, <1>3 DEF AnyJob, Idle
  <1>5. job'[d] = x /\ \A e \in Devices \ {d} : job'[e] = job[e]
    BY <1>4, JobTurns DEF BaseInv
  <1>6. JobSound(d)'
    BY <1>4, <1>5, FreeSound
  <1> QED BY <1>1, <1>2, <1>5, <1>6, FloorStep

\* A device that is not running a command changes one secret of its file.
LEMMA FOwn ==
  ASSUME SyncAssumption, BaseInv, FloorInv, NEW d \in Devices, NEW n \in Names,
         RemoveSecret(d, n) \/ \E x \in Values : Add(d, n, x)
  PROVE  FloorInv'
  <1>1. UNCHANGED <<job, remote, tombstone, trusted>> /\ Free(d) /\ Typed
    BY DEF RemoveSecret, Add, BaseInv
  <1>2. /\ \A e \in Devices, m \in Names : e # d \/ m # n => history'[e][m] = history[e][m] /\ ledger'[e][m] = ledger[e][m]
        /\ \A e \in Devices \ {d} : history'[e] = history[e] /\ ledger'[e] = ledger[e]
        /\ ledger'[d][n].through = ledger[d][n].through /\ ledger'[d][n].at = ledger[d][n].at
        /\ \A v \in Active(history'[d][n]) : v > ledger[d][n].through
    <2>1. CASE RemoveSecret(d, n)
      <3>1. Active(history'[d][n]) = {}
        BY <1>1, <2>1, RemoveIs
      <3>2. /\ \A e \in Devices, m \in Names : e # d \/ m # n =>
                  history'[e][m] = history[e][m] /\ ledger'[e][m] = ledger[e][m]
            /\ \A e \in Devices \ {d} : history'[e] = history[e] /\ ledger'[e] = ledger[e]
            /\ ledger'[d][n].through = ledger[d][n].through /\ ledger'[d][n].at = ledger[d][n].at
        BY <1>1, <2>1, RemoveIs
      <3> QED BY <3>1, <3>2
    <2>2. ASSUME NEW x \in Values, Add(d, n, x)
          PROVE  /\ \A e \in Devices, m \in Names : e # d \/ m # n =>
                       history'[e][m] = history[e][m] /\ ledger'[e][m] = ledger[e][m]
                 /\ \A e \in Devices \ {d} : history'[e] = history[e] /\ ledger'[e] = ledger[e]
                 /\ ledger'[d][n].through = ledger[d][n].through /\ ledger'[d][n].at = ledger[d][n].at
                 /\ \A v \in Active(history'[d][n]) : v > ledger[d][n].through
      <3>1. PICK v : v = NextVersion(d, n)
        OBVIOUS
      <3>2. /\ v > ledger[d][n].through /\ Active(history'[d][n]) = {v}
            /\ \A e \in Devices, m \in Names : e # d \/ m # n =>
                  history'[e][m] = history[e][m] /\ ledger'[e][m] = ledger[e][m]
            /\ \A e \in Devices \ {d} : history'[e] = history[e] /\ ledger'[e] = ledger[e]
            /\ ledger'[d][n].through = ledger[d][n].through /\ ledger'[d][n].at = ledger[d][n].at
        BY <1>1, <2>2, <3>1, AddIs
      <3> QED BY <3>2
    <2> QED BY <2>1, <2>2
  <1>3. \A m \in Names : Passes(m) /\ Grows(m)
    BY <1>1, PassesAll
  <1>4. Older(ledger[d][n], tombstone[n])' /\ NoneLiveDeleted(d, n)'
    <2>1. Older(ledger[d][n], tombstone[n])
      BY DEF FloorInv
    <2>2. Older(ledger[d][n], tombstone[n])'
      BY <1>1, <1>2, <2>1 DEF Older
    <2>3. NoneLiveDeleted(d, n)'
      BY <1>2 DEF NoneLiveDeleted
    <2> QED BY <2>2, <2>3
  <1>5. JobSound(d)'
    <2>1. job'[d].at \notin {"fetched", "pulled", "planned"}
      BY <1>1 DEF Free, Idle
    <2> QED BY <2>1, FreeSound
  <1>6. \A e \in Devices, m \in Names :
           \/ history'[e][m] = history[e][m] /\ ledger'[e][m] = ledger[e][m]
           \/ Older(ledger[e][m], tombstone[m])' /\ NoneLiveDeleted(e, m)'
    BY <1>2, <1>4
  <1>7. \A e \in Devices : \/ job'[e] = job[e] /\ history'[e] = history[e] /\ ledger'[e] = ledger[e]
                           \/ JobSound(e)'
    BY <1>1, <1>2, <1>5
  <1> QED BY <1>3, <1>6, <1>7, FloorStep

LEMMA ToldIs ==
  ASSUME NEW d, NEW n, NEW told, NEW sees,
         job'[d].bundle.tombstone[n] = told, job'[d].bundle.sees = sees, Older(told, tombstone'[n]),
         n \in sees => Older(ledger'[d][n], told),
         n \in sees => (told.at > 0 /\ told.through = 0 => "restore" \in Environment)
  PROVE  Told(d, n)'
  BY DEF Told, Older

\* What a device knows of the deletions when it has read them.
LEMMA FFetch ==
  ASSUME SyncAssumption, BaseInv, FloorInv, NEW d \in Devices, NEW mode \in Commands, Fetch(d, mode)
  PROVE  FloorInv'
  <1>1. PICK sees \in SUBSET Names :
           job' = [job EXCEPT ![d] = [at |-> "fetched", mode |-> mode, bundle |-> Bundle(sees)]]
    BY DEF Fetch
  <1>2. PICK b : b = Bundle(sees)
    OBVIOUS
  <1>3. b \in Bundles /\ b.sees = sees
    BY <1>2, BundleIs
  <1>4. /\ \A n \in Names : b.tombstone[n] = IF n \in sees THEN tombstone[n] ELSE NoTombstone
        /\ \A n \in sees : b.seen[n] = Seen(n)
    BY <1>2 DEF Bundle
  <1>5. mode \in {"pull", "force", "sync"}
    BY DEF Fetch, SyncAssumption
  <1>6. PICK x : x = [at |-> "fetched", mode |-> mode, bundle |-> b]
    OBVIOUS
  <1>7. x \in AnyJob /\ x.at = "fetched" /\ x.bundle = b /\ job' = [job EXCEPT ![d] = x]
    BY <1>1, <1>2, <1>3, <1>5, <1>6 DEF AnyJob, Fetches
  <1>8. UNCHANGED <<history, ledger, remote, tombstone, trusted>>
    BY DEF Fetch
  <1>9. job'[d] = x
    BY <1>7, JobTurns DEF BaseInv
  <1>10. ASSUME NEW n \in Names
         PROVE  /\ Older(b.tombstone[n], tombstone[n])
                /\ n \in sees => /\ Older(ledger[d][n], b.tombstone[n])
                                 /\ b.tombstone[n].at > 0 /\ b.tombstone[n].through = 0 => "restore" \in Environment
    <2>1. /\ DeletionsCount(n) /\ Older(ledger[d][n], tombstone[n])
          /\ tombstone[n].through \in Nat /\ tombstone[n].at \in Nat
      BY Numbered DEF FloorInv
    <2>2. CASE n \in sees
      <3>1. b.tombstone[n] = tombstone[n]
        BY <1>4, <2>2
      <3>2. Older(tombstone[n], tombstone[n])
        BY <2>1 DEF Older, DeletionsCount
      <3> QED BY <2>1, <3>1, <3>2 DEF DeletionsCount
    <2>3. CASE n \notin sees
      <3>1. b.tombstone[n] = NoTombstone
        BY <1>4, <2>3
      <3>2. Older(NoTombstone, tombstone[n])
        BY <2>1 DEF Older, DeletionsCount, NoTombstone
      <3> QED BY <2>3, <3>1, <3>2
    <2> QED BY <2>2, <2>3
  <1>11. \A n \in sees : Past(Seen(n), n)
    <2> TAKE n \in sees
    <2>1. tombstone[n].at \in Nat
      BY Numbered
    <2> QED BY <2>1 DEF Past, Seen
  <1>12. JobSound(d)'
    <2>1. ASSUME NEW n \in Names PROVE Told(d, n)'
      <3>1. job'[d].bundle = b /\ tombstone' = tombstone /\ ledger' = ledger
        BY <1>7, <1>8, <1>9
      <3>2. PICK told : told = b.tombstone[n]
        OBVIOUS
      <3>3. Older(told, tombstone[n])
        BY <1>10, <3>2
      <3>4. n \in b.sees => Older(ledger[d][n], told)
        BY <1>3, <1>10, <3>2
      <3>5. n \in b.sees => (told.at > 0 /\ told.through = 0 => "restore" \in Environment)
        BY <1>3, <1>10, <3>2
      <3>6. job'[d].bundle.tombstone[n] = told /\ job'[d].bundle.sees = b.sees
        BY <3>1, <3>2
      <3> QED BY <3>1, <3>3, <3>4, <3>5, <3>6, ToldIs
    <2>2. \A n \in sees : Past(b.seen[n], n)'
      BY <1>4, <1>8, <1>11 DEF Past
    <2> QED BY <1>3, <1>7, <1>9, <2>1, <2>2 DEF JobSound
  <1> QED BY <1>7, <1>8, <1>12, FloorQuiet


\* What an import leaves is not below the deletions the device then knows of,
\* unless the control plane took them back; and it knows of no fewer.
LEMMA AbsorbedFloor ==
  ASSUME SyncAssumption, OneFloor, BaseInv, FloorInv, NEW d \in Devices, job[d].at = "fetched", NEW n \in Names,
         NEW new, new = Import(d).secrets[n], NEW entry, entry = Merged(d)[n]
  PROVE  /\ Older(entry, tombstone[n]) /\ entry.through >= ledger[d][n].through
         /\ \A v \in Active(new) : v > entry.through \/ v > tombstone[n].through
  <1>1. PICK b, told, own, old : b = job[d].bundle /\ told = b.tombstone[n] /\ own = ledger[d][n] /\ old = history[d][n]
    OBVIOUS
  <1>2. Typed /\ BundleSound(b) /\ DeletionsCount(n)
    BY <1>1 DEF BaseInv, FloorInv
  <1>3. entry = Reconciled(own, told) /\ own \in Entries /\ told \in Tombstones
    BY <1>1, <1>2, MergedIs
  <1>4. /\ own.at \in Nat /\ own.through \in Nat /\ told.at \in Nat /\ told.through \in Nat
        /\ tombstone[n].at \in Nat /\ tombstone[n].through \in Nat /\ tombstone[n].at <= MaxDeletions
    BY <1>3, Numbers, Numbered
  <1>5. /\ told.through = 0 => entry = own
        /\ told.through # 0 => entry.through = told.through /\ entry.at = told.at
    BY <1>3, ReconciledIs
  <1>6. /\ Older(told, tombstone[n]) /\ Older(own, tombstone[n])
        /\ n \in b.sees => Older(own, told) /\ (told.at > 0 /\ told.through = 0 => "restore" \in Environment)
    BY <1>1 DEF FloorInv, JobSound, Told
  <1>7. n \notin b.sees => told.through = 0
    BY <1>1, <1>2 DEF BundleSound, NoTombstone
  <1>8. Older(entry, tombstone[n])
    BY <1>5, <1>6 DEF Older
  <1>9. entry.through >= own.through
    BY <1>4, <1>5, <1>6, <1>7 DEF Older
  <1>10. \A v \in Active(new) : v > entry.through \/ (n \in b.sees /\ v \in b.seen[n].active)
    <2>1. Keeps(d, n, b, old, new, entry)
      BY <1>1, ImportKeeps
    <2> QED BY <2>1 DEF Keeps
  <1>11. ASSUME NEW v \in Active(new), ~(v > entry.through)
         PROVE  v > tombstone[n].through
    <2>1. v \in Nat \ {0}
      BY VersionsAre DEF Active
    <2>2. n \in b.sees /\ v > told.through
      BY <1>2, <1>1, <1>10, <1>11 DEF BundleSound
    <2>3. told.through = 0 /\ entry = own
      BY <1>5, <1>11, <2>2
    <2>4. own.through > 0
      BY <1>4, <1>11, <2>1, <2>3
    <2>5. told.at > 0 /\ "restore" \in Environment
      BY <1>4, <1>6, <2>2, <2>3, <2>4 DEF Older
    <2>6. MaxDeletions \in Nat /\ MaxDeletions <= 1
      BY <2>5 DEF OneFloor, SyncAssumption
    <2>7. told.at = tombstone[n].at
      BY <1>4, <1>6, <2>5, <2>6 DEF Older
    <2>8. tombstone[n].through = 0
      BY <1>6, <2>3, <2>7 DEF Older
    <2> QED BY <2>1, <2>8
  <1> QED BY <1>1, <1>8, <1>9, <1>11

\* What the import of a sync leaves is not older than the bundle.
LEMMA CaughtUp ==
  ASSUME SyncAssumption, BaseInv, NEW d \in Devices, job[d].at = "fetched", NEW b, b = job[d].bundle,
         NEW i, i = Import(d), i.refused = {}, ~i.partial, NEW n \in b.sees, NEW v \in b.seen[n].active
  PROVE  \E w \in Active(i.secrets[n]) : w > v \/ (w = v /\ Shared(n, v, i.secrets[n][w].env))
  <1>1. Typed /\ BundleSound(b) /\ b \in Bundles
    BY JobIs DEF BaseInv, Fetches
  <1>2. n \in Names /\ v \in Versions /\ b.record[n] \in RemoteVersions
    <2>1. b.seen \in ForSome(Sightings) /\ b.record \in ForSome(RemoteVersions) /\ b.sees \in SUBSET Names
          /\ DOMAIN b.seen = b.sees /\ DOMAIN b.record = b.sees
      BY <1>1 DEF Bundles, BundleSound
    <2>2. b.seen[n] \in Sightings /\ b.record[n] \in RemoteVersions
      BY <2>1, ForSomeIs
    <2> QED BY <2>1, <2>2 DEF Sightings
  <1>3. PICK env, r : env = b.record[n].env /\ r = Buried(d)[n]
    OBVIOUS
  <1>4. Shared(n, v, env) /\ b.record[n] # Unknown
    BY <1>1, <1>3 DEF BundleSound
  <1>5. env \in Envelopes
    BY <1>2, <1>3, <1>4 DEF RemoteVersions
  <1>6. r \in [Versions -> LocalVersions]
    <2>1. PICK through, old : through = Merged(d)[n].through /\ old = history[d][n]
      OBVIOUS
    <2>2. r = Retired(old, through) /\ old \in [Versions -> LocalVersions]
      BY <1>1, <1>2, <1>3, <2>1, MergedIs DEF Typed
    <2> QED BY <2>2, RetiredIs
  <1>7. \/ i.secrets[n] = WithActive(r, v, env)
        \/ i.secrets[n] = r /\ \E w \in Active(r) : w > v
    BY <1>1, <1>2, <1>3, ImportIs
  <1>8. CASE i.secrets[n] = WithActive(r, v, env)
    <2>1. LET s == WithActive(r, v, env) IN Active(s) = {v} /\ s[v].env = env
      BY <1>2, <1>5, <1>6, WithActiveIs
    <2>2. Active(i.secrets[n]) = {v} /\ i.secrets[n][v].env = env
      BY <1>8, <2>1
    <2> QED BY <1>4, <2>2
  <1> QED BY <1>7, <1>8

\* The import saves: what holds of the file, and of a sync that goes on.
LEMMA FAbsorb ==
  ASSUME SyncAssumption, OneFloor, BaseInv, FloorInv, NEW d \in Devices, Absorb(d) \/ AbsorbHalf(d)
  PROVE  FloorInv'
  <1>1. Typed /\ job[d].at = "fetched" /\ UNCHANGED <<remote, tombstone, trusted>>
    BY DEF Absorb, AbsorbHalf, BaseInv
  <1>2. PICK i, l, b : i = Import(d) /\ l = Merged(d) /\ b = job[d].bundle
    OBVIOUS
  <1>3. PICK x : /\ job' = [job EXCEPT ![d] = x]
                 /\ \/ x = Idle
                    \/ /\ x = [at |-> "pulled", sees |-> b.sees, seen |-> b.seen]
                       /\ job[d].mode = "sync" /\ i.refused = {} /\ ~i.partial
    BY <1>2 DEF Absorb, AbsorbHalf
  <1>4. /\ b \in Bundles /\ BundleSound(b) /\ b.sees \in SUBSET Names /\ b.seen \in ForSome(Sightings)
        /\ DOMAIN b.seen = b.sees
    BY <1>1, <1>2, JobIs DEF BaseInv, Fetches, Bundles, BundleSound
  <1>5. x \in AnyJob /\ x.at \in {"idle", "pulled"}
    <2>1. CASE x = Idle
      BY <2>1 DEF AnyJob, Idle
    <2>2. CASE x = [at |-> "pulled", sees |-> b.sees, seen |-> b.seen]
      BY <1>4, <2>2 DEF AnyJob, Pulls
    <2> QED BY <1>3, <2>1, <2>2
  <1>6. job'[d] = x /\ \A e \in Devices \ {d} : job'[e] = job[e]
    BY <1>1, <1>3, <1>5, JobTurns
  <1>7. CASE UNCHANGED <<history, ledger>> /\ x = Idle
    <2>1. x.at = "idle"
      BY <1>7 DEF Idle
    <2>2. JobSound(d)'
      BY <1>6, <2>1, FreeSound
    <2> QED BY <1>1, <1>3, <1>5, <1>7, <2>2, FloorQuiet
  <1>8. CASE history' = [history EXCEPT ![d] = i.secrets] /\ ledger' = [ledger EXCEPT ![d] = l]
    <2>1. /\ history'[d] = i.secrets /\ ledger'[d] = l
          /\ \A e \in Devices \ {d} : history'[e] = history[e] /\ ledger'[e] = ledger[e]
      BY <1>1, <1>8 DEF Typed
    <2>2. \A n \in Names : Passes(n) /\ Grows(n)
      BY <1>1, PassesAll
    <2>3. ASSUME NEW n \in Names
          PROVE  Older(ledger[d][n], tombstone[n])' /\ NoneLiveDeleted(d, n)'
      <3>1. PICK new, entry : new = Import(d).secrets[n] /\ entry = Merged(d)[n]
        OBVIOUS
      <3>2. /\ Older(entry, tombstone[n])
            /\ \A v \in Active(new) : v > entry.through \/ v > tombstone[n].through
        BY <1>1, <3>1, AbsorbedFloor
      <3>3. history'[d][n] = new /\ ledger'[d][n] = entry /\ tombstone'[n] = tombstone[n]
        BY <1>1, <1>2, <2>1, <3>1
      <3> QED BY <3>2, <3>3 DEF Older, NoneLiveDeleted
    <2>4. ASSUME x = [at |-> "pulled", sees |-> b.sees, seen |-> b.seen], i.refused = {}, ~i.partial, NEW n \in b.sees
          PROVE  Past(b.seen[n], n)' /\ Caught(d, n)'
      <3>1. Past(b.seen[n], n)
        BY <1>1, <1>2, <2>4 DEF FloorInv, JobSound
      <3>2. Past(b.seen[n], n)'
        BY <1>1, <3>1 DEF Past
      <3>3. \A v \in b.seen[n].active :
               \E w \in Active(i.secrets[n]) : w > v \/ (w = v /\ Shared(n, v, i.secrets[n][w].env))
        <4> TAKE v \in b.seen[n].active
        <4> QED BY <1>1, <1>2, <2>4, CaughtUp
      <3>4. Caught(d, n)'
        BY <1>1, <1>6, <2>1, <2>4, <3>3 DEF Caught, Shared
      <3> QED BY <3>2, <3>4
    <2>5. JobSound(d)'
      <3>1. CASE x = Idle
        <4>1. x.at = "idle"
          BY <3>1 DEF Idle
        <4> QED BY <1>6, <4>1, FreeSound
      <3>2. CASE x = [at |-> "pulled", sees |-> b.sees, seen |-> b.seen] /\ i.refused = {} /\ ~i.partial
        BY <1>4, <1>6, <2>4, <3>2 DEF JobSound
      <3> QED BY <1>3, <3>1, <3>2
    <2>6. \A e \in Devices, n \in Names :
             \/ history'[e][n] = history[e][n] /\ ledger'[e][n] = ledger[e][n]
             \/ Older(ledger[e][n], tombstone[n])' /\ NoneLiveDeleted(e, n)'
      BY <2>1, <2>3
    <2>7. \A e \in Devices : \/ job'[e] = job[e] /\ history'[e] = history[e] /\ ledger'[e] = ledger[e]
                             \/ JobSound(e)'
      BY <1>6, <2>1, <2>5
    <2> QED BY <2>2, <2>6, <2>7, FloorStep
  <1>9. \/ UNCHANGED <<history, ledger>> /\ x = Idle
        \/ history' = [history EXCEPT ![d] = i.secrets] /\ ledger' = [ledger EXCEPT ![d] = l]
    <2>1. CASE Absorb(d)
      <3>1. \/ i.partial /\ UNCHANGED <<history, ledger>>
            \/ history' = [history EXCEPT ![d] = i.secrets] /\ ledger' = [ledger EXCEPT ![d] = l]
        BY <1>2, <2>1 DEF Absorb
      <3> QED BY <1>3, <3>1
    <2>2. CASE AbsorbHalf(d)
      BY <1>2, <2>2 DEF AbsorbHalf
    <2> QED BY <2>1, <2>2
  <1> QED BY <1>7, <1>8, <1>9

\* A secret of a sync that the plan finds nothing to do for, and that is as it
\* was in the bundle, is the same on the device and on the control plane.
LEMMA NothingToDo ==
  ASSUME SyncAssumption, BaseInv, FloorInv, NEW d \in Devices, job[d].at = "pulled", NEW names \in SUBSET job[d].sees,
         NEW n \in names, Seen(n) = job[d].seen[n], \A m \in Offered(d, names) : ~Blocked(d, m, Published(d, m)),
         n \notin Uploads(d, names), n \notin Rewraps(d, names)
  PROVE  Agrees(d, n, trusted)
  <1>1. PICK h, r : h = history[d][n] /\ r = remote[n]
    OBVIOUS
  <1>2. n \in Names
    BY JobIs DEF BaseInv, Pulls
  <1>3. /\ OneActive(h) /\ OneActive(r) /\ NewestCounts(n)
        /\ \A v \in Active(r) : \E w \in Active(h) : w > v \/ (w = v /\ Shared(n, v, h[w].env))
    BY <1>1, <1>2 DEF BaseInv, LocalSound, RemoteSound, FloorInv, JobSound, Caught, Seen
  <1>4. CASE Active(h) = {}
    BY <1>1, <1>3, <1>4 DEF Agrees
  <1>5. CASE Active(h) # {}
    <2>1. PICK v : v = Published(d, n)
      OBVIOUS
    <2>2. v \in Active(h) /\ v \in Versions
      <3>1. \E w \in Versions : w \in Active(h)
        BY <1>5 DEF Active
      <3> QED BY <1>1, <2>1, <3>1 DEF Published
    <2>3. n \in Offered(d, names)
      BY <1>1, <1>5 DEF Offered
    <2>4. /\ ~Buries(n, v) /\ (Has(r, v) => Matches(d, n, v))
          /\ ~(~Has(r, v) /\ Newest(r) < v)
          /\ (Has(r, v) => trusted \subseteq r[v].keys)
      BY <1>1, <2>1, <2>3 DEF Blocked, Uploads, Rewraps
    <2>5. CASE Has(r, v)
      <3>1. v \in Active(r) /\ h[v].env = r[v].env /\ trusted \subseteq r[v].keys
        BY <1>1, <2>2, <2>4, <2>5 DEF Matches, Active
      <3>2. Active(r) = {v} /\ Active(h) = {v}
        BY <1>3, <2>2, <3>1 DEF OneActive
      <3> QED BY <1>1, <3>1, <3>2 DEF Agrees
    <2>6. CASE ~Has(r, v)
      <3>1. PICK w : w = Newest(r)
        OBVIOUS
      <3>2. w \in 0 .. MaxVersion /\ (w > 0 => w \in Present(r)) /\ v \in Nat \ {0} /\ MaxVersion \in Nat
        BY <2>2, <3>1, NewestIs, VersionsAre
      <3>3. w \in Present(r) /\ w > v
        <4>1. w >= v
          BY <2>4, <2>6, <3>1, <3>2
        <4>2. v \notin Present(r)
          BY <2>6 DEF Present
        <4> QED BY <3>2, <4>1, <4>2
      <3>4. tombstone[n].through \in Nat /\ v > tombstone[n].through
        BY <1>2, <2>4, <3>2, Numbered DEF Buries
      <3>5. PICK a \in Active(r) : TRUE
        BY <1>1, <1>3, <3>2, <3>3, <3>4 DEF NewestCounts
      <3>6. a >= w /\ a \in Nat
        BY <1>1, <1>3, <3>3, <3>5, VersionsAre DEF NewestCounts, Active
      <3>7. PICK u \in Active(h) : u > a \/ u = a
        BY <1>3, <3>5
      <3>8. u = v
        BY <1>3, <2>2 DEF OneActive
      <3> QED BY <3>2, <3>3, <3>6, <3>7, <3>8
    <2> QED BY <2>5, <2>6
  <1> QED BY <1>4, <1>5

LEMMA FPush ==
  ASSUME SyncAssumption, BaseInv, FloorInv, NEW d \in Devices, Push(d) \/ Publish(d)
  PROVE  FloorInv'
  <1>1. PICK names, seen, x :
           /\ IsPlan(d, names, seen, x)
           /\ job' = [job EXCEPT ![d] = x] /\ UNCHANGED <<history, ledger, remote, tombstone, trusted>>
           /\ \/ seen = <<>>
              \/ job[d].at = "pulled" /\ names \in SUBSET job[d].sees /\ seen = job[d].seen
    BY PushIs, PublishIs
  <1>2. x \in AnyJob
    BY <1>1 DEF IsPlan
  <1>3. job'[d] = x
    BY <1>1, <1>2, JobTurns DEF BaseInv
  <1>4. CASE x.at # "planned"
    <2>1. x.at \notin {"fetched", "pulled", "planned"}
      BY <1>1, <1>4 DEF IsPlan
    <2>2. JobSound(d)'
      BY <1>3, <2>1, FreeSound
    <2> QED BY <1>1, <1>2, <2>2, FloorQuiet
  <1>5. CASE x.at = "planned"
    <2>1. /\ \A n \in Offered(d, names) : ~Blocked(d, n, Published(d, n))
          /\ x.writes = names /\ x.seen = seen /\ x.keys = trusted
          /\ DOMAIN x.uploads = Uploads(d, names) /\ DOMAIN x.rewraps = Rewraps(d, names)
      BY <1>1, <1>5 DEF IsPlan, Idle
    <2>2. CASE seen = <<>>
      <3>1. DOMAIN x.seen = {}
        BY <2>1, <2>2
      <3>2. JobSound(d)'
        BY <1>3, <1>5, <3>1 DEF JobSound, Left
      <3> QED BY <1>1, <1>2, <3>2, FloorQuiet
    <2>3. CASE job[d].at = "pulled" /\ names \in SUBSET job[d].sees /\ seen = job[d].seen
      <3>1. DOMAIN seen = job[d].sees /\ \A n \in DOMAIN seen : Past(seen[n], n) /\ Caught(d, n)
        BY <2>3 DEF FloorInv, JobSound
      <3>2. ASSUME NEW n \in names, n \notin Uploads(d, names), n \notin Rewraps(d, names), Seen(n) = seen[n]
            PROVE  Agrees(d, n, trusted)
        BY <2>1, <2>3, <3>2, NothingToDo
      <3>3. \A n \in DOMAIN seen : Past(seen[n], n)' /\ Caught(d, n)'
        <4>1. \A n \in DOMAIN seen : Past(seen[n], n)'
          BY <1>1, <3>1 DEF Past
        <4>2. job'[d].seen = job[d].seen /\ history'[d] = history[d]
          BY <1>1, <1>3, <2>1, <2>3
        <4>3. \A n \in DOMAIN seen : Caught(d, n)'
          BY <1>1, <3>1, <4>2 DEF Caught, Shared
        <4> QED BY <4>1, <4>3
      <3>4. \A n \in Left(d)' : Seen(n)' = seen[n] => Agrees(d, n, trusted)'
        <4>1. Left(d)' \subseteq names \ (Uploads(d, names) \cup Rewraps(d, names))
          BY <1>3, <2>1, <2>3 DEF Left
        <4>2. \A n : Seen(n)' = Seen(n) /\ (Agrees(d, n, trusted) => Agrees(d, n, trusted)')
          BY <1>1 DEF Seen, Agrees
        <4> QED BY <3>2, <4>1, <4>2
      <3>5. JobSound(d)'
        BY <1>1, <1>3, <1>5, <2>1, <3>3, <3>4 DEF JobSound
      <3> QED BY <1>1, <1>2, <3>5, FloorQuiet
    <2> QED BY <1>1, <2>2, <2>3
  <1> QED BY <1>4, <1>5


LEMMA FInit == SyncAssumption /\ Init => FloorInv
  <1> SUFFICES ASSUME SyncAssumption, Init PROVE FloorInv
    OBVIOUS
  <1>1. Absent.status = "none" /\ Unknown.status = "none"
    BY DEF Absent, Unknown
  <1>2. /\ \A n \in Names : /\ Active(remote[n]) = {} /\ Present(remote[n]) = {} /\ Deleted(n) = {}
                            /\ tombstone[n].through = 0 /\ tombstone[n].at = 0
        /\ \A d \in Devices, n \in Names :
             Active(history[d][n]) = {} /\ ledger[d][n].through = 0 /\ ledger[d][n].at = 0
        /\ \A d \in Devices : job[d].at = "idle"
    BY <1>1 DEF Init, Active, Present, Has, Deleted, Idle, NoTombstone, NoEntry
  <1>3. \A n \in Names : NewestCounts(n) /\ DeletionsCount(n)
    BY <1>2 DEF NewestCounts, DeletionsCount
  <1>4. \A d \in Devices, n \in Names : Older(ledger[d][n], tombstone[n]) /\ NoneLiveDeleted(d, n)
    BY <1>2 DEF Older, NoneLiveDeleted
  <1>5. \A d \in Devices : JobSound(d)
    BY <1>2 DEF JobSound
  <1> QED BY <1>3, <1>4, <1>5 DEF FloorInv

LEMMA FNext ==
  ASSUME SyncAssumption, OneFloor, BaseInv, FloorInv, Next
  PROVE  FloorInv'
  <1>1. ASSUME NEW d \in Devices, NEW n \in Names, RemoveSecret(d, n) \/ \E x \in Values : Add(d, n, x)
        PROVE  FloorInv'
    BY <1>1, FOwn
  <1>2. ASSUME NEW d \in Devices, NEW mode \in Commands, Fetch(d, mode)
        PROVE  FloorInv'
    BY <1>2, FFetch
  <1>3. ASSUME NEW d \in Devices, AbsorbFails(d) \/ CommitFails(d) \/ Stop(d)
        PROVE  FloorInv'
    BY <1>3, FEnds
  <1>4. ASSUME NEW d \in Devices, Push(d) \/ Publish(d)
        PROVE  FloorInv'
    BY <1>4, FPush
  <1>5. ASSUME NEW n \in Names, Delete(n) \/ Restore(n)
        PROVE  FloorInv'
    BY <1>5, FRemote
  <1>6. ASSUME NEW d \in Devices, Absorb(d) \/ AbsorbHalf(d)
        PROVE  FloorInv'
    BY <1>6, FAbsorb
  <1> QED BY <1>1, <1>2, <1>3, <1>4, <1>5, <1>6, FCommit, FTrust DEF Next

\* Where no deletion is of a lower version than one before it (OneFloor), what
\* is known of deletions and what a running sync knows of the control plane
\* holds in every reachable state.
THEOREM FloorInvariance ==
  ASSUME SyncAssumption, OneFloor
  PROVE  Spec => []SInv
  <1>1. Init => SInv
    BY BInit, FInit DEF SInv
  <1>2. SInv /\ [Next]_vars => SInv'
    <2>1. ASSUME SInv, UNCHANGED vars PROVE SInv'
      <3>1. BaseInv /\ FloorInv /\ UNCHANGED <<history, ledger, job, remote, tombstone, trusted>>
        BY <2>1 DEF SInv, vars
      <3>2. BaseInv'
        BY <3>1, BStutter
      <3>3. \A n \in Names : Passes(n) /\ Grows(n)
        BY <3>1, PassesAll
      <3>4. FloorInv'
        BY <3>1, <3>3, FloorStep
      <3> QED BY <3>2, <3>4 DEF SInv
    <2>2. ASSUME SInv, Next PROVE SInv'
      BY <2>2, BNext, FNext DEF SInv
    <2> QED BY <2>1, <2>2
  <1> QED BY <1>1, <1>2, PTL DEF Spec

-----------------------------------------------------------------------------
(* What is promised of a sync and of deletions.                            *)

\* A command that ends between its two halves leaves all else as it is.
LEMMA PulledEnds ==
  ASSUME Typed, Next, NEW d \in Devices, job[d].at = "pulled", job'[d] = Idle
  PROVE  UNCHANGED <<history, remote>>
  <1>1. job[d] # Idle
    BY DEF Idle
  <1>2. ASSUME NEW e \in Devices, NEW x, job' = [job EXCEPT ![e] = x]
        PROVE  e = d
    BY <1>1, <1>2 DEF Typed
  <1>3. CASE UNCHANGED job
    BY <1>1, <1>3
  <1>4. ASSUME NEW e \in Devices, NEW mode \in Commands, Fetch(e, mode)
        PROVE  UNCHANGED <<history, remote>>
    BY <1>4 DEF Fetch
  <1>5. ASSUME NEW e \in Devices, AbsorbFails(e) \/ Push(e) \/ Publish(e) \/ CommitFails(e) \/ Stop(e)
        PROVE  UNCHANGED <<history, remote>>
    BY <1>5 DEF AbsorbFails, Push, Publish, CommitFails, Stop
  <1>6. ASSUME NEW e \in Devices, Absorb(e) \/ AbsorbHalf(e) \/ Commit(e)
        PROVE  FALSE
    <2>1. PICK x : job' = [job EXCEPT ![e] = x]
      BY <1>6 DEF Absorb, AbsorbHalf, Commit
    <2>2. e = d
      BY <1>2, <2>1
    <2> QED BY <1>6, <2>2 DEF Absorb, AbsorbHalf, Commit
  <1>7. ASSUME NEW e \in Devices, (\E n \in Names : RemoveSecret(e, n) \/ \E x \in Values : Add(e, n, x)) \/ Trust(e)
        PROVE  UNCHANGED job
    BY <1>7 DEF RemoveSecret, Add, Trust
  <1>8. ASSUME NEW n \in Names, Delete(n) \/ Restore(n)
        PROVE  UNCHANGED job
    BY <1>8 DEF Delete, Restore
  <1> QED BY <1>3, <1>4, <1>5, <1>6, <1>7, <1>8 DEF Next

\* What the import caught up with is received while nobody touches it.
LEMMA CaughtReceived ==
  ASSUME NEW d \in Devices, NEW n \in DOMAIN job[d].seen, Caught(d, n), Seen(n) = job[d].seen[n]
  PROVE  Received(d, n)
  <1>1. job[d].seen[n].active = Active(remote[n])
    BY DEF Seen
  <1> QED BY <1>1 DEF Caught, Received, Shared

\* A batch leaves what it publishes or repairs the same on both sides.
LEMMA CommitAgrees ==
  ASSUME SyncAssumption, BaseInv, FloorInv, NEW d \in Devices, Commit(d), NEW n \in DOMAIN job[d].seen,
         Seen(n) = job[d].seen[n], NEW keys, keys = job[d].keys
  PROVE  Received(d, n)' /\ (n \in job[d].writes => Agrees(d, n, keys)')
  <1>1. /\ job[d].at = "planned" /\ Takes(d) /\ UNCHANGED <<history, ledger, tombstone, trusted>>
        /\ remote' = [m \in Names |-> Stored(d, m)]
    BY DEF Commit
  <1>2. PICK p, h, s : p = job[d] /\ h = history[d][n] /\ s = Stored(d, n)
    OBVIOUS
  <1>3. n \in Names
    <2>1. p \in Plans
      BY <1>1, <1>2, JobIs DEF BaseInv
    <2>2. CASE p.seen = <<>>
      <3>1. DOMAIN p.seen = {}
        BY <2>2
      <3> QED BY <1>2, <3>1
    <2>3. CASE p.seen \in ForSome(Sightings)
      BY <1>2, <2>3, ForSomeIs
    <2> QED BY <2>1, <2>2, <2>3 DEF Plans
  <1>4. remote'[n] = s /\ OneActive(h) /\ OneActive(remote[n])
    BY <1>1, <1>2, <1>3 DEF BaseInv, LocalSound, RemoteSound
  <1>5. \/ /\ n \in DOMAIN p.uploads /\ p.uploads[n] \in Active(h)
           /\ Uploaded(n, p.uploads[n], s, h[p.uploads[n]].env, p.keys)
        \/ /\ n \in DOMAIN p.rewraps /\ p.rewraps[n] \in Active(h)
           /\ h[p.rewraps[n]].env = remote[n][p.rewraps[n]].env
           /\ Rewrapped(n, p.rewraps[n], s, p.keys)
        \/ n \notin DOMAIN p.uploads \cup DOMAIN p.rewraps /\ s = remote[n]
    BY <1>1, <1>2, <1>3, StoredIs
  <1>6. ASSUME NEW u \in Active(h), Uploaded(n, u, s, h[u].env, p.keys)
        PROVE  Agrees(d, n, keys)'
    <2>1. Active(s) = {u} /\ s[u].env = h[u].env /\ s[u].keys = p.keys
      BY <1>6 DEF Uploaded
    <2>2. Active(h) = {u}
      BY <1>4, <1>6 DEF OneActive
    <2> QED BY <1>1, <1>2, <1>4, <2>1, <2>2 DEF Agrees
  <1>7. ASSUME NEW v \in Active(h), h[v].env = remote[n][v].env, Rewrapped(n, v, s, p.keys)
        PROVE  Agrees(d, n, keys)'
    <2>1. v \in Active(remote[n]) /\ s[v].env = h[v].env /\ p.keys \subseteq s[v].keys /\ s[v].status = "active"
      BY <1>7 DEF Rewrapped
    <2>2. Active(h) = {v} /\ Active(remote[n]) = {v}
      BY <1>4, <1>7, <2>1 DEF OneActive
    <2>3. \A w \in Versions \ {v} : s[w] = remote[n][w]
      BY <1>7 DEF Rewrapped
    <2>4. Active(s) = {v}
      BY <2>1, <2>2, <2>3 DEF Active
    <2> QED BY <1>1, <1>2, <1>4, <2>1, <2>2, <2>4 DEF Agrees
  <1>8. CASE n \notin DOMAIN p.uploads \cup DOMAIN p.rewraps /\ s = remote[n]
    <2>1. ASSUME n \in p.writes PROVE Agrees(d, n, keys)'
      <3>1. n \in Left(d)
        BY <1>2, <1>8, <2>1 DEF Left
      <3>2. Agrees(d, n, p.keys)
        BY <1>1, <1>2, <3>1 DEF FloorInv, JobSound
      <3> QED BY <1>1, <1>2, <1>4, <1>8, <3>2 DEF Agrees
    <2>2. Received(d, n)
      BY <1>1, CaughtReceived DEF FloorInv, JobSound
    <2>3. Received(d, n)'
      BY <1>1, <1>4, <1>8, <2>2 DEF Received
    <2> QED BY <1>2, <2>1, <2>3
  <1>9. Agrees(d, n, keys)' => Received(d, n)'
    BY DEF Agrees, Received
  <1> QED BY <1>5, <1>6, <1>7, <1>8, <1>9

\* When a sync succeeds, the device has received every secret that nobody else
\* published, deleted or restored meanwhile; what its user may write is the same
\* on both sides, for every device that was trusted.
THEOREM SyncsAlign ==
  ASSUME SyncAssumption, OneFloor
  PROVE  Spec => Aligned
  <1>1. ASSUME SInv, Next, NEW d \in Devices, NEW writes \in SUBSET Names, Succeeds(d, writes),
               NEW n \in DOMAIN job[d].seen, Seen(n) = job[d].seen[n],
               NEW keys, keys = IF job[d].at = "planned" THEN job[d].keys ELSE trusted
        PROVE  Received(d, n)' /\ (n \in writes => Agrees(d, n, keys)')
    <2>1. SyncAssumption /\ BaseInv /\ FloorInv /\ Typed
      BY <1>1 DEF SInv, BaseInv
    <2>2. CASE /\ job[d].at = "pulled" /\ job'[d] = Idle
               /\ writes \in Writable(job[d].sees) /\ ~Refused(d, writes) /\ Settled(d, writes)
      <3>1. UNCHANGED <<history, remote>>
        BY <1>1, <2>1, <2>2, PulledEnds
      <3>2. writes \in SUBSET job[d].sees
        BY <2>2 DEF Writable
      <3>3. /\ \A m \in Offered(d, writes) : ~Blocked(d, m, Published(d, m))
            /\ Uploads(d, writes) = {} /\ Rewraps(d, writes) = {}
        BY <2>2 DEF Refused, Settled
      <3>4. ASSUME n \in writes PROVE Agrees(d, n, keys)'
        <4>1. Agrees(d, n, trusted)
          BY <1>1, <2>1, <2>2, <3>2, <3>3, <3>4, NothingToDo
        <4>2. Agrees(d, n, keys)
          BY <1>1, <2>2, <4>1
        <4> QED BY <3>1, <4>2 DEF Agrees
      <3>5. Caught(d, n)
        BY <1>1, <2>1, <2>2 DEF FloorInv, JobSound
      <3>6. Received(d, n)
        BY <1>1, <3>5, CaughtReceived
      <3>7. Received(d, n)'
        BY <3>1, <3>6 DEF Received
      <3> QED BY <3>4, <3>7
    <2>3. CASE job[d].at = "planned" /\ writes = job[d].writes /\ Commit(d)
      <3>1. keys = job[d].keys
        BY <1>1, <2>3
      <3> QED BY <1>1, <2>1, <2>3, <3>1, CommitAgrees
    <2> QED BY <1>1, <2>2, <2>3 DEF Succeeds
  <1>2. ASSUME SInv, Next, NEW d \in Devices, NEW writes \in SUBSET Names, Succeeds(d, writes),
               NEW n \in DOMAIN job[d].seen, Seen(n) = job[d].seen[n]
        PROVE  /\ Received(d, n)'
               /\ n \in writes =>
                    /\ Active(history'[d][n]) = Active(remote'[n])
                    /\ \A v \in Active(remote'[n]) :
                         /\ history'[d][n][v].env = remote'[n][v].env
                         /\ (IF job[d].at = "planned" THEN job[d].keys ELSE trusted)
                               \subseteq remote'[n][v].keys
    <2>1. PICK keys : keys = IF job[d].at = "planned" THEN job[d].keys ELSE trusted
      OBVIOUS
    <2>2. Received(d, n)' /\ (n \in writes => Agrees(d, n, keys)')
      BY <1>1, <1>2, <2>1
    <2> QED BY <2>1, <2>2 DEF Agrees
  <1>3. SInv /\ [Next]_vars =>
          [\A d \in Devices, writes \in SUBSET Names : Succeeds(d, writes) =>
             \A n \in DOMAIN job[d].seen : Seen(n) = job[d].seen[n] =>
                 /\ Received(d, n)'
                 /\ n \in writes =>
                      /\ Active(history'[d][n]) = Active(remote'[n])
                      /\ \A v \in Active(remote'[n]) :
                           /\ history'[d][n][v].env = remote'[n][v].env
                           /\ (IF job[d].at = "planned" THEN job[d].keys ELSE trusted)
                                 \subseteq remote'[n][v].keys]_vars
    BY <1>2
  <1> QED BY <1>3, FloorInvariance, PTL DEF Spec, Aligned

\* A deleted secret is published again only by a device that has reconciled that
\* very deletion, in a version created since.
THEOREM RecreationsAreKnowing ==
  ASSUME SyncAssumption, OneFloor
  PROVE  Spec => RecreatedKnowingly
  <1>1. ASSUME SInv, Next, NEW n \in Names, NEW v \in Versions, ~Has(remote[n], v), Has(remote'[n], v),
               tombstone[n].through > 0, Newest(remote[n]) <= tombstone[n].through
        PROVE  \E d \in Devices : /\ job[d].at = "planned" /\ n \in DOMAIN job[d].uploads
                                  /\ v \in ledger[d][n].since
                                  /\ ledger[d][n].at = tombstone[n].at
    <2>1. SyncAssumption /\ BaseInv /\ FloorInv /\ remote'[n] # remote[n]
      BY <1>1 DEF SInv
    <2>2. ASSUME NEW d \in Devices, Commit(d)
          PROVE  /\ job[d].at = "planned" /\ n \in DOMAIN job[d].uploads
                 /\ v \in ledger[d][n].since
                 /\ ledger[d][n].at = tombstone[n].at
      <3>1. /\ job[d].at = "planned" /\ Takes(d) /\ remote' = [m \in Names |-> Stored(d, m)]
        BY <2>2 DEF Commit
      <3>2. PICK p, h, s : p = job[d] /\ h = history[d][n] /\ s = Stored(d, n)
        OBVIOUS
      <3>3. s = remote'[n] /\ PlanSound(d, p)
        BY <2>1, <3>1, <3>2 DEF BaseInv
      <3>4. \/ n \in DOMAIN p.uploads /\ Uploaded(n, p.uploads[n], s, h[p.uploads[n]].env, p.keys)
            \/ Rewrapped(n, p.rewraps[n], s, p.keys)
            \/ s = remote[n]
        BY <2>1, <3>1, <3>2, StoredIs
      <3>5. ~Rewrapped(n, p.rewraps[n], s, p.keys)
        BY <1>1, <3>3 DEF Rewrapped, Has, Active
      <3>6. n \in DOMAIN p.uploads /\ p.uploads[n] = v
        BY <1>1, <2>1, <3>3, <3>4, <3>5 DEF Uploaded
      <3>7. n \in DOMAIN p.recreates /\ p.recreates[n] = tombstone[n].through
        BY <1>1, <3>1, <3>2, <3>6 DEF Takes
      <3>8. ledger[d][n].through = tombstone[n].through /\ v \in ledger[d][n].since
        BY <3>3, <3>6, <3>7 DEF PlanSound
      <3>9. Older(ledger[d][n], tombstone[n]) /\ ledger[d][n].at \in Nat /\ tombstone[n].at \in Nat
            /\ tombstone[n].through \in Nat
        BY <2>1, Numbered DEF FloorInv
      <3>10. ledger[d][n].at = tombstone[n].at
        BY <1>1, <3>8, <3>9 DEF Older
      <3> QED BY <3>1, <3>2, <3>6, <3>8, <3>10
    <2>3. \E d \in Devices : Commit(d)
      <3>1. ASSUME NEW m \in Names, Delete(m) \/ Restore(m)
            PROVE  FALSE
        <4>1. remote \in [Names -> [Versions -> RemoteVersions]] /\ \A w \in Versions : remote[n][w].status # "deleted" \/ Has(remote[n], w)
          BY <2>1 DEF BaseInv, Typed, Has
        <4>2. CASE Delete(m)
          <5>1. PICK w \in Versions : remote' = [remote EXCEPT ![m][w].status = "deleted"] /\ Has(remote[m], w)
            <6>1. PICK w : /\ w \in Active(remote[m]) /\ remote' = [remote EXCEPT ![m][w].status = "deleted"]
              <7>1. Active(remote[m]) \in SUBSET Versions /\ Active(remote[m]) # {}
                BY <4>2 DEF Active, Delete
              <7>2. Active(remote[m]) \in SUBSET (0 .. MaxVersion) /\ MaxVersion \in Nat
                BY <7>1, VersionsAre
              <7>3. Max(Active(remote[m])) \in Active(remote[m])
                BY <7>1, <7>2, MaxIs
              <7> QED BY <4>2, <7>3 DEF Delete
            <6> QED BY <6>1 DEF Active, Has
          <5> QED BY <1>1, <4>1, <5>1 DEF Has
        <4>3. CASE Restore(m)
          <5>1. PICK w \in Versions : remote' = [remote EXCEPT ![m][w].status = "active"] /\ Has(remote[m], w)
            BY <4>3 DEF Restore, Has
          <5> QED BY <1>1, <4>1, <5>1 DEF Has
        <4> QED BY <3>1, <4>2, <4>3
      <3>2. ASSUME NEW e \in Devices, \/ \E m \in Names : RemoveSecret(e, m) \/ \E x \in Values : Add(e, m, x)
                                      \/ \E mode \in Commands : Fetch(e, mode)
                                      \/ AbsorbFails(e) \/ Absorb(e) \/ AbsorbHalf(e)
                                      \/ Push(e) \/ Publish(e) \/ CommitFails(e) \/ Stop(e) \/ Trust(e)
            PROVE  UNCHANGED remote
        BY <3>2 DEF RemoveSecret, Add, Fetch, AbsorbFails, Absorb, AbsorbHalf, Push, Publish, CommitFails, Stop, Trust
      <3> QED BY <1>1, <2>1, <3>1, <3>2 DEF Next
    <2> QED BY <2>2, <2>3
  <1>2. SInv /\ [Next]_vars =>
          [\A n \in Names, v \in Versions :
             (/\ ~Has(remote[n], v) /\ Has(remote'[n], v)
              /\ tombstone[n].through > 0 /\ Newest(remote[n]) <= tombstone[n].through) =>
                \E d \in Devices : /\ job[d].at = "planned" /\ n \in DOMAIN job[d].uploads
                                  /\ v \in ledger[d][n].since
                                  /\ ledger[d][n].at = tombstone[n].at]_vars
    BY <1>1
  <1> QED BY <1>2, FloorInvariance, PTL DEF Spec, RecreatedKnowingly

\* A deletion that a device has learnt of stays learnt, and none of its secrets
\* is live below it.
THEOREM DeletionsAlwaysHold ==
  ASSUME SyncAssumption, OneFloor
  PROVE  Spec => DeletionsHold
  <1>1. SInv => NothingLiveIsDeleted
    BY DEF SInv, FloorInv, NoneLiveDeleted, NothingLiveIsDeleted
  <1>2. ASSUME SInv, Next, NEW d \in Devices, NEW n \in Names
        PROVE  ledger'[d][n].through >= ledger[d][n].through
    <2>1. SyncAssumption /\ BaseInv /\ FloorInv /\ Typed /\ ledger[d][n].through \in Nat
      BY <1>2, Numbered DEF SInv, BaseInv
    <2>2. ASSUME NEW e \in Devices, NEW m \in Names, RemoveSecret(e, m) \/ \E x \in Values : Add(e, m, x)
          PROVE  ledger'[d][n].through = ledger[d][n].through
      <3>1. CASE RemoveSecret(e, m)
        BY <2>1, <3>1, RemoveIs
      <3>2. ASSUME NEW x \in Values, Add(e, m, x)
            PROVE  ledger'[d][n].through = ledger[d][n].through
        <4>1. PICK v : v = NextVersion(e, m)
          OBVIOUS
        <4>2. /\ \A f \in Devices, o \in Names : f # e \/ o # m => ledger'[f][o] = ledger[f][o]
              /\ ledger'[e][m].through = ledger[e][m].through
          BY <2>1, <3>2, <4>1, AddIs
        <4> QED BY <4>2
      <3> QED BY <2>2, <3>1, <3>2
    <2>3. ASSUME NEW e \in Devices, Absorb(e) \/ AbsorbHalf(e)
          PROVE  ledger'[d][n].through >= ledger[d][n].through
      <3>1. UNCHANGED ledger \/ (job[e].at = "fetched" /\ ledger' = [ledger EXCEPT ![e] = Merged(e)])
        BY <2>3 DEF Absorb, AbsorbHalf
      <3>2. CASE ledger'[d] = ledger[d]
        BY <2>1, <3>2
      <3>3. CASE job[d].at = "fetched" /\ ledger'[d] = Merged(d)
        <4>1. PICK new, entry : new = Import(d).secrets[n] /\ entry = Merged(d)[n]
          OBVIOUS
        <4>2. entry.through >= ledger[d][n].through
          BY <2>1, <3>3, <4>1, AbsorbedFloor
        <4> QED BY <3>3, <4>1, <4>2
      <3> QED BY <2>1, <3>1, <3>2, <3>3 DEF Typed
    <2>4. ASSUME NEW e \in Devices, \/ \E mode \in Commands : Fetch(e, mode)
                                    \/ AbsorbFails(e) \/ Push(e) \/ Publish(e) \/ Commit(e) \/ CommitFails(e)
                                    \/ Stop(e) \/ Trust(e)
          PROVE  UNCHANGED ledger
      BY <2>4 DEF Fetch, AbsorbFails, Push, Publish, Commit, CommitFails, Stop, Trust
    <2>5. ASSUME NEW m \in Names, Delete(m) \/ Restore(m)
          PROVE  UNCHANGED ledger
      BY <2>5 DEF Delete, Restore
    <2>6. UNCHANGED ledger => ledger'[d][n].through >= ledger[d][n].through
      BY <2>1
    <2>7. ledger'[d][n].through = ledger[d][n].through => ledger'[d][n].through >= ledger[d][n].through
      BY <2>1
    <2> QED BY <1>2, <2>2, <2>3, <2>4, <2>5, <2>6, <2>7 DEF Next
  <1>3. SInv /\ [Next]_vars =>
          [\A d \in Devices, n \in Names : ledger'[d][n].through >= ledger[d][n].through]_vars
    BY <1>2
  <1> QED BY <1>1, <1>3, FloorInvariance, TypesHold, PTL DEF Spec, DeletionsHold, FloorKept

=============================================================================
