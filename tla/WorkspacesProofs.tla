-------------------------- MODULE WorkspacesProofs --------------------------
(***************************************************************************)
(* What the names of workspaces keep, for any number of devices, names and *)
(* secrets, where no alias is the slug of a domain.                        *)
(***************************************************************************)
EXTENDS Workspaces, SequenceTheorems, TLAPS

-----------------------------------------------------------------------------
(* The control plane's names, of a control plane h.                        *)

\* Nobody gives a workspace an alias that is a domain's slug.
NoClash == "clash" \notin Environment

Aliases == Names \cup {None}
Org == [slug : Slugs, alias : Aliases, of : {<<>>} \cup (Devices \X Nat), content : SUBSET Keys]

NotASlug(h, alias) == \A o \in DOMAIN h : alias # h[o].slug

\* A domain is there from the start; the slug of any other is its own.
HostedIn(h) ==
    /\ h \in Seq(Org) /\ Len(h) <= MaxOrgs
    /\ \A o \in DOMAIN h :
         /\ h[o].slug = o \/ (o = 1 /\ h[o].slug \in Names /\ h[o].of = <<>>)
         /\ NotASlug(h, h[o].alias)

\* What the control plane may do: make a workspace, and anything but rename one.
Grown(h, g) ==
    /\ DOMAIN h \subseteq DOMAIN g
    /\ \A o \in DOMAIN h : g[o].slug = h[o].slug
    /\ \A o \in DOMAIN g \ DOMAIN h : g[o].slug = o

-----------------------------------------------------------------------------
(* The names of a vault.                                                   *)

Secret == [prefix : Slugs, org : Orgs \cup {None}]
Bindings == [Slugs -> Orgs \cup {None}]

VaultTyped(known, bound, kept) ==
    /\ known \in Seq(IdentityType)
    /\ bound \in Bindings
    /\ DOMAIN kept \subseteq Keys /\ kept \in [DOMAIN kept -> Secret]

\* An identity that is bound has the slug, and the binding, of its workspace.
IdentityHolds(h, w, bound) ==
    /\ w.alias \in Aliases /\ NotASlug(h, w.alias)
    /\ w.remote = None => w.slug \in Names
    /\ w.remote # None => /\ w.remote \in DOMAIN h
                          /\ w.slug = h[w.remote].slug
                          /\ bound[w.slug] = w.remote

Shares(w, name) == name # None /\ name \in {w.slug, w.alias}

\* Two identities have nothing in common.
Apart(w, x) ==
    /\ ~Shares(w, x.slug) /\ ~Shares(w, x.alias)
    /\ w.remote # None => w.remote # x.remote

SlugKnown(known, p) == \E i \in DOMAIN known : known[i].slug = p

\* A binding is of the workspace with that slug, and an identity has it.
BindingHolds(h, known, bound, p) ==
    bound[p] # None => bound[p] \in DOMAIN h /\ p = h[bound[p]].slug /\ SlugKnown(known, p)

SecretHolds(known, bound, s) == SlugKnown(known, s.prefix) /\ s.org \in {None, bound[s.prefix]}

IdentitiesHold(h, known, bound) ==
    /\ \A i \in DOMAIN known : IdentityHolds(h, known[i], bound)
    /\ \A i, j \in DOMAIN known : i # j => Apart(known[i], known[j])

VaultIn(h, known, bound, kept) ==
    /\ VaultTyped(known, bound, kept)
    /\ IdentitiesHold(h, known, bound)
    /\ \A p \in Slugs : BindingHolds(h, known, bound, p)
    /\ \A k \in DOMAIN kept : SecretHolds(known, bound, kept[k])

-----------------------------------------------------------------------------
(* What a command j that is half done still finds.                         *)

NamesSoon(h, known, j) ==
    /\ j = [at |-> "alias", local |-> j.local, alias |-> j.alias]
    /\ j.local \subseteq DOMAIN known /\ \A i, x \in j.local : i = x
    /\ j.alias \in Names /\ NotASlug(h, j.alias)
    /\ Users(known, j.local, {j.alias}) = {}

RenamesSoon(h, known, j) ==
    /\ j = [at |-> "rename", id |-> j.id, org |-> j.org, alias |-> j.alias]
    /\ j.id \in DOMAIN known /\ known[j.id].remote = None
    /\ j.org \in DOMAIN h /\ h[j.org].slug = j.org
    /\ j.alias \in Aliases /\ NotASlug(h, j.alias)

AdoptsSoon(h, known, j) ==
    /\ j = [at |-> "adopt", org |-> j.org, alias |-> j.alias]
    /\ j.org \in DOMAIN h /\ j.alias \in Aliases /\ NotASlug(h, j.alias)
    /\ LocalWorkspaceByRemoteID(known, j.org) # {}
    /\ Users(known, LocalWorkspaceByRemoteID(known, j.org), {j.alias}) = {}

JobIn(h, known, j) ==
    /\ j.at \in {"idle", "alias", "rename", "adopt"}
    /\ j.at = "idle" => j = Idle
    /\ j.at = "alias" => NamesSoon(h, known, j)
    /\ j.at = "rename" => RenamesSoon(h, known, j)
    /\ j.at = "adopt" => AdoptsSoon(h, known, j)

-----------------------------------------------------------------------------
(* The invariant.                                                          *)

DeviceIn(h, known, bound, kept, j) ==
    /\ VaultIn(h, known, bound, kept)
    /\ Len(known) <= MaxIds
    /\ JobIn(h, known, j)

WInv ==
    /\ DOMAIN ids = Devices /\ DOMAIN bindings = Devices /\ DOMAIN secrets = Devices /\ DOMAIN job = Devices
    /\ HostedIn(hosted)
    /\ \A d \in Devices : DeviceIn(hosted, ids[d], bindings[d], secrets[d], job[d])

-----------------------------------------------------------------------------
(* Names, sequences and records.                                           *)

LEMMA NamesApart ==
  /\ None \notin Slugs /\ None \notin Names /\ None \notin Orgs
  /\ \A n \in Names, o \in Orgs : n # o
  /\ Names \subseteq Slugs /\ Orgs \subseteq Slugs /\ Orgs \subseteq Nat
  /\ Slugs = Names \cup Orgs /\ 1 \in Orgs
  BY WorkspacesAssumption DEF WorkspacesAssumption, None, Slugs, Orgs

LEMMA Elements ==
  ASSUME NEW S, NEW s \in Seq(S)
  PROVE  /\ Len(s) \in Nat /\ DOMAIN s = 1 .. Len(s)
         /\ \A i \in DOMAIN s : s[i] \in S
  BY LenProperties, ElementOfSeq

LEMMA SameLength ==
  ASSUME NEW S, NEW T, NEW s \in Seq(S), NEW f \in [DOMAIN s -> T]
  PROVE  f \in Seq(T) /\ Len(f) = Len(s)
<1>1. Len(s) \in Nat /\ DOMAIN s = 1 .. Len(s)
  BY LenProperties
<1>2. f \in Seq(T)
  BY <1>1, SeqDef
<1>3. DOMAIN f = 1 .. Len(f) /\ Len(f) \in Nat
  BY <1>2, LenProperties
<1>4. 1 .. Len(f) = 1 .. Len(s)
  BY <1>1, <1>3
<1> QED
  BY <1>1, <1>2, <1>3, <1>4

LEMMA Longer ==
  ASSUME NEW S, NEW s \in Seq(S), NEW e \in S
  PROVE  /\ Append(s, e) \in Seq(S) /\ Len(Append(s, e)) = Len(s) + 1
         /\ DOMAIN Append(s, e) = DOMAIN s \cup {Len(s) + 1} /\ Len(s) + 1 \notin DOMAIN s
         /\ \A i \in DOMAIN s : Append(s, e)[i] = s[i]
         /\ Append(s, e)[Len(s) + 1] = e
<1>1. Len(s) \in Nat /\ DOMAIN s = 1 .. Len(s)
  BY Elements
<1>2. /\ Append(s, e) \in Seq(S) /\ Len(Append(s, e)) = Len(s) + 1
      /\ \A i \in 1 .. Len(s) : Append(s, e)[i] = s[i]
      /\ Append(s, e)[Len(s) + 1] = e
  BY AppendProperties
<1>3. DOMAIN Append(s, e) = 1 .. Len(s) + 1
  BY <1>2, Elements
<1> QED
  BY <1>1, <1>2, <1>3

LEMMA Hosts ==
  ASSUME NEW h, HostedIn(h)
  PROVE  /\ Len(h) \in Nat /\ DOMAIN h = 1 .. Len(h) /\ DOMAIN h \subseteq Orgs
         /\ \A o \in DOMAIN h : h[o] \in Org
         /\ \A o \in DOMAIN h : h[o].slug \in Slugs /\ h[o].alias \in Aliases /\ h[o].content \subseteq Keys
         /\ \A o, p \in DOMAIN h : h[o].slug = h[p].slug => o = p
<1>1. h \in Seq(Org) /\ Len(h) <= MaxOrgs
  BY DEF HostedIn
<1>2. Len(h) \in Nat /\ DOMAIN h = 1 .. Len(h) /\ \A o \in DOMAIN h : h[o] \in Org
  BY <1>1, Elements
<1>3. DOMAIN h \subseteq Orgs
  BY <1>1, <1>2, WorkspacesAssumption DEF Orgs, WorkspacesAssumption
<1>4. ASSUME NEW o \in DOMAIN h
      PROVE  h[o].slug \in Slugs /\ h[o].alias \in Aliases /\ h[o].content \subseteq Keys
  BY <1>2 DEF Org
<1>5. ASSUME NEW o \in DOMAIN h, NEW p \in DOMAIN h, h[o].slug = h[p].slug
      PROVE  o = p
  <2>1. o \in Orgs /\ p \in Orgs
    BY <1>3
  <2>2. h[o].slug = o \/ (o = 1 /\ h[o].slug \in Names)
    BY DEF HostedIn
  <2>3. h[p].slug = p \/ (p = 1 /\ h[p].slug \in Names)
    BY DEF HostedIn
  <2> QED
    BY <1>5, <2>1, <2>2, <2>3, NamesApart
<1> QED
  BY <1>2, <1>3, <1>4, <1>5

\* What the invariant of a vault says of an identity, a prefix and a secret.
LEMMA Vaults ==
  ASSUME NEW h, HostedIn(h), NEW known, NEW bound, NEW kept, VaultIn(h, known, bound, kept)
  PROVE  /\ known \in Seq(IdentityType) /\ Len(known) \in Nat /\ DOMAIN known = 1 .. Len(known)
         /\ \A i \in DOMAIN known : known[i] \in IdentityType
         /\ \A i \in DOMAIN known : /\ known[i].slug \in Slugs /\ known[i].remote \in Orgs \cup {None}
                                    /\ known[i].alias \in Aliases /\ NotASlug(h, known[i].alias)
                                    /\ IdentityHolds(h, known[i], bound)
         /\ bound \in Bindings /\ \A p \in Slugs : bound[p] \in Orgs \cup {None}
         /\ DOMAIN kept \subseteq Keys /\ \A k \in DOMAIN kept : kept[k] \in Secret /\ kept[k].prefix \in Slugs
<1>1. known \in Seq(IdentityType) /\ bound \in Bindings
      /\ DOMAIN kept \subseteq Keys /\ kept \in [DOMAIN kept -> Secret]
  BY DEF VaultIn, IdentitiesHold, VaultTyped
<1>2. Len(known) \in Nat /\ DOMAIN known = 1 .. Len(known)
      /\ \A i \in DOMAIN known : known[i] \in IdentityType
  BY <1>1, Elements
<1>3. ASSUME NEW i \in DOMAIN known
      PROVE  /\ known[i].slug \in Slugs /\ known[i].remote \in Orgs \cup {None}
             /\ known[i].alias \in Aliases /\ NotASlug(h, known[i].alias)
             /\ IdentityHolds(h, known[i], bound)
  BY <1>2 DEF IdentityType, VaultIn, IdentitiesHold, IdentityHolds
<1>4. \A k \in DOMAIN kept : kept[k] \in Secret /\ kept[k].prefix \in Slugs
  BY <1>1 DEF Secret
<1> QED
  BY <1>1, <1>2, <1>3, <1>4 DEF Bindings

\* A load finds an identity for every prefix.
LEMMA NothingMissing ==
  ASSUME NEW h, HostedIn(h), NEW known, NEW bound, NEW kept, VaultIn(h, known, bound, kept)
  PROVE  Migrated(known, bound, kept) = known
<1> DEFINE prefixes == {kept[k].prefix : k \in DOMAIN kept} \cup {p \in Slugs : bound[p] # None}
           missing == {p \in prefixes : LocalWorkspace(known, p) = {}}
<1>1. ASSUME NEW p \in prefixes
      PROVE  SlugKnown(known, p)
  BY DEF VaultIn, IdentitiesHold, SecretHolds, BindingHolds
<1>2. ASSUME NEW p \in prefixes
      PROVE  LocalWorkspace(known, p) # {}
  BY <1>1 DEF SlugKnown, LocalWorkspace
<1>3. missing = {}
  BY <1>2
<1> QED
  BY <1>3 DEF Migrated

\* No alias is a hosted slug, so that such a slug names the identity that has it.
LEMMA NamedBySlug ==
  ASSUME NEW h, HostedIn(h), NEW known, NEW bound, NEW kept, VaultIn(h, known, bound, kept),
         NEW o \in DOMAIN h
  PROVE  /\ LocalWorkspace(known, h[o].slug) = {i \in DOMAIN known : known[i].slug = h[o].slug}
         /\ \A i \in DOMAIN known : known[i].remote = o => known[i].slug = h[o].slug
         /\ \A i \in DOMAIN known : known[i].remote = o => bound[h[o].slug] = o
<1>1. \A i \in DOMAIN known : known[i].alias # h[o].slug
  BY Vaults DEF NotASlug
<1>2. o # None
  BY Hosts, NamesApart
<1>3. \A i \in DOMAIN known : known[i].remote = o => known[i].slug = h[o].slug /\ bound[h[o].slug] = o
  BY <1>2, Vaults DEF IdentityHolds
<1> QED
  BY <1>1, <1>3 DEF LocalWorkspace

\* A slug or an alias names one identity at most.
LEMMA OneLocal ==
  ASSUME NEW h, HostedIn(h), NEW known, NEW bound, NEW kept, VaultIn(h, known, bound, kept),
         NEW v \in Slugs, NEW i \in LocalWorkspace(known, v), NEW j \in LocalWorkspace(known, v)
  PROVE  i = j
<1>1. i \in DOMAIN known /\ j \in DOMAIN known
      /\ v \in {known[i].slug, known[i].alias} /\ v \in {known[j].slug, known[j].alias}
  BY DEF LocalWorkspace
<1>2. i # j => ~Shares(known[i], known[j].slug) /\ ~Shares(known[i], known[j].alias)
  BY <1>1 DEF VaultIn, IdentitiesHold, Apart
<1>3. v # None
  BY NamesApart
<1> QED
  BY <1>1, <1>2, <1>3 DEF Shares

\* Two identities with the same slug, or the same workspace, are one.
LEMMA OneOwner ==
  ASSUME NEW h, HostedIn(h), NEW known, NEW bound, NEW kept, VaultIn(h, known, bound, kept),
         NEW i \in DOMAIN known, NEW j \in DOMAIN known,
         known[i].slug = known[j].slug \/ (known[i].remote # None /\ known[i].remote = known[j].remote)
  PROVE  i = j
<1>1. i # j => Apart(known[i], known[j])
  BY DEF VaultIn, IdentitiesHold
<1>2. known[j].slug # None
  BY Vaults, NamesApart
<1> QED
  BY <1>1, <1>2 DEF Apart, Shares

-----------------------------------------------------------------------------
(* An alias changes.                                                       *)

LEMMA NotUsed ==
  ASSUME NEW known, NEW except, NEW names, Users(known, except, names) = {},
         NEW i \in DOMAIN known \ except, NEW n \in names
  PROVE  ~Shares(known[i], n)
<1>1. (names \ {None}) \cap {known[i].slug, known[i].alias} = {}
  BY DEF Users
<1> QED
  BY <1>1 DEF Shares

LEMMA Realiased ==
  ASSUME NEW h, HostedIn(h), NEW known, NEW bound, NEW kept, VaultIn(h, known, bound, kept),
         NEW i \in DOMAIN known, NEW a \in Aliases, NotASlug(h, a), Users(known, {i}, {a}) = {},
         NEW next \in Seq(IdentityType), DOMAIN next = DOMAIN known,
         next[i] = Identity(known[i].slug, a, known[i].remote),
         \A j \in DOMAIN known \ {i} : next[j] = known[j]
  PROVE  VaultIn(h, next, bound, kept)
<1>1. \A j \in DOMAIN known : next[j].slug = known[j].slug /\ next[j].remote = known[j].remote
  BY DEF Identity
<1>2. next[i].alias = a /\ \A j \in DOMAIN known \ {i} : next[j].alias = known[j].alias
  BY DEF Identity
<1>3. ASSUME NEW j \in DOMAIN next
      PROVE  IdentityHolds(h, next[j], bound)
  <2>1. IdentityHolds(h, known[j], bound)
    BY DEF VaultIn, IdentitiesHold
  <2> QED
    BY <1>1, <1>2, <2>1 DEF IdentityHolds
<1>4. ASSUME NEW j \in DOMAIN next, NEW k \in DOMAIN next, j # k
      PROVE  Apart(next[j], next[k])
  <2>1. Apart(known[j], known[k]) /\ Apart(known[k], known[j])
    BY <1>4 DEF VaultIn, IdentitiesHold
  <2>2. \A x \in DOMAIN known \ {i} : ~Shares(known[x], a)
    BY NotUsed
  <2>3. ~Shares(next[j], next[k].slug)
    <3>1. CASE j = i
      <4>1. a # known[k].slug \/ known[k].slug = None
        BY <1>4, <2>2, <3>1 DEF Shares
      <4> QED
        BY <1>1, <1>2, <2>1, <3>1, <4>1 DEF Apart, Shares
    <3>2. CASE j # i
      BY <1>1, <1>2, <2>1, <3>2 DEF Apart, Shares
    <3> QED
      BY <3>1, <3>2
  <2>4. ~Shares(next[j], next[k].alias)
    <3>1. CASE k = i
      <4>1. ~Shares(known[j], a)
        BY <1>4, <2>2, <3>1
      <4> QED
        BY <1>1, <1>2, <1>4, <3>1, <4>1 DEF Shares
    <3>2. CASE k # i /\ j = i
      <4>1. a # known[k].alias \/ a = None
        BY <2>2, <3>2 DEF Shares
      <4> QED
        BY <1>1, <1>2, <2>1, <3>2, <4>1 DEF Apart, Shares
    <3>3. CASE k # i /\ j # i
      BY <1>1, <1>2, <2>1, <3>3 DEF Apart, Shares
    <3> QED
      BY <3>1, <3>2, <3>3
  <2> QED
    BY <1>1, <2>1, <2>3, <2>4 DEF Apart
<1>5. \A p : SlugKnown(known, p) => SlugKnown(next, p)
  BY <1>1 DEF SlugKnown
<1>6. \A p \in Slugs : BindingHolds(h, next, bound, p)
  BY <1>5 DEF VaultIn, IdentitiesHold, BindingHolds
<1>7. \A k \in DOMAIN kept : SecretHolds(next, bound, kept[k])
  BY <1>5 DEF VaultIn, IdentitiesHold, SecretHolds
<1>8. VaultTyped(next, bound, kept)
  BY DEF VaultIn, IdentitiesHold, VaultTyped
<1> QED
  BY <1>3, <1>4, <1>6, <1>7, <1>8 DEF VaultIn, IdentitiesHold

\* The alias of one identity is set.
LEMMA AliasSet ==
  ASSUME NEW h, HostedIn(h), NEW known, NEW bound, NEW kept, VaultIn(h, known, bound, kept),
         NEW i \in DOMAIN known, NEW a \in Names, NotASlug(h, a), Users(known, {i}, {a}) = {}
  PROVE  VaultIn(h, [known EXCEPT ![i].alias = a], bound, kept)
<1> DEFINE w == Identity(known[i].slug, a, known[i].remote)
           next == [known EXCEPT ![i].alias = a]
<1>1. known \in Seq(IdentityType) /\ i \in 1 .. Len(known) /\ DOMAIN known = 1 .. Len(known)
      /\ known[i] \in IdentityType
  BY Vaults
<1>2. w \in IdentityType /\ a \in Aliases
  BY <1>1, NamesApart DEF Identity, IdentityType, Aliases
<1>3. [known[i] EXCEPT !.alias = a] = w
  BY <1>1 DEF Identity, IdentityType
<1>4. next = [known EXCEPT ![i] = w]
  BY <1>1, <1>3
<1>5. next \in Seq(IdentityType) /\ Len(next) = Len(known)
      /\ \A j \in 1 .. Len(known) : next[j] = IF j = i THEN w ELSE known[j]
  BY <1>1, <1>2, <1>4, ExceptSeq
<1>6. DOMAIN next = DOMAIN known
  BY <1>4
<1>7. next[i] = w /\ \A j \in DOMAIN known \ {i} : next[j] = known[j]
  BY <1>1, <1>5
<1> HIDE DEF next
<1>8. VaultIn(h, next, bound, kept)
  BY <1>2, <1>5, <1>6, <1>7, Realiased
<1> QED
  BY <1>8 DEF next

\* A workspace that is registered gets the control plane's alias.
LEMMA RegisteredAgain ==
  ASSUME NEW h, HostedIn(h), NEW known, NEW bound, NEW kept, VaultIn(h, known, bound, kept),
         NEW o \in DOMAIN h, NEW a \in Aliases, NotASlug(h, a),
         LocalWorkspaceByRemoteID(known, o) # {},
         Users(known, LocalWorkspaceByRemoteID(known, o), {a}) = {},
         NEW next, next = [i \in DOMAIN known |-> IF known[i].remote = o THEN [known[i] EXCEPT !.alias = a]
                                                  ELSE known[i]]
  PROVE  VaultIn(h, next, bound, kept)
<1>1. PICK i \in DOMAIN known : known[i].remote = o
  BY DEF LocalWorkspaceByRemoteID
<1>2. o # None
  BY Hosts, NamesApart
<1>3. \A j \in DOMAIN known : known[j].remote = o => j = i
  BY <1>1, <1>2, OneOwner
<1>4. LocalWorkspaceByRemoteID(known, o) = {i}
  BY <1>1, <1>3 DEF LocalWorkspaceByRemoteID
<1>5. known \in Seq(IdentityType) /\ known[i] \in IdentityType
      /\ \A j \in DOMAIN known : known[j] \in IdentityType
  BY Vaults
<1>6. [known[i] EXCEPT !.alias = a] = Identity(known[i].slug, a, known[i].remote)
  BY <1>5 DEF Identity, IdentityType
<1>7. Identity(known[i].slug, a, known[i].remote) \in IdentityType
  BY <1>5, NamesApart DEF Identity, IdentityType, Aliases
<1>8. next[i] = Identity(known[i].slug, a, known[i].remote) /\ DOMAIN next = DOMAIN known
  BY <1>1, <1>6
<1>9. \A j \in DOMAIN known \ {i} : next[j] = known[j]
  BY <1>3
<1>10. next \in [DOMAIN known -> IdentityType]
  <2>1. \A j \in DOMAIN known : next[j] \in IdentityType
    BY <1>5, <1>7, <1>8, <1>9
  <2> QED
    BY <2>1
<1>11. next \in Seq(IdentityType)
  BY <1>5, <1>10, SameLength
<1> QED
  BY <1>4, <1>8, <1>9, <1>11, Realiased

-----------------------------------------------------------------------------
(* A prefix is bound, with or without an import.                           *)

SlugsStay(known, next) == \A i \in DOMAIN known : i \in DOMAIN next /\ next[i].slug = known[i].slug

\* Of the secrets held some are as s says, and the others as they were.
Moves(kept, held, s) ==
    /\ DOMAIN held \subseteq Keys /\ held = [k \in DOMAIN held |-> held[k]]
    /\ \A k \in DOMAIN held : held[k] = s \/ (k \in DOMAIN kept /\ held[k] = kept[k])

\* The identities have been seen to; the bindings and the secrets follow.
LEMMA BindsKeep ==
  ASSUME NEW h, HostedIn(h), NEW known, NEW bound, NEW kept, VaultIn(h, known, bound, kept),
         NEW o \in DOMAIN h, bound[h[o].slug] \in {None, o},
         NEW next \in Seq(IdentityType), NEW more, NEW held,
         more = [bound EXCEPT ![h[o].slug] = o],
         IdentitiesHold(h, next, more), SlugsStay(known, next), SlugKnown(next, h[o].slug),
         Moves(kept, held, [prefix |-> h[o].slug, org |-> o])
  PROVE  VaultIn(h, next, more, held)
<1> DEFINE p == h[o].slug
<1>1. p \in Slugs /\ o \in Orgs
  BY Hosts
<1>2. bound \in Bindings /\ \A k \in DOMAIN kept : kept[k] \in Secret /\ kept[k].prefix \in Slugs
  BY Vaults
<1>3. /\ more \in Bindings /\ more[p] = o
      /\ \A q \in Slugs \ {p} : more[q] = bound[q]
  BY <1>1, <1>2 DEF Bindings
<1>4. \A q : SlugKnown(known, q) => SlugKnown(next, q)
  BY DEF SlugKnown, SlugsStay
<1>5. ASSUME NEW q \in Slugs
      PROVE  BindingHolds(h, next, more, q)
  <2>1. CASE q = p
    BY <1>3, <2>1 DEF BindingHolds
  <2>2. CASE q # p
    <3>1. BindingHolds(h, known, bound, q)
      BY DEF VaultIn, IdentitiesHold
    <3> QED
      BY <1>3, <1>4, <2>2, <3>1 DEF BindingHolds
  <2> QED
    BY <2>1, <2>2
<1>6. ASSUME NEW k \in DOMAIN held
      PROVE  SecretHolds(next, more, held[k]) /\ held[k] \in Secret
  <2>1. CASE held[k] = [prefix |-> p, org |-> o]
    BY <1>1, <1>3, <2>1 DEF SecretHolds, Secret
  <2>2. CASE k \in DOMAIN kept /\ held[k] = kept[k]
    <3>1. SecretHolds(known, bound, kept[k]) /\ kept[k].prefix \in Slugs
      BY <1>2, <2>2 DEF VaultIn, IdentitiesHold
    <3>2. SlugKnown(next, kept[k].prefix)
      BY <1>4, <3>1 DEF SecretHolds
    <3>3. kept[k].org \in {None, more[kept[k].prefix]}
      BY <1>3, <3>1 DEF SecretHolds
    <3> QED
      BY <1>2, <2>2, <3>2, <3>3 DEF SecretHolds
  <2> QED
    BY <2>1, <2>2 DEF Moves
<1>7. held \in [DOMAIN held -> Secret] /\ DOMAIN held \subseteq Keys
  BY <1>6 DEF Moves
<1>8. VaultTyped(next, more, held)
  BY <1>3, <1>7 DEF VaultTyped
<1> QED
  BY <1>5, <1>6, <1>8 DEF VaultIn, IdentitiesHold

BoundTo(bound, p, o) == [bound EXCEPT ![p] = o]

\* Only the identity with the slug p changes, and is bound to o.
Rebound(known, next, p, o) ==
    \A i \in DOMAIN known : /\ next[i].slug = known[i].slug /\ next[i].alias = known[i].alias
                            /\ next[i].remote = IF known[i].slug = p THEN o ELSE known[i].remote

\* The identity with the slug of a hosted workspace is bound to it, if it is to no other.
LEMMA IdentitiesBound ==
  ASSUME NEW h, HostedIn(h), NEW known, NEW bound, NEW kept, VaultIn(h, known, bound, kept),
         NEW o \in DOMAIN h, bound[h[o].slug] \in {None, o}
  PROVE  LET next == BoundIds(known, h[o].slug, o) IN
         /\ next \in Seq(IdentityType) /\ Len(next) = Len(known) /\ DOMAIN next = DOMAIN known
         /\ Rebound(known, next, h[o].slug, o)
         /\ IdentitiesHold(h, next, BoundTo(bound, h[o].slug, o))
<1> DEFINE p == h[o].slug
           next == BoundIds(known, p, o)
           more == BoundTo(bound, p, o)
<1>1. /\ p \in Slugs /\ o \in Orgs /\ o # None
      /\ \A x \in DOMAIN h : h[x].slug = p => x = o
  BY Hosts, NamesApart
<1>2. LocalWorkspace(known, p) = {i \in DOMAIN known : known[i].slug = p}
  BY NamedBySlug
<1>3. known \in Seq(IdentityType) /\ (\A i \in DOMAIN known : known[i] \in IdentityType)
      /\ (\A i \in DOMAIN known : known[i].slug \in Slugs /\ IdentityHolds(h, known[i], bound))
      /\ bound \in Bindings
  BY Vaults
<1>4. DOMAIN next = DOMAIN known
      /\ \A i \in DOMAIN known : next[i] = IF known[i].slug = p THEN [known[i] EXCEPT !.remote = o] ELSE known[i]
  BY <1>2 DEF BoundIds
<1> HIDE DEF next
<1>5. \A i \in DOMAIN known : /\ next[i].slug = known[i].slug /\ next[i].alias = known[i].alias
                              /\ next[i].remote = IF known[i].slug = p THEN o ELSE known[i].remote
                              /\ next[i] \in IdentityType
  BY <1>1, <1>3, <1>4 DEF IdentityType
<1>6. next \in Seq(IdentityType) /\ Len(next) = Len(known)
  <2>1. next = [i \in DOMAIN known |-> IF i \in LocalWorkspace(known, p) THEN [known[i] EXCEPT !.remote = o] ELSE known[i]]
    BY DEF next, BoundIds
  <2>2. next \in [DOMAIN known -> IdentityType]
    BY <1>4, <1>5, <2>1
  <2> QED
    BY <1>3, <2>2, SameLength
<1>7. more[p] = o /\ \A q \in Slugs \ {p} : more[q] = bound[q]
  BY <1>1, <1>3 DEF Bindings, BoundTo
<1> HIDE DEF more
<1>8. ASSUME NEW i \in DOMAIN next
      PROVE  IdentityHolds(h, next[i], more)
  <2>1. i \in DOMAIN known /\ IdentityHolds(h, known[i], bound) /\ known[i].slug \in Slugs
    BY <1>3, <1>4
  <2>2. CASE known[i].slug = p
    BY <1>1, <1>5, <1>7, <2>1, <2>2 DEF IdentityHolds
  <2>3. CASE known[i].slug # p
    BY <1>5, <1>7, <2>1, <2>3 DEF IdentityHolds
  <2> QED
    BY <2>2, <2>3
<1>9. ASSUME NEW i \in DOMAIN next, NEW j \in DOMAIN next, i # j
      PROVE  Apart(next[i], next[j])
  <2>1. i \in DOMAIN known /\ j \in DOMAIN known /\ Apart(known[i], known[j])
    BY <1>4, <1>9 DEF VaultIn, IdentitiesHold
  <2>2. ~(known[i].slug = p /\ known[j].slug = p)
    BY <1>1, <1>9, <2>1, OneOwner
  <2>3. \A x \in DOMAIN known : known[x].remote = o => known[x].slug = p
    BY NamedBySlug
  <2>4. next[i].remote # None => next[i].remote # next[j].remote
    BY <1>5, <2>1, <2>2, <2>3 DEF Apart
  <2> QED
    BY <1>5, <2>1, <2>4 DEF Apart, Shares
<1> QED
  BY <1>4, <1>5, <1>6, <1>8, <1>9 DEF IdentitiesHold, Rebound, next, more

\* BindWorkspacePrefix.
LEMMA BindKeeps ==
  ASSUME NEW h, HostedIn(h), NEW known, NEW bound, NEW kept, VaultIn(h, known, bound, kept),
         NEW o \in DOMAIN h, bound[h[o].slug] \in {None, o}, SlugKnown(known, h[o].slug),
         NEW next, next = BoundIds(known, h[o].slug, o),
         NEW more, more = [bound EXCEPT ![h[o].slug] = o],
         NEW held, held = Bound(kept, h[o].slug, o)
  PROVE  VaultIn(h, next, more, held)
<1>0. more = BoundTo(bound, h[o].slug, o)
  BY DEF BoundTo
<1>1. next \in Seq(IdentityType) /\ DOMAIN next = DOMAIN known /\ IdentitiesHold(h, next, more)
      /\ Rebound(known, next, h[o].slug, o)
  <2>1. IdentitiesHold(h, BoundIds(known, h[o].slug, o), BoundTo(bound, h[o].slug, o))
    BY IdentitiesBound
  <2>2. Rebound(known, BoundIds(known, h[o].slug, o), h[o].slug, o)
    BY IdentitiesBound
  <2>3. BoundIds(known, h[o].slug, o) \in Seq(IdentityType)
    BY IdentitiesBound
  <2>4. DOMAIN BoundIds(known, h[o].slug, o) = DOMAIN known
    BY IdentitiesBound
  <2> QED
    BY <1>0, <2>1, <2>2, <2>3, <2>4
<1>2. SlugKnown(next, h[o].slug) /\ SlugsStay(known, next)
  BY <1>1 DEF SlugKnown, SlugsStay, Rebound
<1>3. Moves(kept, held, [prefix |-> h[o].slug, org |-> o])
  BY Vaults DEF Bound, Moves
<1> QED
  BY <1>1, <1>2, <1>3, BindsKeep

-----------------------------------------------------------------------------
(* An identity is added.                                                   *)

\* No identity has anything in common with w.
Unlike(known, w) ==
    \A i \in DOMAIN known : /\ ~Shares(known[i], w.slug) /\ ~Shares(known[i], w.alias)
                            /\ w.remote # None => known[i].remote # w.remote

AddedTo(known, next, w) ==
    /\ next \in Seq(IdentityType)
    /\ DOMAIN next = DOMAIN known \cup {Len(known) + 1} /\ next[Len(known) + 1] = w
    /\ \A i \in DOMAIN known : next[i] = known[i]

Separate(known) == \A i, j \in DOMAIN known : i # j => Apart(known[i], known[j])

LEMMA AddedApart ==
  ASSUME NEW h, HostedIn(h), NEW known, NEW bound, NEW kept, VaultIn(h, known, bound, kept),
         NEW w \in IdentityType, Unlike(known, w)
  PROVE  /\ AddedTo(known, Append(known, w), w)
         /\ Separate(Append(known, w))
<1> DEFINE next == Append(known, w)
           n == Len(known) + 1
<1>1. known \in Seq(IdentityType) /\ \A i \in DOMAIN known : known[i] \in IdentityType
  BY Vaults
<1>2. /\ next \in Seq(IdentityType) /\ DOMAIN next = DOMAIN known \cup {n} /\ n \notin DOMAIN known
      /\ next[n] = w /\ \A i \in DOMAIN known : next[i] = known[i]
  BY <1>1, Longer
<1> HIDE DEF n, next
<1>3. ASSUME NEW i \in DOMAIN next, NEW j \in DOMAIN next, i # j
      PROVE  Apart(next[i], next[j])
  <2>1. CASE i \in DOMAIN known /\ j \in DOMAIN known
    BY <1>2, <1>3, <2>1 DEF VaultIn, IdentitiesHold
  <2>2. CASE i \in DOMAIN known /\ j = n
    <3>1. next[i] = known[i] /\ next[j] = w
      BY <1>2, <2>2
    <3> QED
      BY <2>2, <3>1 DEF Apart, Unlike
  <2>3. CASE i = n /\ j \in DOMAIN known
    <3>1. next[j] = known[j] /\ next[i] = w
      BY <1>2, <2>3
    <3>2. known[j].slug # None
      BY <2>3, Vaults, NamesApart
    <3>3. w.slug # None
      BY NamesApart DEF IdentityType
    <3>4. ~Shares(known[j], w.slug) /\ ~Shares(known[j], w.alias) /\ (w.remote # None => w.remote # known[j].remote)
      BY <2>3 DEF Unlike
    <3>5. ~Shares(w, known[j].slug) /\ ~Shares(w, known[j].alias)
      BY <3>2, <3>3, <3>4 DEF Shares
    <3> QED
      BY <3>1, <3>4, <3>5 DEF Apart
  <2> QED
    BY <1>2, <1>3, <2>1, <2>2, <2>3
<1> QED
  BY <1>2, <1>3 DEF n, next, AddedTo, Separate

\* workspace create: a slug that nothing in the vault has.
LEMMA CreateKeeps ==
  ASSUME NEW h, HostedIn(h), NEW known, NEW bound, NEW kept, VaultIn(h, known, bound, kept),
         NEW n \in Names, LocalWorkspace(known, n) = {},
         NEW next, next = Append(known, Identity(n, None, None))
  PROVE  VaultIn(h, next, bound, kept)
<1> DEFINE w == Identity(n, None, None)
<1>1. w \in IdentityType /\ w.slug = n /\ w.alias = None /\ w.remote = None
  BY NamesApart DEF Identity, IdentityType
<1> HIDE DEF w
<1>2. \A i \in DOMAIN known : ~Shares(known[i], n) /\ ~Shares(known[i], None)
  BY DEF LocalWorkspace, Shares
<1>3. next = Append(known, w)
  BY DEF w
<1>4. /\ next \in Seq(IdentityType)
      /\ DOMAIN next = DOMAIN known \cup {Len(known) + 1} /\ next[Len(known) + 1] = w
      /\ \A i \in DOMAIN known : next[i] = known[i]
      /\ \A i, j \in DOMAIN next : i # j => Apart(next[i], next[j])
  <2>1. Unlike(known, w)
    BY <1>1, <1>2 DEF Unlike
  <2>2. AddedTo(known, next, w)
    BY <1>1, <1>3, <2>1, AddedApart
  <2>3. Separate(next)
    BY <1>1, <1>3, <2>1, AddedApart
  <2> QED
    BY <2>2, <2>3 DEF AddedTo, Separate
<1>5. \A o \in DOMAIN h : None # h[o].slug
  BY Hosts, NamesApart
<1>6. IdentityHolds(h, w, bound)
  BY <1>1, <1>5 DEF IdentityHolds, NotASlug, Aliases
<1>7. \A i \in DOMAIN next : IdentityHolds(h, next[i], bound)
  BY <1>4, <1>6 DEF VaultIn, IdentitiesHold
<1>8. \A q : SlugKnown(known, q) => SlugKnown(next, q)
  BY <1>4 DEF SlugKnown
<1>9. \A q \in Slugs : BindingHolds(h, next, bound, q)
  BY <1>8 DEF VaultIn, BindingHolds
<1>10. \A k \in DOMAIN kept : SecretHolds(next, bound, kept[k])
  BY <1>8 DEF VaultIn, SecretHolds
<1>11. VaultTyped(next, bound, kept)
  BY <1>4 DEF VaultIn, VaultTyped
<1> QED
  BY <1>4, <1>7, <1>9, <1>10, <1>11 DEF VaultIn, IdentitiesHold

\* A hosted workspace that nothing in the vault is named after gets an identity.
LEMMA NewlyRegistered ==
  ASSUME NEW h, HostedIn(h), NEW known, NEW bound, NEW kept, VaultIn(h, known, bound, kept),
         NEW o \in DOMAIN h, bound[h[o].slug] \in {None, o},
         NEW a \in Aliases, NotASlug(h, a),
         \A i \in DOMAIN known : ~Shares(known[i], h[o].slug) /\ ~Shares(known[i], a),
         NEW next, next = Append(known, Identity(h[o].slug, a, o)),
         NEW more, more = [bound EXCEPT ![h[o].slug] = o],
         NEW held, Moves(kept, held, [prefix |-> h[o].slug, org |-> o])
  PROVE  VaultIn(h, next, more, held)
<1> DEFINE w == Identity(h[o].slug, a, o)
           p == h[o].slug
<1>1. p \in Slugs /\ o \in Orgs /\ o # None /\ p # None
  BY Hosts, NamesApart
<1>2. w \in IdentityType /\ w.slug = p /\ w.alias = a /\ w.remote = o
  BY <1>1, NamesApart DEF Identity, IdentityType, Aliases
<1>3. next = Append(known, w)
  OBVIOUS
<1> HIDE DEF w
<1>4. \A i \in DOMAIN known : known[i].slug # p
  BY <1>1 DEF Shares
<1>5. \A i \in DOMAIN known : known[i].remote # o
  BY <1>4, NamedBySlug
<1>6. Unlike(known, w)
  BY <1>2, <1>5 DEF Unlike
<1>7. AddedTo(known, next, w)
  BY <1>2, <1>3, <1>6, AddedApart
<1>8. /\ next \in Seq(IdentityType)
      /\ DOMAIN next = DOMAIN known \cup {Len(known) + 1} /\ next[Len(known) + 1] = w
      /\ \A i \in DOMAIN known : next[i] = known[i]
  BY <1>7 DEF AddedTo
<1>9. Separate(next)
  BY <1>2, <1>3, <1>6, AddedApart
<1>10. more[p] = o /\ \A q \in Slugs \ {p} : more[q] = bound[q]
  BY <1>1, Vaults DEF Bindings
<1>11. ASSUME NEW i \in DOMAIN next
       PROVE  IdentityHolds(h, next[i], more)
  <2>1. CASE i \in DOMAIN known
    <3>1. IdentityHolds(h, known[i], bound) /\ known[i].slug \in Slugs \ {p} /\ next[i] = known[i]
      BY <1>4, <1>8, <2>1, Vaults
    <3> QED
      BY <1>10, <3>1 DEF IdentityHolds
  <2>2. CASE i = Len(known) + 1
    <3>1. next[i] = w
      BY <1>8, <2>2
    <3> QED
      BY <1>1, <1>2, <1>10, <3>1 DEF IdentityHolds
  <2> QED
    BY <1>8, <2>1, <2>2
<1>12. IdentitiesHold(h, next, more)
  BY <1>9, <1>11 DEF IdentitiesHold, Separate
<1>13. SlugKnown(next, p)
  BY <1>2, <1>8 DEF SlugKnown
<1>14. SlugsStay(known, next)
  BY <1>8 DEF SlugsStay
<1> QED
  BY <1>8, <1>12, <1>13, <1>14, BindsKeep

\* An import into a prefix that the vault knows; a binding it had already stays.
LEMMA ImportKeeps ==
  ASSUME NEW h, HostedIn(h), NEW known, NEW bound, NEW kept, VaultIn(h, known, bound, kept),
         NEW o \in DOMAIN h, bound[h[o].slug] \in {None, o}, SlugKnown(known, h[o].slug),
         NEW more, more = [bound EXCEPT ![h[o].slug] = o],
         NEW held, Moves(kept, held, [prefix |-> h[o].slug, org |-> o])
  PROVE  VaultIn(h, known, more, held)
<1> DEFINE p == h[o].slug
<1>1. p \in Slugs /\ o \in Orgs /\ o # None
  BY Hosts, NamesApart
<1>2. more[p] = o /\ \A q \in Slugs \ {p} : more[q] = bound[q]
  BY <1>1, Vaults DEF Bindings
<1>3. ASSUME NEW i \in DOMAIN known
      PROVE  IdentityHolds(h, known[i], more)
  <2>1. IdentityHolds(h, known[i], bound) /\ known[i].slug \in Slugs
    BY Vaults
  <2>2. known[i].remote # None /\ known[i].slug = p => known[i].remote = o
    BY <2>1 DEF IdentityHolds
  <2> QED
    BY <1>2, <2>1, <2>2 DEF IdentityHolds
<1>4. IdentitiesHold(h, known, more)
  BY <1>3 DEF IdentitiesHold, VaultIn
<1>5. SlugsStay(known, known) /\ known \in Seq(IdentityType)
  BY Vaults DEF SlugsStay
<1> QED
  BY <1>4, <1>5, BindsKeep

-----------------------------------------------------------------------------
(* A prefix is renamed, and a secret is added.                             *)

\* RenameWorkspacePrefix.
RenamedIds(known, i, o) == [known EXCEPT ![i] = Identity(o, Desired(known[i]), o)]
RenamedBindings(bound, old, o) == [bound EXCEPT ![old] = None, ![o] = o]

LEMMA RenameKeeps ==
  ASSUME NEW h, HostedIn(h), NEW known, NEW bound, NEW kept, VaultIn(h, known, bound, kept),
         NEW i \in DOMAIN known, known[i].remote = None,
         NEW o \in DOMAIN h, h[o].slug = o, NotASlug(h, Desired(known[i])),
         Users(known, {i}, {o, known[i].slug}) = {}
  PROVE  VaultIn(h, RenamedIds(known, i, o), RenamedBindings(bound, known[i].slug, o),
                 Renamed(kept, known[i].slug, o, o))
<1> DEFINE old == known[i].slug
           a == Desired(known[i])
           next == RenamedIds(known, i, o)
           more == RenamedBindings(bound, old, o)
           held == Renamed(kept, old, o, o)
           w == Identity(o, a, o)
<1>1. o \in Orgs /\ o \in Slugs /\ o # None /\ old \in Names /\ old \in Slugs /\ old # o /\ a \in Names /\ a # None
  <2>1. o \in Orgs
    BY Hosts
  <2>2. known[i].slug \in Names /\ known[i].alias \in Aliases
    BY Vaults DEF IdentityHolds
  <2> QED
    BY <2>1, <2>2, NamesApart DEF Desired, Aliases
<1>2. w \in IdentityType /\ w.slug = o /\ w.alias = a /\ w.remote = o
  BY <1>1, NamesApart DEF Identity, IdentityType
<1> HIDE DEF w
<1>3. known \in Seq(IdentityType) /\ DOMAIN known = 1 .. Len(known)
  BY Vaults
<1>4. next = [known EXCEPT ![i] = w]
  BY DEF w, RenamedIds
<1> HIDE DEF next
<1>5. /\ next \in Seq(IdentityType) /\ DOMAIN next = DOMAIN known /\ next[i] = w
      /\ \A j \in DOMAIN known \ {i} : next[j] = known[j]
  BY <1>2, <1>3, <1>4, ExceptSeq
<1>6. ASSUME NEW j \in DOMAIN known \ {i}
      PROVE  /\ ~Shares(known[j], o) /\ ~Shares(known[j], old) /\ ~Shares(known[j], a)
             /\ known[j].slug # o /\ known[j].slug # old /\ known[j].remote # o
  <2>1. ~Shares(known[j], o) /\ ~Shares(known[j], old)
    BY NotUsed
  <2>2. ~Shares(known[j], known[i].alias)
    BY DEF VaultIn, IdentitiesHold, Apart
  <2>3. known[j].slug # o /\ known[j].slug # old
    BY <1>1, <2>1, NamesApart DEF Shares
  <2>4. known[j].remote # o
    BY <2>3, NamedBySlug
  <2> QED
    BY <2>1, <2>2, <2>3, <2>4 DEF Desired
<1>7. /\ more \in Bindings /\ more[o] = o /\ more[old] = None
      /\ \A q \in Slugs \ {o, old} : more[q] = bound[q]
  BY <1>1, Vaults DEF Bindings, RenamedBindings
<1> HIDE DEF more
<1>8. ASSUME NEW j \in DOMAIN next
      PROVE  IdentityHolds(h, next[j], more)
  <2>1. CASE j = i
    BY <1>1, <1>2, <1>5, <1>7, <2>1 DEF IdentityHolds, Aliases
  <2>2. CASE j # i
    <3>1. next[j] = known[j] /\ IdentityHolds(h, known[j], bound) /\ known[j].slug \in Slugs \ {o, old}
      BY <1>5, <1>6, <2>2, Vaults
    <3> QED
      BY <1>7, <3>1 DEF IdentityHolds
  <2> QED
    BY <2>1, <2>2
<1>9. ASSUME NEW j \in DOMAIN next, NEW k \in DOMAIN next, j # k
      PROVE  Apart(next[j], next[k])
  <2>1. CASE j # i /\ k # i
    BY <1>5, <1>9, <2>1 DEF VaultIn, IdentitiesHold
  <2>2. CASE j # i /\ k = i
    <3>1. next[j] = known[j] /\ next[k] = w
      BY <1>5, <2>2
    <3> QED
      BY <1>2, <1>5, <1>6, <2>2, <3>1 DEF Apart
  <2>3. CASE j = i /\ k # i
    <3>1. next[k] = known[k] /\ next[j] = w
      BY <1>5, <2>3
    <3>2. ~Shares(known[k], o) /\ ~Shares(known[k], a) /\ known[k].remote # o
      BY <1>5, <1>6, <2>3
    <3>3. ~Shares(w, known[k].slug) /\ ~Shares(w, known[k].alias)
      BY <1>1, <1>2, <3>2 DEF Shares
    <3> QED
      BY <1>2, <3>1, <3>2, <3>3 DEF Apart
  <2> QED
    BY <1>9, <2>1, <2>2, <2>3
<1>10. IdentitiesHold(h, next, more)
  BY <1>8, <1>9 DEF IdentitiesHold
<1>11. \A q \in Slugs \ {old} : SlugKnown(known, q) => SlugKnown(next, q) /\ q # o
  BY <1>5, <1>6 DEF SlugKnown
<1>12. SlugKnown(next, o)
  BY <1>2, <1>5 DEF SlugKnown
<1>13. ASSUME NEW q \in Slugs
       PROVE  BindingHolds(h, next, more, q)
  <2>1. CASE q = o
    BY <1>7, <1>12, <2>1 DEF BindingHolds
  <2>2. CASE q = old
    BY <1>7, <2>2 DEF BindingHolds
  <2>3. CASE q \notin {o, old}
    <3>1. BindingHolds(h, known, bound, q) /\ more[q] = bound[q]
      BY <1>7, <2>3 DEF VaultIn
    <3> QED
      BY <1>11, <2>3, <3>1 DEF BindingHolds
  <2> QED
    BY <2>1, <2>2, <2>3
<1>14. DOMAIN held = DOMAIN kept /\ held = [k \in DOMAIN held |-> held[k]]
       /\ \A k \in DOMAIN kept : held[k] = IF kept[k].prefix = old THEN [prefix |-> o, org |-> o] ELSE kept[k]
  BY DEF Renamed
<1> HIDE DEF held
<1>15. ASSUME NEW k \in DOMAIN held
       PROVE  SecretHolds(next, more, held[k]) /\ held[k] \in Secret
  <2>1. kept[k] \in Secret /\ kept[k].prefix \in Slugs /\ SecretHolds(known, bound, kept[k])
    BY <1>14, Vaults DEF VaultIn
  <2>2. CASE kept[k].prefix = old
    <3>1. held[k] = [prefix |-> o, org |-> o]
      BY <1>14, <2>2
    <3>2. o \in Slugs /\ o \in Orgs /\ more[o] = o
      BY <1>1, <1>7
    <3> QED
      BY <1>12, <3>1, <3>2 DEF SecretHolds, Secret
  <2>3. CASE kept[k].prefix # old
    <3>1. SlugKnown(next, kept[k].prefix) /\ kept[k].prefix # o
      BY <1>11, <2>1, <2>3 DEF SecretHolds
    <3>2. more[kept[k].prefix] = bound[kept[k].prefix]
      BY <1>7, <2>1, <2>3, <3>1
    <3> QED
      BY <1>14, <2>1, <2>3, <3>1, <3>2 DEF SecretHolds
  <2> QED
    BY <2>2, <2>3
<1>16. held \in [DOMAIN held -> Secret] /\ DOMAIN held \subseteq Keys
  BY <1>14, <1>15, Vaults
<1>17. VaultTyped(next, more, held)
  BY <1>5, <1>7, <1>16 DEF VaultTyped
<1> QED
  BY <1>10, <1>13, <1>15, <1>17 DEF VaultIn, next, more, held

\* add seals for the workspace the prefix is bound to.
LEMMA AddKeeps ==
  ASSUME NEW h, HostedIn(h), NEW known, NEW bound, NEW kept, VaultIn(h, known, bound, kept),
         NEW p \in Slugs, SlugKnown(known, p), NEW k \in Keys,
         NEW held, held = [j \in DOMAIN kept \cup {k} |->
                             IF j = k THEN [prefix |-> p, org |-> bound[p]] ELSE kept[j]]
  PROVE  VaultIn(h, known, bound, held)
<1>1. bound[p] \in Orgs \cup {None}
  BY Vaults
<1>2. DOMAIN held = DOMAIN kept \cup {k} /\ DOMAIN held \subseteq Keys
  BY Vaults
<1>3. ASSUME NEW j \in DOMAIN held
      PROVE  held[j] \in Secret /\ SecretHolds(known, bound, held[j])
  <2>1. CASE j = k
    <3>1. held[j] = [prefix |-> p, org |-> bound[p]]
      BY <1>2, <2>1
    <3> QED
      BY <1>1, <3>1 DEF Secret, SecretHolds
  <2>2. CASE j # k
    <3>1. j \in DOMAIN kept /\ held[j] = kept[j]
      BY <1>2, <2>2
    <3> QED
      BY <3>1, Vaults DEF VaultIn
  <2> QED
    BY <2>1, <2>2
<1>4. held \in [DOMAIN held -> Secret]
  BY <1>3
<1>5. VaultTyped(known, bound, held)
  BY <1>2, <1>4 DEF VaultIn, VaultTyped
<1> QED
  BY <1>3, <1>5 DEF VaultIn

\* A restore: the next load gives the prefix an identity, if it has none.
LEMMA RestoreKeeps ==
  ASSUME NEW h, HostedIn(h), NEW known, NEW bound, NEW kept, VaultIn(h, known, bound, kept),
         NEW o \in DOMAIN h, bound[h[o].slug] \in {None, o},
         NEW more, more = [bound EXCEPT ![h[o].slug] = o],
         NEW held, Moves(kept, held, [prefix |-> h[o].slug, org |-> o])
  PROVE  VaultIn(h, Migrated(known, more, held), more, held)
<1> DEFINE p == h[o].slug
<1>1. p \in Slugs /\ o \in Orgs /\ o # None
  BY Hosts, NamesApart
<1>2. CASE SlugKnown(known, p)
  <2>1. VaultIn(h, known, more, held)
    BY <1>2, ImportKeeps
  <2> QED
    BY <2>1, NothingMissing
<1>3. CASE ~SlugKnown(known, p)
  <2> DEFINE prefixes == {held[k].prefix : k \in DOMAIN held} \cup {q \in Slugs : more[q] # None}
             missing == {q \in prefixes : LocalWorkspace(known, q) = {}}
  <2>1. more[p] = o /\ \A q \in Slugs \ {p} : more[q] = bound[q]
    BY <1>1, Vaults DEF Bindings
  <2>2. LocalWorkspace(known, p) = {}
    BY <1>3, NamedBySlug DEF SlugKnown
  <2>3. p \in missing
    BY <1>1, <2>1, <2>2
  <2>4. ASSUME NEW q \in prefixes, q # p
        PROVE  SlugKnown(known, q)
    <3>1. CASE q \in Slugs /\ more[q] # None
      BY <2>1, <2>4, <3>1 DEF VaultIn, BindingHolds
    <3>2. CASE q \in {held[k].prefix : k \in DOMAIN held}
      <4>1. PICK k \in DOMAIN held : q = held[k].prefix
        BY <3>2
      <4>2. held[k] # [prefix |-> p, org |-> o]
        BY <2>4, <4>1
      <4>3. k \in DOMAIN kept /\ held[k] = kept[k]
        BY <4>2 DEF Moves
      <4> QED
        BY <4>1, <4>3 DEF VaultIn, SecretHolds
    <3> QED
      BY <3>1, <3>2
  <2>5. \A q : SlugKnown(known, q) => LocalWorkspace(known, q) # {}
    BY DEF SlugKnown, LocalWorkspace
  <2>6. missing = {p}
    BY <2>3, <2>4, <2>5
  <2> HIDE DEF missing
  <2>7. (CHOOSE q \in missing : TRUE) = p
    BY <2>6
  <2>8. Migrated(known, more, held) = Append(known, Identity(p, None, o))
    BY <2>1, <2>6, <2>7 DEF Migrated, missing
  <2>9. ASSUME NEW i \in DOMAIN known
        PROVE  ~Shares(known[i], p) /\ ~Shares(known[i], None)
    BY <2>2 DEF LocalWorkspace, Shares
  <2>10. None \in Aliases /\ NotASlug(h, None)
    BY Hosts, NamesApart DEF Aliases, NotASlug
  <2> QED
    BY <2>8, <2>9, <2>10, NewlyRegistered
<1> QED
  BY <1>2, <1>3

LEMMA ImportMoves ==
  ASSUME HostedIn(hosted), NEW known, NEW bound, NEW kept, VaultIn(hosted, known, bound, kept),
         NEW o \in DOMAIN hosted
  PROVE  Moves(kept, Imported(kept, o), [prefix |-> hosted[o].slug, org |-> o])
<1>1. DOMAIN kept \subseteq Keys
  BY Vaults
<1>2. hosted[o].content \subseteq Keys
  BY Hosts
<1> QED
  BY <1>1, <1>2 DEF Moves, Imported

-----------------------------------------------------------------------------
(* What other devices see of a step.                                       *)

\* The slugs a control plane adds are its own numbers, and no alias is one.
LEMMA StillNotASlug ==
  ASSUME NEW h, NEW g, HostedIn(h), HostedIn(g), Grown(h, g), NEW a \in Aliases, NotASlug(h, a)
  PROVE  NotASlug(g, a)
<1>1. ASSUME NEW o \in DOMAIN g
      PROVE  a # g[o].slug
  <2>1. CASE o \in DOMAIN h
    BY <2>1 DEF Grown, NotASlug
  <2>2. CASE o \notin DOMAIN h
    <3>1. g[o].slug = o /\ o \in Orgs
      BY <2>2, Hosts DEF Grown
    <3> QED
      BY <3>1, NamesApart DEF Aliases
  <2> QED
    BY <2>1, <2>2
<1> QED
  BY <1>1 DEF NotASlug

LEMMA GrownVault ==
  ASSUME NEW h, NEW g, HostedIn(h), HostedIn(g), Grown(h, g),
         NEW known, NEW bound, NEW kept, VaultIn(h, known, bound, kept)
  PROVE  VaultIn(g, known, bound, kept)
<1>1. \A o \in DOMAIN h : o \in DOMAIN g /\ g[o].slug = h[o].slug
  BY DEF Grown
<1>2. ASSUME NEW i \in DOMAIN known
      PROVE  IdentityHolds(g, known[i], bound)
  <2>1. IdentityHolds(h, known[i], bound)
    BY DEF VaultIn, IdentitiesHold
  <2>2. NotASlug(g, known[i].alias)
    BY <2>1, StillNotASlug DEF IdentityHolds
  <2> QED
    BY <1>1, <2>1, <2>2 DEF IdentityHolds
<1>3. IdentitiesHold(g, known, bound)
  BY <1>2 DEF VaultIn, IdentitiesHold
<1>4. ASSUME NEW p \in Slugs
      PROVE  BindingHolds(g, known, bound, p)
  BY <1>1 DEF VaultIn, BindingHolds
<1> QED
  BY <1>3, <1>4 DEF VaultIn

LEMMA GrownJob ==
  ASSUME NEW h, NEW g, HostedIn(h), HostedIn(g), Grown(h, g), NEW known, NEW j, JobIn(h, known, j)
  PROVE  JobIn(g, known, j)
<1>1. \A o \in DOMAIN h : o \in DOMAIN g /\ g[o].slug = h[o].slug
  BY DEF Grown
<1>2. \A a \in Aliases : NotASlug(h, a) => NotASlug(g, a)
  BY StillNotASlug
<1>3. NamesSoon(h, known, j) => NamesSoon(g, known, j)
  BY <1>2 DEF NamesSoon, Aliases
<1>4. RenamesSoon(h, known, j) => RenamesSoon(g, known, j)
  BY <1>1, <1>2 DEF RenamesSoon
<1>5. AdoptsSoon(h, known, j) => AdoptsSoon(g, known, j)
  BY <1>1, <1>2 DEF AdoptsSoon
<1> QED
  BY <1>3, <1>4, <1>5 DEF JobIn

\* A control plane that makes no workspace and gives none a new slug.
LEMMA Standing ==
  ASSUME NEW h
  PROVE  Grown(h, h)
  BY DEF Grown

LEMMA AtRest ==
  ASSUME NEW h, NEW known
  PROVE  JobIn(h, known, Idle)
  BY DEF JobIn, Idle

\* A step of d leaves the other devices as they were.
Elsewhere(d) ==
  /\ DOMAIN ids' = Devices /\ DOMAIN bindings' = Devices /\ DOMAIN secrets' = Devices /\ DOMAIN job' = Devices
  /\ \A e \in Devices \ {d} : /\ ids'[e] = ids[e] /\ bindings'[e] = bindings[e]
                              /\ secrets'[e] = secrets[e] /\ job'[e] = job[e]

LEMMA StepKeeps ==
  ASSUME WInv, NEW d \in Devices, HostedIn(hosted'), Grown(hosted, hosted'), Elsewhere(d),
         DeviceIn(hosted', ids'[d], bindings'[d], secrets'[d], job'[d])
  PROVE  WInv'
<1>1. HostedIn(hosted)
  BY DEF WInv
<1>2. ASSUME NEW e \in Devices
      PROVE  DeviceIn(hosted', ids'[e], bindings'[e], secrets'[e], job'[e])
  <2>1. CASE e = d
    BY <2>1
  <2>2. CASE e # d
    <3>1. DeviceIn(hosted, ids[e], bindings[e], secrets[e], job[e])
      BY DEF WInv
    <3>2. DeviceIn(hosted', ids[e], bindings[e], secrets[e], job[e])
      BY <1>1, <3>1, GrownVault, GrownJob DEF DeviceIn
    <3> QED
      BY <2>2, <3>2 DEF Elsewhere
  <2> QED
    BY <2>1, <2>2
<1> QED
  BY <1>2 DEF WInv, Elsewhere

\* A command's save that ends it.
LEMMA SaveKeeps ==
  ASSUME WInv, NEW d \in Devices, HostedIn(hosted'), Grown(hosted, hosted'),
         NEW known, NEW bound, NEW kept, Saves(d, known, bound, kept),
         VaultIn(hosted, Migrated(known, bound, kept), bound, kept),
         job' = [job EXCEPT ![d] = Idle] \/ (job' = job /\ job[d] = Idle)
  PROVE  WInv'
<1>1. /\ DOMAIN ids = Devices /\ DOMAIN bindings = Devices /\ DOMAIN secrets = Devices /\ DOMAIN job = Devices
      /\ HostedIn(hosted)
  BY DEF WInv
<1>2. /\ ids'[d] = Migrated(known, bound, kept) /\ bindings'[d] = bound /\ secrets'[d] = kept /\ job'[d] = Idle
      /\ Len(ids'[d]) <= MaxIds
  BY <1>1 DEF Saves
<1>3. Elsewhere(d)
  BY <1>1 DEF Saves, Elsewhere
<1>4. VaultIn(hosted', ids'[d], bindings'[d], secrets'[d])
  BY <1>1, <1>2, GrownVault
<1>5. JobIn(hosted', ids'[d], job'[d])
  BY <1>2, AtRest
<1> QED
  BY <1>2, <1>3, <1>4, <1>5, StepKeeps DEF DeviceIn

\* A request to the control plane, after which the command may go on.
LEMMA RequestKeeps ==
  ASSUME WInv, NEW d \in Devices, HostedIn(hosted'), Grown(hosted, hosted'),
         UNCHANGED <<ids, bindings, secrets>>,
         DOMAIN job' = Devices, \A e \in Devices \ {d} : job'[e] = job[e],
         JobIn(hosted', ids[d], job'[d])
  PROVE  WInv'
<1>1. /\ DOMAIN ids = Devices /\ DOMAIN bindings = Devices /\ DOMAIN secrets = Devices
      /\ HostedIn(hosted) /\ DeviceIn(hosted, ids[d], bindings[d], secrets[d], job[d])
  BY DEF WInv
<1>2. Elsewhere(d)
  BY <1>1 DEF Elsewhere
<1>3. VaultIn(hosted', ids[d], bindings[d], secrets[d])
  BY <1>1, GrownVault DEF DeviceIn
<1>4. ids'[d] = ids[d] /\ bindings'[d] = bindings[d] /\ secrets'[d] = secrets[d]
  OBVIOUS
<1>5. DeviceIn(hosted', ids'[d], bindings'[d], secrets'[d], job'[d])
  BY <1>1, <1>3, <1>4 DEF DeviceIn
<1> QED
  BY <1>2, <1>5, StepKeeps

\* What holds before a step of d.
LEMMA Before ==
  ASSUME WInv, NEW d \in Devices
  PROVE  /\ DOMAIN job = Devices /\ HostedIn(hosted)
         /\ VaultIn(hosted, ids[d], bindings[d], secrets[d])
         /\ JobIn(hosted, ids[d], job[d])
  BY DEF WInv, DeviceIn

-----------------------------------------------------------------------------
(* What a request changes at the control plane.                            *)

LEMMA SameHosts ==
  ASSUME NEW h, HostedIn(h), NEW g \in Seq(Org), Len(g) = Len(h), DOMAIN g = DOMAIN h,
         \A o \in DOMAIN h : g[o].slug = h[o].slug /\ g[o].of = h[o].of /\ NotASlug(h, g[o].alias)
  PROVE  HostedIn(g) /\ Grown(h, g)
<1>1. Len(g) <= MaxOrgs
  BY DEF HostedIn
<1>2. \A o \in DOMAIN g : g[o].slug = o \/ (o = 1 /\ g[o].slug \in Names /\ g[o].of = <<>>)
  BY DEF HostedIn
<1>3. \A o \in DOMAIN g : NotASlug(g, g[o].alias)
  BY DEF NotASlug
<1> QED
  BY <1>1, <1>2, <1>3 DEF HostedIn, Grown

LEMMA HostNamed ==
  ASSUME NEW h, HostedIn(h), NEW o \in DOMAIN h, NEW n \in Names, NotASlug(h, n),
         NEW g, g = [h EXCEPT ![o].alias = n]
  PROVE  HostedIn(g) /\ Grown(h, g)
<1> DEFINE w == [h[o] EXCEPT !.alias = n]
<1>1. h \in Seq(Org) /\ DOMAIN h = 1 .. Len(h) /\ h[o] \in Org
  BY Hosts DEF HostedIn
<1>2. w \in Org /\ w.slug = h[o].slug /\ w.of = h[o].of /\ w.alias = n
  BY <1>1 DEF Org, Aliases
<1>3. g = [h EXCEPT ![o] = w]
  OBVIOUS
<1> HIDE DEF w
<1>4. g \in Seq(Org) /\ Len(g) = Len(h) /\ DOMAIN g = DOMAIN h
      /\ \A p \in 1 .. Len(h) : g[p] = IF p = o THEN w ELSE h[p]
  <2>1. o \in 1 .. Len(h)
    BY <1>1
  <2>2. /\ [h EXCEPT ![o] = w] \in Seq(Org) /\ Len([h EXCEPT ![o] = w]) = Len(h)
        /\ \A p \in 1 .. Len(h) : [h EXCEPT ![o] = w][p] = IF p = o THEN w ELSE h[p]
    BY <1>1, <1>2, <2>1, ExceptSeq
  <2> QED
    BY <1>1, <1>3, <2>2
<1>5. \A p \in DOMAIN h : g[p].slug = h[p].slug /\ g[p].of = h[p].of /\ NotASlug(h, g[p].alias)
  BY <1>1, <1>2, <1>4 DEF HostedIn
<1> QED
  BY <1>4, <1>5, SameHosts

LEMMA HostFilled ==
  ASSUME NEW h, HostedIn(h), NEW o \in DOMAIN h, NEW more \in SUBSET Keys,
         NEW g, g = [h EXCEPT ![o].content = @ \cup more]
  PROVE  HostedIn(g) /\ Grown(h, g)
<1> DEFINE w == [h[o] EXCEPT !.content = @ \cup more]
<1>1. h \in Seq(Org) /\ DOMAIN h = 1 .. Len(h) /\ h[o] \in Org
  BY Hosts DEF HostedIn
<1>2. w \in Org /\ w.slug = h[o].slug /\ w.of = h[o].of /\ w.alias = h[o].alias
  BY <1>1 DEF Org
<1>3. g = [h EXCEPT ![o] = w]
  OBVIOUS
<1> HIDE DEF w
<1>4. g \in Seq(Org) /\ Len(g) = Len(h) /\ DOMAIN g = DOMAIN h
      /\ \A p \in 1 .. Len(h) : g[p] = IF p = o THEN w ELSE h[p]
  <2>1. [h EXCEPT ![o] = w] \in Seq(Org) /\ Len([h EXCEPT ![o] = w]) = Len(h)
    BY <1>1, <1>2, ExceptSeq
  <2>2. \A p \in 1 .. Len(h) : [h EXCEPT ![o] = w][p] = IF p = o THEN w ELSE h[p]
    BY <1>1
  <2> QED
    BY <1>3, <2>1, <2>2
<1>5. \A p \in DOMAIN h : g[p].slug = h[p].slug /\ g[p].of = h[p].of /\ NotASlug(h, g[p].alias)
  BY <1>1, <1>2, <1>4 DEF HostedIn
<1> QED
  BY <1>4, <1>5, SameHosts

LEMMA HostMade ==
  ASSUME NEW h, HostedIn(h), Len(h) + 1 <= MaxOrgs, NEW a \in Names, NotASlug(h, a),
         NEW w \in Org, w.slug = Len(h) + 1, w.alias = a,
         NEW g, g = Append(h, w)
  PROVE  HostedIn(g) /\ Grown(h, g) /\ Len(h) + 1 \in DOMAIN g /\ g[Len(h) + 1] = w
<1> DEFINE n == Len(h) + 1
<1>1. h \in Seq(Org) /\ DOMAIN h \subseteq Orgs /\ Len(h) \in Nat
  BY Hosts DEF HostedIn
<1>2. /\ g \in Seq(Org) /\ Len(g) = Len(h) + 1
      /\ DOMAIN g = DOMAIN h \cup {n} /\ n \notin DOMAIN h
      /\ \A i \in DOMAIN h : g[i] = h[i]
      /\ g[n] = w
  BY <1>1, Longer
<1>3. n \in Orgs
  BY <1>1, WorkspacesAssumption DEF Orgs, WorkspacesAssumption
<1>4. ASSUME NEW o \in DOMAIN g
      PROVE  g[o].slug = o \/ (o = 1 /\ g[o].slug \in Names /\ g[o].of = <<>>)
  BY <1>2 DEF HostedIn
<1> HIDE DEF n
<1>5. ASSUME NEW o \in DOMAIN g
      PROVE  NotASlug(g, g[o].alias)
  <2>1. g[o].alias \in Aliases /\ NotASlug(h, g[o].alias)
    <3>1. CASE o \in DOMAIN h
      BY <1>2, <3>1, Hosts DEF HostedIn
    <3>2. CASE o = n
      BY <1>2, <3>2 DEF Aliases
    <3> QED
      BY <1>2, <3>1, <3>2
  <2>2. g[n].slug = n /\ g[o].alias # n
    <3>1. g[n].slug = n
      BY <1>2 DEF n
    <3> QED
      BY <1>3, <2>1, <3>1, NamesApart DEF Aliases
  <2> QED
    BY <1>2, <2>1, <2>2 DEF NotASlug
<1>6. HostedIn(g)
  BY <1>2, <1>4, <1>5 DEF HostedIn, n
<1>7. Grown(h, g)
  BY <1>2 DEF Grown, n
<1> QED
  BY <1>2, <1>6, <1>7 DEF n

-----------------------------------------------------------------------------
(* workspace create, workspace alias set and add.                          *)

LEMMA SaveVaultKeeps ==
  ASSUME WInv, NEW d \in Devices, HostedIn(hosted'), Grown(hosted, hosted'),
         NEW known, NEW bound, NEW kept, Saves(d, known, bound, kept),
         VaultIn(hosted, known, bound, kept),
         job' = [job EXCEPT ![d] = Idle] \/ (job' = job /\ job[d] = Idle)
  PROVE  WInv'
<1>1. Migrated(known, bound, kept) = known
  BY Before, NothingMissing
<1>2. VaultIn(hosted, Migrated(known, bound, kept), bound, kept)
  BY <1>1
<1> QED
  BY <1>2, SaveKeeps

LEMMA MayNameWell ==
  ASSUME NoClash, NEW n \in Names, MayName(n)
  PROVE  NotASlug(hosted, n)
  BY DEF NoClash, MayName, NotASlug

LEMMA CreateStep ==
  ASSUME WInv, NEW d \in Devices, NEW n \in Names, CreateLocalWorkspace(d, n)
  PROVE  WInv'
<1> DEFINE next == Append(ids[d], Identity(n, None, None))
<1>1. /\ LocalWorkspace(ids[d], n) = {} /\ job[d] = Idle /\ job' = job /\ hosted' = hosted
      /\ Saves(d, next, bindings[d], secrets[d])
  BY DEF CreateLocalWorkspace, Free
<1>2. VaultIn(hosted, next, bindings[d], secrets[d])
  BY <1>1, Before, CreateKeeps
<1>3. HostedIn(hosted') /\ Grown(hosted, hosted')
  BY <1>1, Before, Standing
<1> HIDE DEF next
<1> QED
  BY <1>1, <1>2, <1>3, SaveVaultKeeps

LEMMA SetAliasStep ==
  ASSUME NoClash, WInv, NEW d \in Devices, NEW n \in Names, NEW i \in DOMAIN ids[d],
         SetLocalWorkspaceAlias(d, i, n)
  PROVE  WInv'
<1> DEFINE next == [ids[d] EXCEPT ![i].alias = n]
<1>1. /\ Users(ids[d], {i}, {n}) = {} /\ job[d] = Idle /\ job' = job /\ hosted' = hosted /\ MayName(n)
      /\ Saves(d, next, bindings[d], secrets[d])
  BY DEF SetLocalWorkspaceAlias, Free
<1>2. NotASlug(hosted, n)
  BY <1>1, MayNameWell
<1>3. VaultIn(hosted, next, bindings[d], secrets[d])
  BY <1>1, <1>2, Before, AliasSet
<1>4. HostedIn(hosted') /\ Grown(hosted, hosted')
  BY <1>1, Before, Standing
<1> HIDE DEF next
<1> QED
  BY <1>1, <1>3, <1>4, SaveVaultKeeps

LEMMA PutAliasStep ==
  ASSUME NoClash, WInv, NEW d \in Devices, NEW v \in Slugs, NEW n \in Names, PutAlias(d, v, n)
  PROVE  WInv'
<1> DEFINE local == LocalWorkspace(ids[d], v)
           go == [at |-> "alias", local |-> local, alias |-> n]
<1>1. PICK o \in IF local = {} THEN Found(v) ELSE {ids[d][i].remote : i \in local} :
        /\ Users(ids[d], local, {n}) = {}
        /\ hosted' = [hosted EXCEPT ![o].alias = n]
        /\ job' = [job EXCEPT ![d] = go] \/ job' = job
  BY DEF PutAlias
<1>2. /\ \A i \in local : ids[d][i].remote # None
      /\ job[d] = Idle /\ MayName(n) /\ UNCHANGED <<ids, bindings, secrets>>
  BY DEF PutAlias, Free
<1>3. NotASlug(hosted, n)
  BY <1>2, MayNameWell
<1>4. local \subseteq DOMAIN ids[d]
  BY DEF LocalWorkspace
<1>5. o \in DOMAIN hosted
  <2>1. CASE local = {}
    BY <1>1, <2>1 DEF Found
  <2>2. CASE local # {}
    <3>1. PICK i \in local : o = ids[d][i].remote
      BY <1>1, <2>2
    <3>2. IdentityHolds(hosted, ids[d][i], bindings[d])
      BY <1>4, Before, Vaults
    <3> QED
      BY <1>2, <3>1, <3>2 DEF IdentityHolds
  <2> QED
    BY <2>1, <2>2
<1>6. HostedIn(hosted') /\ Grown(hosted, hosted')
  BY <1>1, <1>3, <1>5, Before, HostNamed
<1>7. \A i, x \in local : i = x
  BY Before, OneLocal
<1>8. NotASlug(hosted', n)
  BY <1>3, <1>6, Before, StillNotASlug DEF Aliases
<1>9. NamesSoon(hosted', ids[d], go)
  BY <1>1, <1>4, <1>7, <1>8 DEF NamesSoon
<1>10. JobIn(hosted', ids[d], go)
  BY <1>9 DEF JobIn
<1> HIDE DEF go, local
<1>11. DOMAIN job' = Devices /\ (\A e \in Devices \ {d} : job'[e] = job[e]) /\ job'[d] \in {go, Idle}
  BY <1>1, <1>2, Before
<1>12. JobIn(hosted', ids[d], job'[d])
  BY <1>10, <1>11, AtRest
<1> QED
  BY <1>2, <1>6, <1>11, <1>12, RequestKeeps

LEMMA SaveAliasStep ==
  ASSUME WInv, NEW d \in Devices, SaveAlias(d)
  PROVE  WInv'
<1>1. PICK i \in job[d].local : Saves(d, [ids[d] EXCEPT ![i].alias = job[d].alias], bindings[d], secrets[d])
  BY DEF SaveAlias
<1>2. job[d].at = "alias" /\ job' = [job EXCEPT ![d] = Idle] /\ hosted' = hosted
  BY DEF SaveAlias
<1>3. NamesSoon(hosted, ids[d], job[d])
  BY <1>2, Before DEF JobIn
<1>4. job[d].local = {i}
  BY <1>3 DEF NamesSoon
<1> DEFINE n == job[d].alias
           next == [ids[d] EXCEPT ![i].alias = n]
<1>5. i \in DOMAIN ids[d] /\ n \in Names /\ NotASlug(hosted, n) /\ Users(ids[d], {i}, {n}) = {}
  BY <1>3, <1>4 DEF NamesSoon
<1>6. VaultIn(hosted, next, bindings[d], secrets[d])
  BY <1>5, Before, AliasSet
<1>7. HostedIn(hosted') /\ Grown(hosted, hosted')
  BY <1>2, Before, Standing
<1>8. Saves(d, next, bindings[d], secrets[d])
  BY <1>1
<1> HIDE DEF next
<1> QED
  BY <1>2, <1>6, <1>7, <1>8, SaveVaultKeeps

LEMMA AddStep ==
  ASSUME WInv, NEW d \in Devices, NEW v \in Slugs, NEW k \in Keys, Add(d, v, k)
  PROVE  WInv'
<1> DEFINE local == LocalWorkspace(ids[d], v)
           held(p) == [j \in DOMAIN secrets[d] \cup {k} |->
                         IF j = k THEN [prefix |-> p, org |-> bindings[d][p]] ELSE secrets[d][j]]
<1>1. PICK p \in IF local = {} THEN {hosted[o].slug : o \in Found(v)} ELSE {ids[d][i].slug : i \in local} :
        LocalWorkspace(ids[d], p) # {} /\ Saves(d, ids[d], bindings[d], held(p))
  BY DEF Add
<1>2. job[d] = Idle /\ job' = job /\ hosted' = hosted
  BY DEF Add, Free
<1>3. p \in Slugs /\ SlugKnown(ids[d], p)
  <2>1. CASE local = {}
    <3>1. PICK o \in Found(v) : p = hosted[o].slug
      BY <1>1, <2>1
    <3>2. o \in DOMAIN hosted
      BY DEF Found
    <3>3. LocalWorkspace(ids[d], p) = {i \in DOMAIN ids[d] : ids[d][i].slug = p}
      BY <3>1, <3>2, Before, NamedBySlug
    <3> QED
      BY <1>1, <3>1, <3>2, <3>3, Before, Hosts DEF SlugKnown
  <2>2. CASE local # {}
    <3>1. PICK i \in local : p = ids[d][i].slug
      BY <1>1, <2>2
    <3>2. i \in DOMAIN ids[d]
      BY DEF LocalWorkspace
    <3> QED
      BY <3>1, <3>2, Before, Vaults DEF SlugKnown
  <2> QED
    BY <2>1, <2>2
<1>4. VaultIn(hosted, ids[d], bindings[d], held(p))
  BY <1>3, Before, AddKeeps
<1>5. HostedIn(hosted') /\ Grown(hosted, hosted')
  BY <1>2, Before, Standing
<1>6. Saves(d, ids[d], bindings[d], held(p))
  BY <1>1
<1> HIDE DEF held
<1> QED
  BY <1>2, <1>4, <1>5, <1>6, SaveVaultKeeps

-----------------------------------------------------------------------------
(* push.                                                                   *)

LEMMA SyncStep ==
  ASSUME WInv, NEW d \in Devices, NEW v \in Slugs, PushSyncs(d, v)
  PROVE  WInv'
<1>1. PICK i \in LocalWorkspace(ids[d], v) :
        /\ ids[d][i].remote = None
        /\ \E o \in IF SyncedFor(d, i) = {} THEN {Len(hosted) + 1} ELSE SyncedFor(d, i) :
             /\ IF o \in DOMAIN hosted THEN UNCHANGED hosted
                ELSE /\ o <= MaxOrgs
                     /\ Found(Desired(ids[d][i])) = {}
                     /\ hosted' = Append(hosted, [slug |-> o, alias |-> Desired(ids[d][i]),
                                                  of |-> <<d, i>>, content |-> {}])
             /\ \/ job' = [job EXCEPT ![d] = [at |-> "rename", id |-> i, org |-> o, alias |-> hosted'[o].alias]]
                \/ "lost" \in Faults /\ UNCHANGED job
  BY DEF PushSyncs
<1>2. PICK o \in IF SyncedFor(d, i) = {} THEN {Len(hosted) + 1} ELSE SyncedFor(d, i) :
        /\ IF o \in DOMAIN hosted THEN UNCHANGED hosted
           ELSE /\ o <= MaxOrgs
                /\ Found(Desired(ids[d][i])) = {}
                /\ hosted' = Append(hosted, [slug |-> o, alias |-> Desired(ids[d][i]),
                                             of |-> <<d, i>>, content |-> {}])
        /\ \/ job' = [job EXCEPT ![d] = [at |-> "rename", id |-> i, org |-> o, alias |-> hosted'[o].alias]]
           \/ "lost" \in Faults /\ UNCHANGED job
  BY <1>1
<1>3. job[d] = Idle /\ UNCHANGED <<ids, bindings, secrets>>
  BY DEF PushSyncs, Free
<1>4. i \in DOMAIN ids[d] /\ i \in Nat
  BY Before, Vaults DEF LocalWorkspace
<1> DEFINE a == Desired(ids[d][i])
<1>5. a \in Names
  <2>1. IdentityHolds(hosted, ids[d][i], bindings[d])
    BY <1>4, Before, Vaults
  <2> QED
    BY <1>1, <2>1 DEF Desired, IdentityHolds, Aliases
<1>6. /\ HostedIn(hosted') /\ Grown(hosted, hosted')
      /\ o \in DOMAIN hosted' /\ hosted'[o].slug = o
  <2>1. CASE o \in DOMAIN hosted
    <3>1. hosted' = hosted
      BY <1>2, <2>1
    <3>2. o \in SyncedFor(d, i)
      <4>1. Len(hosted) + 1 \notin DOMAIN hosted
        BY Before, Hosts
      <4> QED
        BY <1>2, <2>1, <4>1
    <3>3. hosted[o].of = <<d, i>>
      BY <3>2 DEF SyncedFor
    <3>4. hosted[o].of # <<>>
      BY <3>3
    <3>5. hosted[o].slug = o
      BY <2>1, <3>4, Before DEF HostedIn
    <3> QED
      BY <2>1, <3>1, <3>5, Before, Standing
  <2>2. CASE o \notin DOMAIN hosted
    <3> DEFINE w == [slug |-> o, alias |-> a, of |-> <<d, i>>, content |-> {}]
    <3>1. o = Len(hosted) + 1 /\ Len(hosted) + 1 <= MaxOrgs /\ Found(a) = {} /\ hosted' = Append(hosted, w)
      <4>1. SyncedFor(d, i) \subseteq DOMAIN hosted
        BY DEF SyncedFor
      <4>2. o = Len(hosted) + 1
        BY <1>2, <2>2, <4>1
      <4> QED
        BY <1>2, <2>2, <4>2
    <3>2. NotASlug(hosted, a)
      BY <3>1 DEF Found, NotASlug
    <3>3. o \in Orgs
      BY <3>1, Before, Hosts, WorkspacesAssumption DEF Orgs, WorkspacesAssumption
    <3>4. w \in Org /\ w.slug = o /\ w.alias = a
      BY <1>4, <1>5, <3>3, NamesApart DEF Org, Aliases
    <3> HIDE DEF w
    <3>5. w.slug = Len(hosted) + 1
      BY <3>1, <3>4
    <3>6. HostedIn(hosted') /\ Grown(hosted, hosted') /\ Len(hosted) + 1 \in DOMAIN hosted' /\ hosted'[Len(hosted) + 1] = w
      BY <1>5, <3>1, <3>2, <3>4, <3>5, Before, HostMade
    <3> QED
      BY <3>1, <3>4, <3>6
  <2> QED
    BY <2>1, <2>2
<1> DEFINE go == [at |-> "rename", id |-> i, org |-> o, alias |-> hosted'[o].alias]
<1>7. hosted'[o].alias \in Aliases /\ NotASlug(hosted', hosted'[o].alias)
  BY <1>6, Hosts DEF HostedIn
<1>8. RenamesSoon(hosted', ids[d], go)
  BY <1>1, <1>4, <1>6, <1>7 DEF RenamesSoon
<1>9. JobIn(hosted', ids[d], go)
  BY <1>8 DEF JobIn
<1>10. job' = [job EXCEPT ![d] = go] \/ job' = job
  BY <1>2
<1> HIDE DEF go
<1>11. DOMAIN job' = Devices /\ (\A e \in Devices \ {d} : job'[e] = job[e]) /\ job'[d] \in {go, Idle}
  BY <1>3, <1>10, Before
<1>12. JobIn(hosted', ids[d], job'[d])
  BY <1>9, <1>11, AtRest
<1> QED
  BY <1>3, <1>6, <1>11, <1>12, RequestKeeps

LEMMA RenameStep ==
  ASSUME WInv, NEW d \in Devices, PushRenames(d)
  PROVE  WInv'
<1> DEFINE i == job[d].id
           o == job[d].org
           w == ids[d][i]
           next == [ids[d] EXCEPT ![i] = Identity(hosted[o].slug, Desired(w), o)]
           more == [bindings[d] EXCEPT ![w.slug] = None, ![hosted[o].slug] = o]
           held == Renamed(secrets[d], w.slug, hosted[o].slug, o)
<1>1. /\ job[d].at = "rename" /\ job' = [job EXCEPT ![d] = Idle] /\ hosted' = hosted
      /\ \/ UNCHANGED <<ids, bindings, secrets>>
         \/ /\ job[d].alias = Desired(w) /\ Users(ids[d], {i}, {hosted[o].slug, w.slug}) = {}
            /\ Saves(d, next, more, held)
  BY DEF PushRenames
<1>2. RenamesSoon(hosted, ids[d], job[d])
  BY <1>1, Before DEF JobIn
<1>3. /\ i \in DOMAIN ids[d] /\ w.remote = None
      /\ o \in DOMAIN hosted /\ hosted[o].slug = o /\ NotASlug(hosted, job[d].alias)
  BY <1>2 DEF RenamesSoon
<1>4. HostedIn(hosted') /\ Grown(hosted, hosted')
  BY <1>1, Before, Standing
<1>5. CASE UNCHANGED <<ids, bindings, secrets>>
  <2>1. DOMAIN job' = Devices /\ (\A e \in Devices \ {d} : job'[e] = job[e]) /\ job'[d] = Idle
    BY <1>1, Before
  <2>2. JobIn(hosted', ids[d], job'[d])
    BY <2>1, AtRest
  <2> QED
    BY <1>4, <1>5, <2>1, <2>2, RequestKeeps
<1>6. CASE /\ job[d].alias = Desired(w) /\ Users(ids[d], {i}, {hosted[o].slug, w.slug}) = {}
           /\ Saves(d, next, more, held)
  <2>1. /\ HostedIn(hosted) /\ VaultIn(hosted, ids[d], bindings[d], secrets[d])
        /\ NotASlug(hosted, Desired(w)) /\ Users(ids[d], {i}, {o, w.slug}) = {}
    BY <1>3, <1>6, Before
  <2>2. VaultIn(hosted, RenamedIds(ids[d], i, o), RenamedBindings(bindings[d], w.slug, o),
                Renamed(secrets[d], w.slug, o, o))
    BY <1>3, <2>1, RenameKeeps
  <2>3. VaultIn(hosted, next, more, held)
    BY <1>3, <2>2 DEF RenamedIds, RenamedBindings
  <2>4. Saves(d, next, more, held)
    BY <1>6
  <2> HIDE DEF next, more, held
  <2> QED
    BY <1>1, <1>4, <2>3, <2>4, SaveVaultKeeps
<1> QED
  BY <1>1, <1>5, <1>6

LEMMA BoundHere ==
  ASSUME NEW d, NEW p, NEW o, ~BoundElsewhere(d, p, o)
  PROVE  bindings[d][p] \in {None, o}
  BY DEF BoundElsewhere

LEMMA UploadStep ==
  ASSUME WInv, NEW d \in Devices, NEW v \in Slugs, PushUploads(d, v)
  PROVE  WInv'
<1> DEFINE local == LocalWorkspace(ids[d], v)
           slugs == IF local = {} THEN {v} ELSE {ids[d][i].slug : i \in local}
<1>1. PICK w \in slugs : \E o \in Found(w) :
         /\ Prefixed(secrets[d], hosted[o].slug) # {}
         /\ ~BoundElsewhere(d, hosted[o].slug, o)
         /\ Binds(d, hosted[o].slug, o)
         /\ \/ hosted' = [hosted EXCEPT ![o].content = @ \cup Prefixed(secrets[d], hosted[o].slug)]
            \/ UNCHANGED hosted
  BY DEF PushUploads
<1>2. PICK o \in Found(w) :
         /\ Prefixed(secrets[d], hosted[o].slug) # {}
         /\ ~BoundElsewhere(d, hosted[o].slug, o)
         /\ Binds(d, hosted[o].slug, o)
         /\ \/ hosted' = [hosted EXCEPT ![o].content = @ \cup Prefixed(secrets[d], hosted[o].slug)]
            \/ UNCHANGED hosted
  BY <1>1
<1> DEFINE p == hosted[o].slug
           next == BoundIds(ids[d], p, o)
           more == [bindings[d] EXCEPT ![p] = o]
           held == Bound(secrets[d], p, o)
<1>3. job[d] = Idle /\ job' = job
  BY DEF PushUploads, Free
<1>4. o \in DOMAIN hosted
  BY DEF Found
<1>5. bindings[d][p] \in {None, o}
  BY <1>2, BoundHere
<1>6. SlugKnown(ids[d], p)
  <2>1. PICK k \in DOMAIN secrets[d] : secrets[d][k].prefix = p
    BY <1>2 DEF Prefixed
  <2>2. SecretHolds(ids[d], bindings[d], secrets[d][k])
    BY Before DEF VaultIn
  <2> QED
    BY <2>1, <2>2 DEF SecretHolds
<1>7. VaultIn(hosted, next, more, held)
  BY <1>4, <1>5, <1>6, Before, BindKeeps
<1>8. Prefixed(secrets[d], p) \in SUBSET Keys
  BY Before, Vaults DEF Prefixed
<1>9. HostedIn(hosted') /\ Grown(hosted, hosted')
  <2>1. CASE hosted' = [hosted EXCEPT ![o].content = @ \cup Prefixed(secrets[d], p)]
    BY <1>4, <1>8, <2>1, Before, HostFilled
  <2>2. CASE hosted' = hosted
    BY <2>2, Before, Standing
  <2> QED
    BY <1>2, <2>1, <2>2
<1>10. Saves(d, next, more, held)
  BY <1>2 DEF Binds
<1> HIDE DEF next, more, held
<1> QED
  BY <1>3, <1>7, <1>9, <1>10, SaveVaultKeeps

-----------------------------------------------------------------------------
(* pull and recovery restore.                                              *)

\* An import into a workspace that the vault has registered.
LEMMA AgainKeeps ==
  ASSUME HostedIn(hosted), NEW known, NEW bound, NEW kept, VaultIn(hosted, known, bound, kept),
         NEW o \in DOMAIN hosted, NEW a \in Aliases, NotASlug(hosted, a),
         LocalWorkspaceByRemoteID(known, o) # {},
         Users(known, LocalWorkspaceByRemoteID(known, o), {a}) = {}
  PROVE  VaultIn(hosted, Registered(known, o, a), bound, Imported(kept, o))
<1> DEFINE next == Registered(known, o, a)
           p == hosted[o].slug
<1>1. next = [i \in DOMAIN known |-> IF known[i].remote = o THEN [known[i] EXCEPT !.alias = a] ELSE known[i]]
  BY DEF Registered
<1>2. VaultIn(hosted, next, bound, kept)
  BY <1>1, RegisteredAgain
<1>3. PICK i \in DOMAIN known : known[i].remote = o
  BY DEF LocalWorkspaceByRemoteID
<1>4. i \in DOMAIN next /\ next[i].slug = known[i].slug
  BY <1>1, <1>3
<1>5. known[i].slug = p /\ bound[p] = o
  BY <1>3, NamedBySlug
<1>6. SlugKnown(next, p)
  BY <1>4, <1>5 DEF SlugKnown
<1>7. bound = [bound EXCEPT ![p] = o]
  <2>1. bound \in Bindings /\ p \in Slugs
    BY Vaults, Hosts
  <2> QED
    BY <1>5, <2>1 DEF Bindings
<1>8. Moves(kept, Imported(kept, o), [prefix |-> p, org |-> o])
  BY ImportMoves
<1> HIDE DEF next
<1>9. VaultIn(hosted, next, bound, Imported(kept, o))
  BY <1>2, <1>5, <1>6, <1>7, <1>8, ImportKeeps
<1> QED
  BY <1>9 DEF next

LEMMA RegisterStep ==
  ASSUME WInv, NEW d \in Devices, NEW v \in Slugs, PullRegisters(d, v)
  PROVE  WInv'
<1>1. PICK o \in Found(v) :
         /\ Registerable(ids[d], o)
         /\ Saves(d, Registered(ids[d], o, hosted[o].alias),
                  RegisteredBindings(ids[d], bindings[d], o), Imported(secrets[d], o))
  BY DEF PullRegisters
<1>2. job[d] = Idle /\ job' = job /\ hosted' = hosted
  BY DEF PullRegisters, Free
<1>3. o \in DOMAIN hosted
  BY DEF Found
<1> DEFINE p == hosted[o].slug
           a == hosted[o].alias
           known == ids[d]
           bound == bindings[d]
           kept == secrets[d]
           own == LocalWorkspaceByRemoteID(known, o)
           next == Registered(known, o, a)
           more == RegisteredBindings(known, bound, o)
           held == Imported(kept, o)
<1>4. a \in Aliases /\ NotASlug(hosted, a) /\ p \in Slugs /\ p # None
  BY <1>3, Before, Hosts, NamesApart DEF HostedIn
<1>5. Users(known, own, {p, a}) = {}
  BY <1>1 DEF Registerable
<1>6. VaultIn(hosted, known, bound, kept) /\ HostedIn(hosted)
  BY Before
<1>7. VaultIn(hosted, next, more, held)
  <2>1. CASE own = {}
    <3>1. ASSUME NEW i \in DOMAIN known
          PROVE  ~Shares(known[i], p) /\ ~Shares(known[i], a)
      BY <1>5, <2>1, NotUsed
    <3>2. ~SlugKnown(known, p)
      BY <1>4, <3>1 DEF SlugKnown, Shares
    <3>3. bound[p] = None
      BY <1>4, <1>6, <3>2 DEF VaultIn, BindingHolds
    <3>4. next = Append(known, Identity(p, a, o)) /\ more = [bound EXCEPT ![p] = o]
      BY <2>1 DEF Registered, RegisteredBindings
    <3>5. Moves(kept, held, [prefix |-> p, org |-> o])
      BY <1>3, <1>6, ImportMoves
    <3>6. bound[p] \in {None, o}
      BY <3>3
    <3> HIDE DEF next, more, held
    <3>7. PICK x, y, z : x = next /\ y = more /\ z = held
      OBVIOUS
    <3>8. x = Append(known, Identity(hosted[o].slug, a, o)) /\ y = [bound EXCEPT ![hosted[o].slug] = o]
      BY <3>4, <3>7
    <3>9. Moves(kept, z, [prefix |-> hosted[o].slug, org |-> o])
      BY <3>5, <3>7
    <3>10. \A i \in DOMAIN known : ~Shares(known[i], hosted[o].slug) /\ ~Shares(known[i], a)
      BY <3>1
    <3>11. bound[hosted[o].slug] \in {None, o} /\ HostedIn(hosted) /\ VaultIn(hosted, known, bound, kept)
      BY <3>6, <1>6
    <3> HIDE DEF known, bound, kept, a
    <3>12. VaultIn(hosted, x, y, z)
      BY <1>3, <1>4, <3>8, <3>9, <3>10, <3>11, NewlyRegistered
    <3> QED
      BY <3>7, <3>12
  <2>2. CASE own # {}
    <3>1. Users(known, own, {a}) = {}
      BY <1>5 DEF Users
    <3>2. more = bound
      BY <2>2 DEF RegisteredBindings
    <3> QED
      BY <1>3, <1>4, <1>6, <2>2, <3>1, <3>2, AgainKeeps
  <2> QED
    BY <2>1, <2>2
<1>8. HostedIn(hosted') /\ Grown(hosted, hosted')
  BY <1>2, Before, Standing
<1>9. Saves(d, next, more, held)
  BY <1>1
<1> HIDE DEF next, more, held
<1> QED
  BY <1>2, <1>7, <1>8, <1>9, SaveVaultKeeps

LEMMA AdoptStep ==
  ASSUME WInv, NEW d \in Devices, NEW v \in Slugs, PullAdopts(d, v)
  PROVE  WInv'
<1>1. PICK o \in Found(v) :
         /\ Adopters(ids[d], o) # {}
         /\ Users(ids[d], Adopters(ids[d], o), {hosted[o].slug, hosted[o].alias}) = {}
         /\ ~BoundElsewhere(d, hosted[o].slug, o)
         /\ Binds(d, hosted[o].slug, o)
         /\ job' = [job EXCEPT ![d] = [at |-> "adopt", org |-> o, alias |-> hosted[o].alias]]
  BY DEF PullAdopts
<1>2. hosted' = hosted /\ o \in DOMAIN hosted
  BY DEF PullAdopts, Found
<1> DEFINE p == hosted[o].slug
           a == hosted[o].alias
           next == BoundIds(ids[d], p, o)
           more == [bindings[d] EXCEPT ![p] = o]
           held == Bound(secrets[d], p, o)
           go == [at |-> "adopt", org |-> o, alias |-> a]
<1>3. /\ DOMAIN ids = Devices /\ DOMAIN bindings = Devices /\ DOMAIN secrets = Devices /\ DOMAIN job = Devices
      /\ HostedIn(hosted) /\ VaultIn(hosted, ids[d], bindings[d], secrets[d])
  BY Before DEF WInv
<1>4. a \in Aliases /\ NotASlug(hosted, a) /\ p \in Slugs /\ p # None
  BY <1>2, <1>3, Hosts, NamesApart DEF HostedIn
<1>5. bindings[d][p] \in {None, o}
  BY <1>1, BoundHere
<1>6. PICK i \in Adopters(ids[d], o) : TRUE
  BY <1>1
<1>7. i \in DOMAIN ids[d] /\ ids[d][i].slug = p /\ SlugKnown(ids[d], p)
  BY <1>6 DEF Adopters, LocalWorkspace, SlugKnown
<1>8. VaultIn(hosted, next, more, held)
  BY <1>2, <1>3, <1>5, <1>7, BindKeeps
<1>9. Saves(d, next, more, held)
  BY <1>1 DEF Binds
<1>10. Rebound(ids[d], next, p, o) /\ DOMAIN next = DOMAIN ids[d]
  <2>1. Rebound(ids[d], next, p, o)
    BY <1>2, <1>3, <1>5, IdentitiesBound
  <2>2. DOMAIN next = DOMAIN ids[d]
    BY <1>2, <1>3, <1>5, IdentitiesBound
  <2> QED
    BY <2>1, <2>2
<1> HIDE DEF next, more, held
<1>11. /\ ids'[d] = next /\ bindings'[d] = more /\ secrets'[d] = held /\ Len(ids'[d]) <= MaxIds
  BY <1>3, <1>8, <1>9, NothingMissing DEF Saves
<1>12. job'[d] = go /\ Elsewhere(d)
  BY <1>1, <1>3, <1>9 DEF Saves, Elsewhere
<1>13. AdoptsSoon(hosted, next, go)
  <2>1. i \in LocalWorkspaceByRemoteID(next, o)
    BY <1>7, <1>10 DEF Rebound, LocalWorkspaceByRemoteID
  <2>2. ASSUME NEW j \in DOMAIN next \ LocalWorkspaceByRemoteID(next, o)
        PROVE  ({a} \ {None}) \cap {next[j].slug, next[j].alias} = {}
    <3>1. j \in DOMAIN ids[d] /\ ids[d][j].slug # p
      BY <1>10 DEF Rebound, LocalWorkspaceByRemoteID
    <3>2. j \notin Adopters(ids[d], o)
      BY <3>1 DEF Adopters
    <3>3. ~Shares(ids[d][j], a)
      BY <1>1, <3>1, <3>2, NotUsed
    <3>4. next[j].slug = ids[d][j].slug /\ next[j].alias = ids[d][j].alias
      BY <1>10, <3>1 DEF Rebound
    <3> QED
      BY <3>3, <3>4 DEF Shares
  <2>3. Users(next, LocalWorkspaceByRemoteID(next, o), {a}) = {}
    BY <2>2 DEF Users
  <2> QED
    BY <1>2, <1>4, <2>1, <2>3 DEF AdoptsSoon
<1>14. JobIn(hosted, next, go)
  BY <1>13 DEF JobIn
<1> HIDE DEF go
<1>15. DeviceIn(hosted', ids'[d], bindings'[d], secrets'[d], job'[d])
  BY <1>2, <1>8, <1>11, <1>12, <1>14 DEF DeviceIn
<1>16. HostedIn(hosted') /\ Grown(hosted, hosted')
  BY <1>2, <1>3, Standing
<1> QED
  BY <1>12, <1>15, <1>16, StepKeeps

LEMMA AdoptedStep ==
  ASSUME WInv, NEW d \in Devices, PullAdopted(d)
  PROVE  WInv'
<1> DEFINE o == job[d].org
           a == job[d].alias
           next == Registered(ids[d], o, a)
           held == Imported(secrets[d], o)
<1>1. /\ job[d].at = "adopt" /\ job' = [job EXCEPT ![d] = Idle] /\ hosted' = hosted
      /\ Saves(d, next, bindings[d], held)
  BY DEF PullAdopted
<1>2. AdoptsSoon(hosted, ids[d], job[d])
  BY <1>1, Before DEF JobIn
<1>3. VaultIn(hosted, next, bindings[d], held)
  <2>1. /\ o \in DOMAIN hosted /\ a \in Aliases /\ NotASlug(hosted, a)
        /\ LocalWorkspaceByRemoteID(ids[d], o) # {}
        /\ Users(ids[d], LocalWorkspaceByRemoteID(ids[d], o), {a}) = {}
    BY <1>2 DEF AdoptsSoon
  <2> QED
    BY <2>1, Before, AgainKeeps
<1>4. HostedIn(hosted') /\ Grown(hosted, hosted')
  BY <1>1, Before, Standing
<1> HIDE DEF next, held
<1> QED
  BY <1>1, <1>3, <1>4, SaveVaultKeeps

LEMMA RestoreStep ==
  ASSUME WInv, NEW d \in Devices, NEW v \in Slugs, Restore(d, v)
  PROVE  WInv'
<1>1. PICK o \in Found(v) :
         /\ ~BoundElsewhere(d, hosted[o].slug, o)
         /\ Saves(d, ids[d], [bindings[d] EXCEPT ![hosted[o].slug] = o], Imported(secrets[d], o))
  BY DEF Restore
<1>2. job[d] = Idle /\ job' = job /\ hosted' = hosted
  BY DEF Restore, Free
<1>3. o \in DOMAIN hosted /\ bindings[d][hosted[o].slug] \in {None, o}
  BY <1>1, BoundHere DEF Found
<1> DEFINE more == [bindings[d] EXCEPT ![hosted[o].slug] = o]
           held == Imported(secrets[d], o)
<1>4. Moves(secrets[d], held, [prefix |-> hosted[o].slug, org |-> o])
  BY <1>3, Before, ImportMoves
<1>5. more = [bindings[d] EXCEPT ![hosted[o].slug] = o]
  OBVIOUS
<1>6. Saves(d, ids[d], more, held)
  BY <1>1
<1> HIDE DEF more, held
<1>7. VaultIn(hosted, Migrated(ids[d], more, held), more, held)
  BY <1>3, <1>4, <1>5, Before, RestoreKeeps
<1>8. HostedIn(hosted') /\ Grown(hosted, hosted')
  BY <1>2, Before, Standing
<1> QED
  BY <1>2, <1>6, <1>7, <1>8, SaveKeeps

LEMMA StoppedStep ==
  ASSUME WInv, NEW d \in Devices, Stopped(d)
  PROVE  WInv'
<1>1. job' = [job EXCEPT ![d] = Idle] /\ hosted' = hosted /\ UNCHANGED <<ids, bindings, secrets>>
  BY DEF Stopped
<1>2. DOMAIN job' = Devices /\ (\A e \in Devices \ {d} : job'[e] = job[e]) /\ job'[d] = Idle
  BY <1>1, Before
<1>3. HostedIn(hosted') /\ Grown(hosted, hosted')
  BY <1>1, Before, Standing
<1>4. JobIn(hosted', ids[d], job'[d])
  BY <1>2, AtRest
<1> QED
  BY <1>1, <1>2, <1>3, <1>4, RequestKeeps

-----------------------------------------------------------------------------
(* The start, and every step.                                              *)

LEMMA HostedAtStart ==
  ASSUME Init
  PROVE  HostedIn(hosted)
<1>1. CASE hosted = <<>>
  <2>1. hosted \in Seq(Org) /\ Len(hosted) = 0
    BY <1>1, EmptySeq
  <2>2. DOMAIN hosted = {}
    BY <1>1
  <2> QED
    BY <2>1, <2>2, WorkspacesAssumption DEF HostedIn, WorkspacesAssumption
<1>2. CASE hosted # <<>>
  <2>1. hosted \in {<<[slug |-> n, alias |-> None, of |-> <<>>, content |-> s]>> : n \in Names, s \in SUBSET Keys}
    BY <1>2 DEF Init
  <2>2. PICK n \in Names, s \in SUBSET Keys : hosted = <<[slug |-> n, alias |-> None, of |-> <<>>, content |-> s]>>
    BY <2>1
  <2> DEFINE w == [slug |-> n, alias |-> None, of |-> <<>>, content |-> s]
  <2>3. w \in Org /\ w.slug = n /\ w.alias = None /\ w.of = <<>>
    BY NamesApart DEF Org, Aliases
  <2>4. hosted = <<w>>
    BY <2>2
  <2> HIDE DEF w
  <2>5. hosted \in Seq(Org) /\ Len(hosted) = 1 /\ DOMAIN hosted = {1} /\ hosted[1] = w
    <3>1. DOMAIN hosted = 1 .. 1 /\ hosted[1] = w /\ Len(hosted) = 1
      BY <2>4
    <3>2. hosted \in [1 .. 1 -> Org]
      BY <2>3, <2>4
    <3>3. hosted \in Seq(Org)
      BY <3>2, SeqDef
    <3> QED
      BY <3>1, <3>3
  <2>6. None # n
    BY NamesApart
  <2> QED
    BY <2>3, <2>5, <2>6, WorkspacesAssumption DEF HostedIn, NotASlug, WorkspacesAssumption
<1> QED
  BY <1>1, <1>2

LEMMA WInit ==
  ASSUME Init
  PROVE  WInv
<1>1. PICK old \in [Devices -> SUBSET Keys] : \E p \in Names :
        secrets = [d \in Devices |-> [k \in old[d] |-> [prefix |-> p, org |-> None]]]
  BY DEF Init
<1>2. PICK p \in Names : secrets = [d \in Devices |-> [k \in old[d] |-> [prefix |-> p, org |-> None]]]
  BY <1>1
<1> DEFINE unbound == [q \in Slugs |-> None]
<1>3. /\ DOMAIN ids = Devices /\ DOMAIN bindings = Devices /\ DOMAIN secrets = Devices /\ DOMAIN job = Devices
      /\ \A d \in Devices : /\ ids[d] = Migrated(<<>>, bindings[d], secrets[d])
                            /\ bindings[d] = unbound /\ job[d] = Idle
  BY <1>2 DEF Init
<1>4. HostedIn(hosted)
  BY HostedAtStart
<1>5. ASSUME NEW d \in Devices
      PROVE  DeviceIn(hosted, ids[d], bindings[d], secrets[d], job[d])
  <2> DEFINE kept == secrets[d]
             prefixes == {kept[k].prefix : k \in DOMAIN kept} \cup {q \in Slugs : unbound[q] # None}
             missing == {q \in prefixes : LocalWorkspace(<<>>, q) = {}}
             w == Identity(p, None, None)
  <2>1. old[d] \subseteq Keys /\ kept = [k \in old[d] |-> [prefix |-> p, org |-> None]]
    BY <1>2
  <2>2. /\ DOMAIN kept = old[d] /\ DOMAIN kept \subseteq Keys
        /\ \A k \in DOMAIN kept : kept[k] = [prefix |-> p, org |-> None]
    BY <2>1
  <2>3. p \in Slugs /\ None \in Orgs \cup {None}
    BY NamesApart
  <2>4. kept \in [DOMAIN kept -> Secret]
    BY <2>1, <2>3 DEF Secret
  <2>5. unbound \in Bindings /\ \A q \in Slugs : unbound[q] = None
    BY DEF Bindings
  <2>6. <<>> \in Seq(IdentityType) /\ Len(<<>>) = 0 /\ DOMAIN <<>> = {}
    BY EmptySeq
  <2>7. \A q : LocalWorkspace(<<>>, q) = {}
    BY <2>6 DEF LocalWorkspace
  <2>8. missing = {kept[k].prefix : k \in DOMAIN kept}
    BY <2>5, <2>7
  <2>9. w \in IdentityType /\ w.slug = p /\ w.alias = None /\ w.remote = None
    BY <2>3, NamesApart DEF Identity, IdentityType
  <2> HIDE DEF w
  <2>10. ids[d] = IF missing = {} THEN <<>> ELSE Append(<<>>, w)
    <3>1. missing # {} => missing = {p}
      BY <2>2, <2>8
    <3>2. missing # {} => (CHOOSE q \in missing : TRUE) = p
      BY <3>1
    <3>3. Migrated(<<>>, unbound, kept) = IF missing = {} THEN <<>> ELSE Append(<<>>, Identity(p, None, unbound[p]))
      <4> DEFINE q == CHOOSE x \in missing : TRUE
      <4>1. Migrated(<<>>, unbound, kept) = IF missing = {} THEN <<>> ELSE Append(<<>>, Identity(q, None, unbound[q]))
        BY DEF Migrated
      <4> QED
        BY <3>2, <4>1
    <3> QED
      BY <1>3, <2>3, <2>5, <3>3 DEF w
  <2> DEFINE next == Append(<<>>, w)
  <2>11. next \in Seq(IdentityType) /\ Len(next) = 1 /\ DOMAIN next = {1} /\ next[1] = w
    <3>1. next \in Seq(IdentityType) /\ Len(next) = Len(<<>>) + 1 /\ next[Len(<<>>) + 1] = w
      BY <2>6, <2>9, Longer
    <3>2. DOMAIN next = 1 .. Len(next)
      BY <3>1, Elements
    <3> QED
      BY <2>6, <3>1, <3>2
  <2> HIDE DEF missing, next, kept, unbound
  <2>12. /\ ids[d] \in Seq(IdentityType) /\ Len(ids[d]) <= MaxIds
         /\ \A i, j \in DOMAIN ids[d] : i = j
         /\ \A i \in DOMAIN ids[d] : ids[d][i] = w
    <3>1. CASE missing = {}
      BY <2>6, <2>10, <3>1, WorkspacesAssumption DEF WorkspacesAssumption
    <3>2. CASE missing # {}
      BY <2>10, <2>11, <3>2, WorkspacesAssumption DEF WorkspacesAssumption, next
    <3> QED
      BY <3>1, <3>2
  <2>13. IdentityHolds(hosted, w, unbound)
    <3>1. NotASlug(hosted, None)
      BY <1>4, Hosts, NamesApart DEF NotASlug
    <3> QED
      BY <2>9, <3>1 DEF IdentityHolds, Aliases
  <2>14. IdentitiesHold(hosted, ids[d], unbound)
    BY <2>12, <2>13 DEF IdentitiesHold
  <2>15. ASSUME NEW k \in DOMAIN kept
         PROVE  SecretHolds(ids[d], unbound, kept[k])
    <3>1. missing # {} /\ kept[k].prefix = p /\ kept[k].org = None
      BY <2>2, <2>8
    <3>2. ids[d] = next
      BY <2>10, <3>1 DEF next
    <3>3. SlugKnown(ids[d], p)
      BY <2>9, <2>11, <3>2 DEF SlugKnown
    <3> QED
      BY <3>1, <3>3 DEF SecretHolds
  <2>16. \A q \in Slugs : BindingHolds(hosted, ids[d], unbound, q)
    BY <2>5 DEF BindingHolds
  <2>17. VaultIn(hosted, ids[d], unbound, kept)
    BY <2>2, <2>4, <2>5, <2>12, <2>14, <2>15, <2>16 DEF VaultIn, VaultTyped
  <2> QED
    BY <1>3, <2>12, <2>17, AtRest DEF DeviceIn, kept
<1> QED
  BY <1>3, <1>4, <1>5 DEF WInv

LEMMA WStep ==
  ASSUME NoClash, WInv, [Next]_vars
  PROVE  WInv'
<1>1. CASE UNCHANGED vars
  BY <1>1 DEF vars, WInv
<1>2. CASE Next
  <2>1. PICK d \in Devices :
      \/ \E n \in Names :
           \/ CreateLocalWorkspace(d, n)
           \/ \E i \in DOMAIN ids[d] : SetLocalWorkspaceAlias(d, i, n)
           \/ \E v \in Typed : PutAlias(d, v, n)
      \/ \E v \in Typed :
           \/ \E k \in Keys : Add(d, v, k)
           \/ PushSyncs(d, v)
           \/ PushUploads(d, v)
           \/ PullRegisters(d, v)
           \/ PullAdopts(d, v)
           \/ Restore(d, v)
      \/ SaveAlias(d)
      \/ PushRenames(d)
      \/ PullAdopted(d)
      \/ Stopped(d)
    BY <1>2 DEF Next
  <2>2. CASE \E n \in Names :
           \/ CreateLocalWorkspace(d, n)
           \/ \E i \in DOMAIN ids[d] : SetLocalWorkspaceAlias(d, i, n)
           \/ \E v \in Typed : PutAlias(d, v, n)
    BY <2>2, CreateStep, SetAliasStep, PutAliasStep DEF Typed
  <2>3. CASE \E v \in Typed :
           \/ \E k \in Keys : Add(d, v, k)
           \/ PushSyncs(d, v)
           \/ PushUploads(d, v)
           \/ PullRegisters(d, v)
           \/ PullAdopts(d, v)
           \/ Restore(d, v)
    BY <2>3, AddStep, SyncStep, UploadStep, RegisterStep, AdoptStep, RestoreStep DEF Typed
  <2>4. CASE SaveAlias(d) \/ PushRenames(d) \/ PullAdopted(d) \/ Stopped(d)
    BY <2>4, SaveAliasStep, RenameStep, AdoptedStep, StoppedStep
  <2> QED
    BY <2>1, <2>2, <2>3, <2>4
<1> QED
  BY <1>1, <1>2

-----------------------------------------------------------------------------
(* What follows.                                                           *)

LEMMA WTypes ==
  ASSUME WInv
  PROVE  TypeOK
<1>1. HostedIn(hosted)
  BY DEF WInv
<1>2. ASSUME NEW d \in Devices
      PROVE  /\ Len(ids[d]) <= MaxIds /\ \A i \in DOMAIN ids[d] : ids[d][i] \in IdentityType
             /\ bindings[d] \in [Slugs -> Orgs \cup {None}]
             /\ DOMAIN secrets[d] \subseteq Keys
             /\ \A k \in DOMAIN secrets[d] : secrets[d][k] \in [prefix : Slugs, org : Orgs \cup {None}]
             /\ job[d].at \in {"idle", "alias", "rename", "adopt"}
  <2>1. DeviceIn(hosted, ids[d], bindings[d], secrets[d], job[d])
    BY DEF WInv
  <2>2. VaultIn(hosted, ids[d], bindings[d], secrets[d]) /\ Len(ids[d]) <= MaxIds /\ JobIn(hosted, ids[d], job[d])
    BY <2>1 DEF DeviceIn
  <2>3. \A i \in DOMAIN ids[d] : ids[d][i] \in IdentityType
    BY <1>1, <2>2, Vaults
  <2>4. bindings[d] \in [Slugs -> Orgs \cup {None}]
    BY <1>1, <2>2, Vaults DEF Bindings
  <2>5. /\ DOMAIN secrets[d] \subseteq Keys
        /\ \A k \in DOMAIN secrets[d] : secrets[d][k] \in [prefix : Slugs, org : Orgs \cup {None}]
    BY <1>1, <2>2, Vaults DEF Secret
  <2>6. job[d].at \in {"idle", "alias", "rename", "adopt"}
    BY <2>2 DEF JobIn
  <2> QED
    BY <2>2, <2>3, <2>4, <2>5, <2>6
<1>3. Len(hosted) <= MaxOrgs
  BY <1>1 DEF HostedIn
<1>4. \A o \in DOMAIN hosted : hosted[o].slug \in Slugs /\ hosted[o].alias \in Slugs \cup {None}
                               /\ hosted[o].content \subseteq Keys
  BY <1>1, Hosts, NamesApart DEF Aliases
<1> QED
  BY <1>2, <1>3, <1>4 DEF TypeOK

LEMMA WDistinct ==
  ASSUME WInv
  PROVE  IdentitiesDistinct
<1>1. ASSUME NEW d \in Devices, NEW i \in DOMAIN ids[d], NEW j \in DOMAIN ids[d], i # j
      PROVE  /\ Users(ids[d], {j}, {ids[d][j].slug, ids[d][j].alias}) = {}
             /\ ids[d][i].remote # None => ids[d][i].remote # ids[d][j].remote
  <2>1. \A x \in DOMAIN ids[d] \ {j} : Apart(ids[d][x], ids[d][j])
    BY Before DEF VaultIn, IdentitiesHold
  <2>2. ASSUME NEW x \in DOMAIN ids[d] \ {j}
        PROVE  ({ids[d][j].slug, ids[d][j].alias} \ {None}) \cap {ids[d][x].slug, ids[d][x].alias} = {}
    BY <2>1 DEF Apart, Shares
  <2> QED
    BY <1>1, <2>1, <2>2 DEF Users, Apart
<1> QED
  BY <1>1, WTypes DEF IdentitiesDistinct

LEMMA WAgrees ==
  ASSUME WInv
  PROVE  BindingAgrees
<1>1. ASSUME NEW d \in Devices, NEW i \in DOMAIN ids[d], ids[d][i].remote # None
      PROVE  bindings[d][ids[d][i].slug] = ids[d][i].remote
  <2>1. IdentityHolds(hosted, ids[d][i], bindings[d])
    BY Before DEF VaultIn, IdentitiesHold
  <2> QED
    BY <1>1, <2>1 DEF IdentityHolds
<1> QED
  BY <1>1 DEF BindingAgrees

LEMMA WSealed ==
  ASSUME WInv
  PROVE  SecretsSealed
<1>1. ASSUME NEW d \in Devices, NEW k \in DOMAIN secrets[d]
      PROVE  SecretHolds(ids[d], bindings[d], secrets[d][k])
  BY Before DEF VaultIn
<1> QED
  BY <1>1 DEF SecretsSealed, SecretHolds, SlugKnown

\* The names of every vault, and what its half-done command still finds of them,
\* stay as the invariant says: for any devices, names, secrets and bounds, with
\* or without domains and older files, whatever is lost or killed on the way.
THEOREM WorkspacesInvariance ==
  ASSUME NoClash
  PROVE  Spec => []WInv
<1>1. Init => WInv
  BY WInit
<1>2. WInv /\ [Next]_vars => WInv'
  BY WStep
<1> QED
  BY <1>1, <1>2, PTL DEF Spec

\* The walk over a vault's identities that looks for a slug, an alias or a
\* hosted workspace (asiri.LocalWorkspace) never has two to choose from.
THEOREM NamesStayDistinct ==
  ASSUME NoClash
  PROVE  Spec => []IdentitiesDistinct
<1>1. WInv => IdentitiesDistinct
  BY WDistinct
<1> QED
  BY <1>1, WorkspacesInvariance, PTL

\* The binding of a prefix, which push, the upload of events and a deletion ask,
\* and the identity with that slug, which alias set and pull ask, name the same
\* hosted workspace, wherever a command was killed between its request and its save.
THEOREM BindingsAgree ==
  ASSUME NoClash
  PROVE  Spec => []BindingAgrees
<1>1. WInv => BindingAgrees
  BY WAgrees
<1> QED
  BY <1>1, WorkspacesInvariance, PTL

\* A rename and an import leave no secret under a prefix that nobody knows, or
\* sealed for another hosted workspace than the one its prefix is bound to.
THEOREM SecretsStaySealed ==
  ASSUME NoClash
  PROVE  Spec => []SecretsSealed
<1>1. WInv => SecretsSealed
  BY WSealed
<1> QED
  BY <1>1, WorkspacesInvariance, PTL

=============================================================================
