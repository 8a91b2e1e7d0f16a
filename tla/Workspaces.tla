----------------------------- MODULE Workspaces -----------------------------
(***************************************************************************)
(* The names of workspaces.  A vault knows a workspace by an identity: a   *)
(* canonical slug, an alias and, once bound, the hosted workspace it is    *)
(* (asiri.LocalWorkspace); the slug is the prefix of its secrets' paths.   *)
(* A workspace that began on a device gets another slug when it is first   *)
(* pushed, so that every secret moves; one that a device pulls is adopted  *)
(* by an identity with its slug, or registered as a new one.  The control  *)
(* plane's request and the save of the state file are separate steps, and  *)
(* either may be the last one of a command.                                *)
(*                                                                         *)
(* The devices belong to one account and every one is trusted and may      *)
(* write.  A vault's commands hold its state lock and run one at a time.   *)
(***************************************************************************)
EXTENDS Naturals, Sequences, FiniteSets

CONSTANTS Devices,
          Names,       \* slugs and aliases that users and domains choose
          Keys,        \* secrets, each added once
          MaxOrgs,     \* bound: hosted workspaces
          MaxIds,      \* bound: identities in a vault
          Commands,    \* subset of {"create", "alias", "add", "push", "pull", "restore"}
          Environment, \* subset of {"domain", "legacy", "clash"}
          Faults       \* subset of {"lost", "kill"}

ASSUME WorkspacesAssumption ==
    /\ MaxOrgs \in Nat \ {0} /\ MaxIds \in Nat \ {0}
    /\ Names \cap (0 .. MaxOrgs) = {}
    /\ Commands \subseteq {"create", "alias", "add", "push", "pull", "restore"}
    /\ Environment \subseteq {"domain", "legacy", "clash"}
    /\ Faults \subseteq {"lost", "kill"}

VARIABLES ids,      \* ids[d]: the identities of the vault of d
          bindings, \* bindings[d][p]: the hosted workspace the prefix p is bound to
          secrets,  \* secrets[d][k]: its prefix, and the hosted workspace its AAD names
          job,      \* job[d]: what is left of d's command after its first step
          hosted    \* hosted[o]: a workspace of the control plane and its secrets

vars == <<ids, bindings, secrets, job, hosted>>

None == 0
Orgs == 1 .. MaxOrgs
\* The control plane makes a slug of its own for a workspace it syncs: its number.
Slugs == Names \cup Orgs
Typed == Slugs
Idle == [at |-> "idle"]
Free(d, command) == command \in Commands /\ job[d] = Idle

\* The identity of a slug or an alias, and those other than `except` that use one of names.
LocalWorkspace(known, v) == {i \in DOMAIN known : v \in {known[i].slug, known[i].alias}}
Users(known, except, names) ==
    {i \in DOMAIN known \ except : (names \ {None}) \cap {known[i].slug, known[i].alias} # {}}
LocalWorkspaceByRemoteID(known, o) == {i \in DOMAIN known : known[i].remote = o}

Identity(slug, alias, remote) == [slug |-> slug, alias |-> alias, remote |-> remote]
Desired(w) == IF w.alias = None THEN w.slug ELSE w.alias
Prefixed(kept, p) == {k \in DOMAIN kept : kept[k].prefix = p}

\* The control plane finds a workspace by its id, its slug or its alias.
Found(v) == {o \in DOMAIN hosted : v \in {o, hosted[o].slug, hosted[o].alias}}

\* A load gives the prefix of every secret and binding an identity, unless one
\* has it as its slug or alias.  There is at most one without: files older than
\* identities have one prefix here, and a restore brings one.
Migrated(known, bound, kept) ==
    LET prefixes == {kept[k].prefix : k \in DOMAIN kept} \cup {p \in Slugs : bound[p] # None}
        missing == {p \in prefixes : LocalWorkspace(known, p) = {}}
    IN  IF missing = {} THEN known
        ELSE LET p == CHOOSE p \in missing : TRUE IN Append(known, Identity(p, None, bound[p]))

\* Every vault may start from a file older than identities, and a domain may
\* have a workspace already.
Init ==
    /\ hosted \in IF "domain" \in Environment
                  THEN {<<[slug |-> n, alias |-> None, of |-> <<>>, content |-> s]>> : n \in Names, s \in SUBSET Keys}
                  ELSE {<<>>}
    /\ bindings = [d \in Devices |-> [p \in Slugs |-> None]]
    /\ \E old \in [Devices -> SUBSET Keys], p \in Names :
         /\ "legacy" \in Environment \/ \A d \in Devices : old[d] = {}
         /\ \A d, e \in Devices : d # e => old[d] \cap old[e] = {}
         /\ \A d \in Devices, o \in DOMAIN hosted : old[d] \cap hosted[o].content = {}
         /\ secrets = [d \in Devices |-> [k \in old[d] |-> [prefix |-> p, org |-> None]]]
    /\ ids = [d \in Devices |-> Migrated(<<>>, bindings[d], secrets[d])]
    /\ job = [d \in Devices |-> Idle]

Saves(d, known, bound, kept) ==
    /\ Len(Migrated(known, bound, kept)) <= MaxIds
    /\ ids' = [ids EXCEPT ![d] = Migrated(known, bound, kept)]
    /\ bindings' = [bindings EXCEPT ![d] = bound]
    /\ secrets' = [secrets EXCEPT ![d] = kept]

\* Without "clash" nobody gives a workspace an alias that is a domain's slug.
MayName(n) == "clash" \in Environment \/ \A o \in DOMAIN hosted : hosted[o].slug # n

-----------------------------------------------------------------------------
(* workspace create, workspace alias set and add.                          *)

CreateLocalWorkspace(d, n) ==
    /\ Free(d, "create")
    /\ LocalWorkspace(ids[d], n) = {}
    /\ Saves(d, Append(ids[d], Identity(n, None, None)), bindings[d], secrets[d])
    /\ UNCHANGED <<job, hosted>>

\* An identity that is not hosted keeps its alias in the vault.
SetLocalWorkspaceAlias(d, i, n) ==
    /\ Free(d, "alias") /\ MayName(n)
    /\ ids[d][i].remote = None
    /\ n # ids[d][i].slug
    /\ Users(ids[d], {i}, {n}) = {}
    /\ Saves(d, [ids[d] EXCEPT ![i].alias = n], bindings[d], secrets[d])
    /\ UNCHANGED <<job, hosted>>

\* The alias of a hosted one goes to the control plane first; the vault
\* follows if it knows the workspace by what the user typed.
PutAlias(d, v, n) ==
    /\ Free(d, "alias") /\ MayName(n)
    /\ LET local == LocalWorkspace(ids[d], v) IN
       /\ \A i \in local : ids[d][i].remote # None
       /\ \E o \in IF local = {} THEN Found(v) ELSE {ids[d][i].remote : i \in local} :
            /\ n # hosted[o].slug
            /\ Users(ids[d], local, {n}) = {}
            /\ Found(n) \subseteq {o}
            /\ hosted' = [hosted EXCEPT ![o].alias = n]
            /\ \/ local # {} /\ job' = [job EXCEPT ![d] = [at |-> "alias", local |-> local, alias |-> n]]
               \/ (local = {} \/ "lost" \in Faults) /\ UNCHANGED job
    /\ UNCHANGED <<ids, bindings, secrets>>

SaveAlias(d) ==
    /\ job[d].at = "alias"
    /\ \E i \in job[d].local :
         Saves(d, [ids[d] EXCEPT ![i].alias = job[d].alias], bindings[d], secrets[d])
    /\ job' = [job EXCEPT ![d] = Idle]
    /\ UNCHANGED hosted

New(k) == k \notin UNION ({DOMAIN secrets[d] : d \in Devices} \cup {hosted[o].content : o \in DOMAIN hosted})

\* add seals for the workspace that the prefix is bound to, or for the vault.
Add(d, v, k) ==
    /\ Free(d, "add") /\ New(k)
    /\ LET local == LocalWorkspace(ids[d], v) IN
       \E p \in IF local = {} THEN {hosted[o].slug : o \in Found(v)} ELSE {ids[d][i].slug : i \in local} :
         /\ LocalWorkspace(ids[d], p) # {}
         /\ Saves(d, ids[d], bindings[d],
                  [j \in DOMAIN secrets[d] \cup {k} |->
                     IF j = k THEN [prefix |-> p, org |-> bindings[d][p]] ELSE secrets[d][j]])
    /\ UNCHANGED <<job, hosted>>

-----------------------------------------------------------------------------
(* push.                                                                   *)

\* The control plane remembers which identity it synced a workspace for.
SyncedFor(d, i) == {o \in DOMAIN hosted : hosted[o].of = <<d, i>>}

\* An identity that is not bound is synced first: the control plane answers with
\* the workspace it made for it, now or before.
PushSyncs(d, v) ==
    /\ Free(d, "push")
    /\ \E i \in LocalWorkspace(ids[d], v) :
         /\ ids[d][i].remote = None
         /\ \E o \in IF SyncedFor(d, i) = {} THEN {Len(hosted) + 1} ELSE SyncedFor(d, i) :
              /\ IF o \in DOMAIN hosted THEN UNCHANGED hosted
                 ELSE /\ o <= MaxOrgs
                      /\ Found(Desired(ids[d][i])) = {}
                      /\ hosted' = Append(hosted, [slug |-> o, alias |-> Desired(ids[d][i]),
                                                   of |-> <<d, i>>, content |-> {}])
              /\ \/ job' = [job EXCEPT ![d] = [at |-> "rename", id |-> i, org |-> o, alias |-> hosted'[o].alias]]
                 \/ "lost" \in Faults /\ UNCHANGED job
    /\ UNCHANGED <<ids, bindings, secrets>>

\* (bug: as BindWorkspacePrefix, leaves what is sealed for a hosted workspace)
RenamedUnsealed(kept, old, new, o) ==
    [k \in DOMAIN kept |-> IF kept[k].prefix = old
                           THEN [prefix |-> new, org |-> IF kept[k].org = None THEN o ELSE kept[k].org]
                           ELSE kept[k]]

\* (bug: leaves what is not sealed for a hosted workspace behind)
RenamedSealed(kept, old, new, o) ==
    [k \in DOMAIN kept |-> IF kept[k].prefix = old /\ kept[k].org # None
                           THEN [prefix |-> new, org |-> o] ELSE kept[k]]

Renamed(kept, old, new, o) ==
    [k \in DOMAIN kept |-> IF kept[k].prefix = old THEN [prefix |-> new, org |-> o] ELSE kept[k]]

\* RenameWorkspacePrefix: the secrets move to the canonical slug, the old slug
\* stays as the alias, and the old binding goes.
PushRenames(d) ==
    /\ job[d].at = "rename"
    /\ job' = [job EXCEPT ![d] = Idle]
    /\ UNCHANGED hosted
    /\ LET i == job[d].id
           o == job[d].org
           w == ids[d][i]
           new == hosted[o].slug
       IN  IF job[d].alias # Desired(w) \/ Users(ids[d], {i}, {new, w.slug}) # {}
           THEN UNCHANGED <<ids, bindings, secrets>>
           ELSE Saves(d, [ids[d] EXCEPT ![i] = Identity(new, Desired(w), o)],
                      [bindings[d] EXCEPT ![w.slug] = None, ![new] = o],
                      Renamed(secrets[d], w.slug, new, o))

BoundElsewhere(d, p, o) == bindings[d][p] \notin {None, o}

\* BindWorkspacePrefix: every secret of the prefix is sealed for o, and the
\* identity that the prefix names is bound to o.
Bound(kept, p, o) == [k \in DOMAIN kept |-> IF kept[k].prefix = p THEN [prefix |-> p, org |-> o] ELSE kept[k]]
\* (bug: forgets the identity)
BoundIdsForgets(known, p, o) == known

BoundIds(known, p, o) ==
    [i \in DOMAIN known |-> IF i \in LocalWorkspace(known, p) THEN [known[i] EXCEPT !.remote = o] ELSE known[i]]
Binds(d, p, o) ==
    Saves(d, BoundIds(ids[d], p, o), [bindings[d] EXCEPT ![p] = o], Bound(secrets[d], p, o))

\* A bound identity is pushed under its slug, a name the vault does not know
\* under the name.  The upload may fail after the bind is saved.
PushUploads(d, v) ==
    /\ Free(d, "push")
    /\ LET local == LocalWorkspace(ids[d], v) IN
       /\ \A i \in local : ids[d][i].remote # None
       /\ \E w \in IF local = {} THEN {v} ELSE {ids[d][i].slug : i \in local} :
          \E o \in Found(w) :
            LET p == hosted[o].slug IN
            /\ Prefixed(secrets[d], p) # {}
            /\ ~BoundElsewhere(d, p, o)
            /\ Binds(d, p, o)
            /\ \/ hosted' = [hosted EXCEPT ![o].content = @ \cup Prefixed(secrets[d], p)]
               \/ Faults # {} /\ UNCHANGED hosted
    /\ UNCHANGED job

-----------------------------------------------------------------------------
(* pull and recovery restore.                                              *)

Imported(kept, o) ==
    [k \in DOMAIN kept \cup hosted[o].content |->
       IF k \in hosted[o].content THEN [prefix |-> hosted[o].slug, org |-> o] ELSE kept[k]]

\* (bug: does not look at aliases)
RegisterableBySlug(known, o) ==
    \/ \E i \in LocalWorkspaceByRemoteID(known, o) : known[i].slug = hosted[o].slug
    \/ /\ LocalWorkspaceByRemoteID(known, o) = {}
       /\ \A i \in DOMAIN known : known[i].slug # hosted[o].slug

\* RegisterRemoteWorkspace: what it takes, and what it makes of the identities.
Registerable(known, o) ==
    LET own == LocalWorkspaceByRemoteID(known, o) IN
    /\ \A i \in own : known[i].slug = hosted[o].slug
    /\ Users(known, own, {hosted[o].slug, hosted[o].alias}) = {}

Registered(known, o, alias) ==
    IF LocalWorkspaceByRemoteID(known, o) = {}
    THEN Append(known, Identity(hosted[o].slug, alias, o))
    ELSE [i \in DOMAIN known |-> IF known[i].remote = o THEN [known[i] EXCEPT !.alias = alias]
                                 ELSE known[i]]

\* (bug: binds to the slug)
RegisteredToSlug(known, bound, o) == [bound EXCEPT ![hosted[o].slug] = hosted[o].slug]

\* (bug: leaves the binding to the import)
RegisteredUnbound(known, bound, o) == bound

RegisteredBindings(known, bound, o) ==
    IF LocalWorkspaceByRemoteID(known, o) = {} THEN [bound EXCEPT ![hosted[o].slug] = o] ELSE bound

Adopters(known, o) == {i \in LocalWorkspace(known, hosted[o].slug) :
                          known[i].slug = hosted[o].slug /\ known[i].remote = None}

\* registerPullWorkspace and the import are saved together.
PullRegisters(d, v) ==
    /\ Free(d, "pull")
    /\ \E o \in Found(v) :
         /\ Adopters(ids[d], o) = {}
         /\ Registerable(ids[d], o)
         /\ Saves(d, Registered(ids[d], o, hosted[o].alias),
                  RegisteredBindings(ids[d], bindings[d], o), Imported(secrets[d], o))
    /\ UNCHANGED <<job, hosted>>

\* AdoptRemoteWorkspace binds and saves before it registers the
\* alias that it read at the start.
PullAdopts(d, v) ==
    /\ Free(d, "pull")
    /\ \E o \in Found(v) :
         /\ Adopters(ids[d], o) # {}
         /\ LocalWorkspaceByRemoteID(ids[d], o) = {}
         /\ Users(ids[d], Adopters(ids[d], o), {hosted[o].slug, hosted[o].alias}) = {}
         /\ ~BoundElsewhere(d, hosted[o].slug, o)
         /\ Binds(d, hosted[o].slug, o)
         /\ job' = [job EXCEPT ![d] = [at |-> "adopt", org |-> o, alias |-> hosted[o].alias]]
    /\ UNCHANGED hosted

PullAdopted(d) ==
    /\ job[d].at = "adopt"
    /\ Saves(d, Registered(ids[d], job[d].org, job[d].alias), bindings[d], Imported(secrets[d], job[d].org))
    /\ job' = [job EXCEPT ![d] = Idle]
    /\ UNCHANGED hosted

\* A restore imports and binds the prefix, and leaves the identities to the next load.
Restore(d, v) ==
    /\ Free(d, "restore")
    /\ \E o \in Found(v) :
         /\ hosted[o].content # {}
         /\ ~BoundElsewhere(d, hosted[o].slug, o)
         /\ Saves(d, ids[d], [bindings[d] EXCEPT ![hosted[o].slug] = o], Imported(secrets[d], o))
    /\ UNCHANGED <<job, hosted>>

\* Killed, or its save refused.
Stopped(d) ==
    /\ "kill" \in Faults /\ job[d] # Idle
    /\ job' = [job EXCEPT ![d] = Idle]
    /\ UNCHANGED <<ids, bindings, secrets, hosted>>

Next ==
    \E d \in Devices :
      \/ \E n \in Names :
           \/ CreateLocalWorkspace(d, n)
           \/ \E i \in DOMAIN ids[d] : SetLocalWorkspaceAlias(d, i, n)
           \/ \E v \in Typed : PutAlias(d, v, n)
      \/ \E v \in Typed :
           \/ \E k \in Keys : Add(d, v, k)
           \/ PushSyncs(d, v)
           \/ PushUploads(d, v)
           \/ PullRegisters(d, v)
           \/ PullAdopts(d, v)
           \/ Restore(d, v)
      \/ SaveAlias(d)
      \/ PushRenames(d)
      \/ PullAdopted(d)
      \/ Stopped(d)

Spec == Init /\ [][Next]_vars

-----------------------------------------------------------------------------
(* What the names are to keep.                                             *)

IdentityType == [slug : Slugs, alias : Slugs \cup {None}, remote : Orgs \cup {None}]

\* The components have their types (asiri.LocalWorkspace, RemoteWorkspaceBinding).
TypeOK ==
    /\ \A d \in Devices :
         /\ Len(ids[d]) <= MaxIds /\ \A i \in DOMAIN ids[d] : ids[d][i] \in IdentityType
         /\ bindings[d] \in [Slugs -> Orgs \cup {None}]
         /\ DOMAIN secrets[d] \subseteq Keys
         /\ \A k \in DOMAIN secrets[d] : secrets[d][k] \in [prefix : Slugs, org : Orgs \cup {None}]
         /\ job[d].at \in {"idle", "alias", "rename", "adopt"}
    /\ Len(hosted) <= MaxOrgs
    /\ \A o \in DOMAIN hosted : hosted[o].slug \in Slugs /\ hosted[o].alias \in Slugs \cup {None}
                                /\ hosted[o].content \subseteq Keys

\* A slug, an alias and a hosted workspace belong to one identity of a vault:
\* LocalWorkspace walks a map and takes the first one that matches.
IdentitiesDistinct ==
    /\ TypeOK
    /\ \A d \in Devices : \A i, j \in DOMAIN ids[d] : i # j =>
         /\ Users(ids[d], {j}, {ids[d][j].slug, ids[d][j].alias}) = {}
         /\ ids[d][i].remote # None => ids[d][i].remote # ids[d][j].remote

\* A bound identity's prefix is bound to the same hosted workspace, whatever
\* was killed on the way: push, audit upload and deletion ask the binding,
\* alias set and pull ask the identity.
BindingAgrees ==
    \A d \in Devices : \A i \in DOMAIN ids[d] :
       ids[d][i].remote # None => bindings[d][ids[d][i].slug] = ids[d][i].remote

\* An identity is bound to a hosted workspace only by its slug, never by its alias.
AliasNeverBinds ==
    \A d \in Devices : \A i \in DOMAIN ids[d] :
       ids[d][i].remote # None => ids[d][i].slug = hosted[ids[d][i].remote].slug

\* Every secret lies under the slug of an identity, so that a command on that
\* workspace finds it, and one sealed for a hosted workspace lies under the
\* prefix bound to it: a rename and an import leave none behind.
SecretsSealed ==
    \A d \in Devices : \A k \in DOMAIN secrets[d] :
       /\ \E i \in DOMAIN ids[d] : ids[d][i].slug = secrets[d][k].prefix
       /\ secrets[d][k].org \in {None, bindings[d][secrets[d][k].prefix]}

\* No secret is published in two hosted workspaces.
PublishedOnce ==
    \A o, p \in DOMAIN hosted : o # p => hosted[o].content \cap hosted[p].content = {}

\* A push that stopped after the control plane had synced its workspace gets
\* through when it is run again: the answer is the same workspace under the
\* alias asked for, and no other identity has taken its names.
RetryWorks ==
    \A d \in Devices : \A i \in DOMAIN ids[d] : ids[d][i].remote = None =>
       \A o \in DOMAIN hosted : hosted[o].of = <<d, i>> =>
          /\ SyncedFor(d, i) = {o}
          /\ hosted[o].alias = Desired(ids[d][i])
          /\ Users(ids[d], {i}, {hosted[o].slug, ids[d][i].slug}) = {}
=============================================================================
