--------------------------- MODULE RecoveryProofs ---------------------------
(***************************************************************************)
(* What holds of recovery keys and wrapped keys for any number of devices, *)
(* versions and recovery keys, whichever requests and saves fail.          *)
(***************************************************************************)
EXTENDS Recovery, TLAPS

-----------------------------------------------------------------------------
(* Types.                                                                  *)

Data == Devices \cup {None}
Record == [env : Data, dev : [Devices -> Data], rec : [Keys -> Data]]
Records == [Slots -> Record]
Cmds == {"none", "setup", "restore", "rewrap", "push", "pull", "status"}
Lasts == {"ok", "failed", "refused", "conflict", "skipped", "killed"}

IdleJobs == [at : {"idle"}, cmd : Cmds, last : Lasts]
CheckJobs == [at : {"encrypted"}, cmd : {"setup"}, replaces : BOOLEAN]
ListJobs == [at : {"metadata"}, cmd : {"setup"}, replaces : BOOLEAN, opens : [Slots -> Data]]
KeyJobs == [at : {"deliver", "commit"}, cmd : {"setup"}, replaces : BOOLEAN, key : Keys,
            keys : [Slots -> Data], listed : SUBSET Slots]
SavedJobs == [at : {"commitLocal"}, cmd : {"setup"}, key : Keys]
RestoreJobs == [at : {"import", "register", "identity"}, cmd : {"restore"}, key : Keys,
                force : BOOLEAN, listed : SUBSET Slots, recs : Records]
TargetJobs == [at : {"targets"}, cmd : {"rewrap"}, recs : Records]
PostJobs == [at : {"post"}, cmd : {"rewrap"}, entries : SUBSET (Slots \X Devices), keys : [Slots -> Data]]
BatchJobs == [at : {"batch"}, cmd : {"push"}, key : Keys \cup {NoKey}, active : Keys \cup {NoKey},
              targets : SUBSET Devices, uploads : SUBSET Slots, rewraps : SUBSET Slots]
PushedJobs == [at : {"pushed"}, cmd : {"push"}, key : Keys \cup {NoKey}]
SetupJobs == CheckJobs \cup ListJobs \cup KeyJobs \cup SavedJobs
Jobs == IdleJobs \cup SetupJobs \cup RestoreJobs \cup TargetJobs \cup PostJobs \cup BatchJobs \cup PushedJobs

Servers == [active : Keys \cup {NoKey}, trusted : SUBSET Devices, recs : Records]

Typed ==
    /\ server \in Servers
    /\ local \in [Devices -> [Slots -> Data]]
    /\ config \in [Devices -> Keys \cup {NoKey}]
    /\ job \in [Devices -> Jobs]
    /\ made \in 0 .. MaxKeys
    /\ given \subseteq 1 .. made
    /\ late \subseteq Slots

\* A key is made before it is given, and given before it is sent.
KeyHeld(d) ==
    /\ job[d].at = "deliver" => job[d].key <= made
    /\ job[d].at = "commit" => job[d].key \in given

HInv == Typed /\ ActiveKeyIsHeld /\ \A d \in Devices : KeyHeld(d)

-----------------------------------------------------------------------------
(* The wrapped keys.                                                       *)

\* No version stands in for another: none is created twice, or setup and rewrap
\* do not run where one was.
Agreed == "matching" \in Environment \/ "diverge" \notin Environment

OpensOrNone(key, record) == key \in {None, record.env}

\* Every key of a record opens it; a slot without a version has none.
RecordSound(record) ==
    /\ \A t \in Devices : OpensOrNone(record.dev[t], record)
    /\ \A k \in Keys : OpensOrNone(record.rec[k], record)

\* Where no device creates a version a second time, all have the same.
OneOrigin ==
    "diverge" \notin Environment =>
        \A s \in Slots, d \in Devices :
            /\ OpensOrNone(local[d][s], server.recs[s]) \/ server.recs[s].env = None
            /\ \A e \in Devices : None \in {local[d][s], local[e][s]} \/ local[d][s] = local[e][s]

\* A listing, read earlier, is of versions that are still there.
Listing(recs) ==
    \A s \in Slots : RecordSound(recs[s]) /\ OpensOrNone(recs[s].env, server.recs[s])

\* What d has done of a restore: imported what it listed, registered itself.
Imported(d) ==
    \A s \in Slots : job[d].recs[s].rec[job[d].key] # None => local[d][s] = job[d].recs[s].env
Registered(d) ==
    \A s \in Slots : job[d].recs[s].rec[job[d].key] # None => job[d].recs[s].dev[d] # None

\* What a command of d relies on.
Restoring(d) ==
    LET j == job[d] IN
    /\ Listing(j.recs)
    /\ \A s \in Slots : j.recs[s].dev[d] # None => server.recs[s].dev[d] = j.recs[s].dev[d]
    /\ j.at = "identity" \/ j.listed = {s \in Slots : j.recs[s].rec[j.key] # None}
    /\ j.at # "import" => Imported(d)
    /\ j.at = "identity" => Registered(d)

Relied(d) ==
    LET j == job[d] IN
    /\ j.at = "metadata" => \A s \in Slots : OpensOrNone(j.opens[s], server.recs[s])
    /\ j.at \in {"deliver", "commit"} =>
          \A s \in Slots : j.keys[s] = IF s \in j.listed THEN server.recs[s].env ELSE None
    /\ j.at \in {"deliver", "commit"} => j.listed \subseteq Present(server.recs)
    /\ j.at \in {"import", "register", "identity"} => Restoring(d)
    /\ j.at = "targets" => Listing(j.recs)
    /\ j.at = "post" => \A e \in j.entries : j.keys[e[1]] # None /\ j.keys[e[1]] = server.recs[e[1]].env
    /\ j.at = "batch" => /\ j.key = j.active
                         /\ \A s \in j.uploads \cup j.rewraps : local[d][s] # None
                         /\ \A s \in j.rewraps : local[d][s] = server.recs[s].env

IInv ==
    /\ HInv
    /\ \A s \in Slots : RecordSound(server.recs[s])
    /\ OneOrigin
    /\ ActiveKeyOpens
    /\ \A d \in Devices : Relied(d)

-----------------------------------------------------------------------------
(* Types, and that the active key was given to the user.                   *)

LEMMA PhaseTypes ==
  ASSUME Typed, NEW d \in Devices
  PROVE  /\ job[d].at = "idle" => job[d] \in IdleJobs
         /\ job[d].at = "encrypted" => job[d] \in CheckJobs
         /\ job[d].at = "metadata" => job[d] \in ListJobs
         /\ job[d].at \in {"deliver", "commit"} => job[d] \in KeyJobs
         /\ job[d].at = "commitLocal" => job[d] \in SavedJobs
         /\ job[d].at \in {"import", "register", "identity"} => job[d] \in RestoreJobs
         /\ job[d].at = "targets" => job[d] \in TargetJobs
         /\ job[d].at = "post" => job[d] \in PostJobs
         /\ job[d].at = "batch" => job[d] \in BatchJobs
         /\ job[d].at = "pushed" => job[d] \in PushedJobs
         /\ job[d].cmd \in Cmds
  <1>1. job[d] \in Jobs
    BY DEF Typed
  <1> QED BY <1>1 DEF Jobs, SetupJobs, IdleJobs, CheckJobs, ListJobs, KeyJobs, SavedJobs, RestoreJobs,
                      TargetJobs, PostJobs, BatchJobs, PushedJobs, Cmds

LEMMA IdleTyped ==
  ASSUME NEW cmd \in Cmds, NEW last \in Lasts
  PROVE  Idle(cmd, last) \in Jobs /\ Idle(cmd, last).at = "idle"
  BY DEF Idle, Jobs, IdleJobs

\* A step of d alone, by what it makes of each variable.
LEMMA HeldStep ==
  ASSUME HInv, NEW d \in Devices, NEW next \in Jobs, Goes(d, next),
         server' \in Servers, local' \in [Devices -> [Slots -> Data]],
         config' \in [Devices -> Keys \cup {NoKey}],
         made' \in 0 .. MaxKeys, made <= made',
         given \subseteq given', given' \subseteq 1 .. made', late' \subseteq Slots,
         server'.active # NoKey => server'.active \in given',
         next.at = "deliver" => next.key <= made',
         next.at = "commit" => next.key \in given'
  PROVE  HInv'
  <1>1. /\ job' \in [Devices -> Jobs] /\ job'[d] = next
        /\ \A e \in Devices \ {d} : job'[e] = job[e]
    BY DEF HInv, Typed, Goes
  <1>2. Typed'
    BY <1>1 DEF HInv, Typed
  <1>3. ASSUME NEW e \in Devices
        PROVE  KeyHeld(e)'
    <2>1. CASE e = d
      BY <1>1, <2>1 DEF KeyHeld
    <2>2. CASE e # d
      <3>1. job'[e] = job[e] /\ KeyHeld(e) /\ made \in Nat /\ made' \in Nat
        BY <1>1, <2>2 DEF HInv, Typed
      <3>2. job[e].at = "deliver" => job[e].key \in Nat
        BY PhaseTypes DEF HInv, KeyJobs, Keys
      <3>3. ASSUME job'[e].at = "deliver"
            PROVE  job'[e].key <= made'
        <4>1. job[e].key \in Nat /\ job[e].key <= made
          BY <3>1, <3>2, <3>3 DEF KeyHeld
        <4> QED BY <3>1, <4>1
      <3>4. ASSUME job'[e].at = "commit"
            PROVE  job'[e].key \in given'
        BY <3>1, <3>4 DEF KeyHeld
      <3> QED BY <3>3, <3>4 DEF KeyHeld
    <2> QED BY <2>1, <2>2
  <1>4. ActiveKeyIsHeld'
    BY DEF ActiveKeyIsHeld
  <1> QED BY <1>2, <1>3, <1>4 DEF HInv

\* A step that changes nothing but d's command and its state file's recipient.
LEMMA HeldGoes ==
  ASSUME HInv, NEW d \in Devices, NEW next \in Jobs, Goes(d, next),
         UNCHANGED <<server, local, made, given, late>>,
         config' \in [Devices -> Keys \cup {NoKey}],
         next.at = "deliver" => next.key <= made,
         next.at = "commit" => next.key \in given
  PROVE  HInv'
  <1>1. /\ server' \in Servers /\ local' \in [Devices -> [Slots -> Data]]
        /\ made' \in 0 .. MaxKeys /\ made <= made'
        /\ given \subseteq given' /\ given' \subseteq 1 .. made' /\ late' \subseteq Slots
        /\ server'.active # NoKey => server'.active \in given'
    BY DEF HInv, Typed, ActiveKeyIsHeld
  <1> QED BY <1>1, HeldStep

LEMMA HeldEnds ==
  ASSUME HInv, NEW d \in Devices, NEW last \in Lasts, Ends(d, last),
         UNCHANGED <<server, local, made, given, late>>,
         config' \in [Devices -> Keys \cup {NoKey}]
  PROVE  HInv'
  <1>1. job[d].cmd \in Cmds
    BY PhaseTypes DEF HInv
  <1>2. Idle(job[d].cmd, last) \in Jobs /\ Idle(job[d].cmd, last).at = "idle"
    BY <1>1, IdleTyped
  <1>3. Goes(d, Idle(job[d].cmd, last))
    BY DEF Ends
  <1> QED BY <1>2, <1>3, HeldGoes

-----------------------------------------------------------------------------
(* What the control plane makes of the records.                            *)

LEMMA WithRecoveryIs ==
  ASSUME NEW recs \in Records, NEW k \in Keys, NEW keys \in [Slots -> Data]
  PROVE  LET next == WithRecovery(recs, k, keys) IN
         /\ next \in Records
         /\ \A s \in Slots :
              /\ next[s].env = recs[s].env /\ next[s].dev = recs[s].dev
              /\ \A q \in Keys : next[s].rec[q] = IF q = k /\ keys[s] # None THEN keys[s] ELSE recs[s].rec[q]
  <1> DEFINE next == WithRecovery(recs, k, keys)
  <1>1. next = [s \in Slots |-> IF keys[s] = None THEN recs[s] ELSE [recs[s] EXCEPT !.rec[k] = keys[s]]]
    BY DEF WithRecovery
  <1>2. ASSUME NEW s \in Slots
        PROVE  LET r == IF keys[s] = None THEN recs[s] ELSE [recs[s] EXCEPT !.rec[k] = keys[s]] IN
               /\ r \in Record
               /\ r.env = recs[s].env /\ r.dev = recs[s].dev
               /\ \A q \in Keys : r.rec[q] = IF q = k /\ keys[s] # None THEN keys[s] ELSE recs[s].rec[q]
    <2>1. recs[s] \in Record /\ keys[s] \in Data
      BY DEF Records
    <2> DEFINE rec == [recs[s].rec EXCEPT ![k] = keys[s]]
    <2>2. /\ rec \in [Keys -> Data]
          /\ \A q \in Keys : rec[q] = IF q = k THEN keys[s] ELSE recs[s].rec[q]
      BY <2>1 DEF Record
    <2>3. [recs[s] EXCEPT !.rec[k] = keys[s]] = [recs[s] EXCEPT !.rec = rec]
      BY <2>1 DEF Record
    <2> HIDE DEF rec
    <2>4. LET r == [recs[s] EXCEPT !.rec = rec] IN
          r \in Record /\ r.env = recs[s].env /\ r.dev = recs[s].dev /\ r.rec = rec
      BY <2>1, <2>2 DEF Record
    <2> QED BY <2>1, <2>2, <2>3, <2>4
  <1> HIDE DEF next
  <1>3. next \in Records
    BY <1>1, <1>2 DEF Records
  <1>4. ASSUME NEW s \in Slots
        PROVE  /\ next[s].env = recs[s].env /\ next[s].dev = recs[s].dev
               /\ \A q \in Keys : next[s].rec[q] = IF q = k /\ keys[s] # None THEN keys[s] ELSE recs[s].rec[q]
    <2>1. next[s] = IF keys[s] = None THEN recs[s] ELSE [recs[s] EXCEPT !.rec[k] = keys[s]]
      BY <1>1
    <2> QED BY <1>2, <2>1
  <1> QED BY <1>3, <1>4 DEF next

LEMMA AddedIs ==
  ASSUME NEW recs \in Records, NEW s \in Slots, NEW d \in Devices, NEW key \in Data
  PROVE  LET next == Added(recs, s, d, key) IN
         /\ next \in Records
         /\ \A x \in Slots :
              /\ next[x].env = recs[x].env /\ next[x].rec = recs[x].rec
              /\ \A t \in Devices : next[x].dev[t] = IF x = s /\ t = d /\ recs[s].dev[d] = None
                                                     THEN key ELSE recs[x].dev[t]
  <1> DEFINE next == Added(recs, s, d, key)
             dev == [recs[s].dev EXCEPT ![d] = key]
             record == [recs[s] EXCEPT !.dev = dev]
  <1>1. recs[s] \in Record /\ recs \in [Slots -> Record]
    BY DEF Records
  <1>2. /\ dev \in [Devices -> Data]
        /\ \A t \in Devices : dev[t] = IF t = d THEN key ELSE recs[s].dev[t]
    BY <1>1 DEF Record
  <1>3. [recs EXCEPT ![s].dev[d] = key] = [recs EXCEPT ![s] = record]
    BY <1>1 DEF Record
  <1>4. next = IF recs[s].dev[d] = None THEN [recs EXCEPT ![s] = record] ELSE recs
    BY <1>3 DEF Added
  <1> HIDE DEF dev, next
  <1>5. record \in Record /\ record.env = recs[s].env /\ record.rec = recs[s].rec /\ record.dev = dev
    BY <1>1, <1>2 DEF Record
  <1> HIDE DEF record
  <1>6. CASE recs[s].dev[d] = None
    <2>1. next = [recs EXCEPT ![s] = record]
      BY <1>4, <1>6
    <2>2. next \in Records /\ next[s] = record /\ \A x \in Slots \ {s} : next[x] = recs[x]
      BY <1>1, <1>5, <2>1 DEF Records
    <2> QED BY <1>2, <1>5, <1>6, <2>2 DEF next
  <1>7. CASE recs[s].dev[d] # None
    <2>1. next = recs
      BY <1>4, <1>7
    <2> QED BY <1>7, <2>1 DEF next
  <1> QED BY <1>6, <1>7

LEMMA WrappedIs ==
  ASSUME NEW recs \in Records, NEW entries \in SUBSET (Slots \X Devices), NEW keys \in [Slots -> Data]
  PROVE  LET next == Wrapped(recs, entries, keys) IN
         /\ next \in Records
         /\ \A s \in Slots :
              /\ next[s].env = recs[s].env /\ next[s].rec = recs[s].rec
              /\ \A t \in Devices : next[s].dev[t] = IF <<s, t>> \in entries /\ recs[s].dev[t] = None
                                                     THEN keys[s] ELSE recs[s].dev[t]
  <1> DEFINE next == Wrapped(recs, entries, keys)
             dev(s) == [t \in Devices |-> IF <<s, t>> \in entries /\ recs[s].dev[t] = None
                                          THEN keys[s] ELSE recs[s].dev[t]]
  <1>1. next = [s \in Slots |-> [recs[s] EXCEPT !.dev = dev(s)]]
    BY DEF Wrapped
  <1>2. ASSUME NEW s \in Slots
        PROVE  /\ recs[s] \in Record /\ keys[s] \in Data
               /\ dev(s) \in [Devices -> Data]
               /\ \A t \in Devices : dev(s)[t] = IF <<s, t>> \in entries /\ recs[s].dev[t] = None
                                                 THEN keys[s] ELSE recs[s].dev[t]
    BY DEF Records, Record
  <1> HIDE DEF dev, next
  <1>3. ASSUME NEW s \in Slots
        PROVE  LET r == [recs[s] EXCEPT !.dev = dev(s)] IN
               r \in Record /\ r.env = recs[s].env /\ r.rec = recs[s].rec /\ r.dev = dev(s)
    BY <1>2 DEF Record
  <1>4. next \in Records
    BY <1>1, <1>3 DEF Records
  <1>5. ASSUME NEW s \in Slots
        PROVE  next[s].env = recs[s].env /\ next[s].rec = recs[s].rec /\ next[s].dev = dev(s)
    <2>1. next[s] = [recs[s] EXCEPT !.dev = dev(s)]
      BY <1>1
    <2> QED BY <1>3, <2>1
  <1> QED BY <1>2, <1>4, <1>5 DEF next

LEMMA UploadedIs ==
  ASSUME Typed, NEW d \in Devices, NEW j \in BatchJobs
  PROVE  LET next == Uploaded(d, j) IN
         /\ next \in Records
         /\ \A s \in Slots :
              /\ next[s].env = IF s \in j.uploads THEN local[d][s] ELSE server.recs[s].env
              /\ \A t \in Devices :
                   next[s].dev[t] = IF /\ s \in j.uploads \cup j.rewraps
                                       /\ t \in j.targets \cup {d} /\ server.recs[s].dev[t] = None
                                    THEN local[d][s] ELSE server.recs[s].dev[t]
              /\ \A k \in Keys :
                   next[s].rec[k] = IF s \notin j.uploads THEN server.recs[s].rec[k]
                                    ELSE IF k = j.key THEN local[d][s] ELSE None
  <1> DEFINE next == Uploaded(d, j)
             dev(s) == [t \in Devices |-> IF t \in j.targets \cup {d} /\ server.recs[s].dev[t] = None
                                          THEN local[d][s] ELSE server.recs[s].dev[t]]
             rec(s) == [k \in Keys |-> IF k = j.key THEN local[d][s] ELSE None]
             up(s) == [env |-> local[d][s], dev |-> dev(s), rec |-> rec(s)]
             re(s) == [server.recs[s] EXCEPT !.dev = dev(s)]
  <1>1. next = [s \in Slots |-> IF s \in j.uploads THEN up(s) ELSE IF s \in j.rewraps THEN re(s) ELSE server.recs[s]]
    BY DEF Uploaded
  <1>2. ASSUME NEW s \in Slots
        PROVE  /\ server.recs[s] \in Record /\ local[d][s] \in Data
               /\ dev(s) \in [Devices -> Data]
               /\ rec(s) \in [Keys -> Data]
               /\ \A t \in Devices : dev(s)[t] = IF t \in j.targets \cup {d} /\ server.recs[s].dev[t] = None
                                                 THEN local[d][s] ELSE server.recs[s].dev[t]
               /\ \A k \in Keys : rec(s)[k] = IF k = j.key THEN local[d][s] ELSE None
    <2>1. server.recs[s] \in Record /\ local[d][s] \in Data /\ None \in Data
      BY DEF Typed, Servers, Records, Data
    <2> QED BY <2>1 DEF Record
  <1> HIDE DEF dev, rec, next
  <1>3. ASSUME NEW s \in Slots
        PROVE  /\ up(s) \in Record /\ up(s).env = local[d][s] /\ up(s).dev = dev(s) /\ up(s).rec = rec(s)
               /\ re(s) \in Record /\ re(s).env = server.recs[s].env /\ re(s).dev = dev(s)
               /\ re(s).rec = server.recs[s].rec
    BY <1>2 DEF Record
  <1> HIDE DEF up, re
  <1>4. next \in Records
    BY <1>1, <1>2, <1>3 DEF Records
  <1> QED BY <1>1, <1>2, <1>3, <1>4 DEF next

-----------------------------------------------------------------------------
(* What each step makes of the command of d.                               *)

Rests(d) == \E last \in Lasts : Ends(d, last)
Becomes(d, next) == Goes(d, next) /\ next \in Jobs

LEMMA SetupCheckGoes ==
  ASSUME Typed, NEW d \in Devices, NEW force \in BOOLEAN, SetupCheck(d, force)
  PROVE  /\ UNCHANGED <<server, local, config, made, given, late>>
         /\ \E next \in Jobs : Goes(d, next) /\ next.at \in {"idle", "encrypted"}
  <1>1. CASE server.active # NoKey /\ ~force
    <2>1. Goes(d, Idle("setup", "refused"))
      BY <1>1 DEF SetupCheck
    <2>2. Idle("setup", "refused") \in Jobs /\ Idle("setup", "refused").at = "idle"
      BY IdleTyped DEF Cmds, Lasts
    <2> QED BY <2>1, <2>2 DEF SetupCheck
  <1>2. CASE ~(server.active # NoKey /\ ~force)
    <2> DEFINE next == [at |-> "encrypted", cmd |-> "setup", replaces |-> server.active # NoKey]
    <2>1. Goes(d, next)
      BY <1>2 DEF SetupCheck
    <2>2. (server.active # NoKey) \in BOOLEAN
      OBVIOUS
    <2>3. next \in CheckJobs /\ next.at = "encrypted"
      BY <2>2 DEF CheckJobs
    <2> HIDE DEF next
    <2> QED BY <2>1, <2>3 DEF SetupCheck, Jobs, SetupJobs
  <1> QED BY <1>1, <1>2

LEMMA SetupListsGoes ==
  ASSUME Typed, NEW d \in Devices, SetupListsEncrypted(d)
  PROVE  /\ UNCHANGED <<server, local, config, made, given, late>>
         /\ \E next \in ListJobs : Becomes(d, next) /\ \A s \in Slots : next.opens[s] = server.recs[s].dev[d]
  <1> DEFINE opens == Unwrapped(d, server.recs)
             next == [at |-> "metadata", cmd |-> "setup", replaces |-> job[d].replaces, opens |-> opens]
  <1>1. Goes(d, next) /\ UNCHANGED <<server, local, config, made, given, late>>
    BY DEF SetupListsEncrypted
  <1>2. job[d].replaces \in BOOLEAN
    BY PhaseTypes DEF SetupListsEncrypted, CheckJobs
  <1>3. opens \in [Slots -> Data] /\ \A s \in Slots : opens[s] = server.recs[s].dev[d]
    BY DEF Unwrapped, Typed, Servers, Records, Record
  <1> HIDE DEF opens
  <1>4. next \in ListJobs /\ next.opens = opens
    BY <1>2, <1>3 DEF ListJobs
  <1> HIDE DEF next
  <1> QED BY <1>1, <1>3, <1>4 DEF Becomes, Jobs, SetupJobs

LEMMA SetupPreparesGoes ==
  ASSUME Typed, NEW d \in Devices, SetupPrepares(d)
  PROVE  /\ job[d] \in ListJobs /\ job[d].at = "metadata"
         /\ Matching(d, job[d].opens) /\ UNCHANGED <<server, local, config, given, late>>
         /\ \/ Ends(d, "refused") /\ UNCHANGED made
            \/ /\ made' = made + 1 /\ made' \in 0 .. MaxKeys
               /\ \E next \in KeyJobs :
                    /\ Becomes(d, next) /\ next.at = "deliver" /\ next.key = made'
                    /\ next.listed = Present(server.recs)
                    /\ \A s \in next.listed : next.keys[s] = KeyFor(d, job[d].opens, s) /\ next.keys[s] # None
                    /\ \A s \in Slots \ next.listed : next.keys[s] = None
  <1> DEFINE listed == Present(server.recs)
             keys == [s \in Slots |-> IF s \in listed THEN KeyFor(d, job[d].opens, s) ELSE None]
             next == [at |-> "deliver", cmd |-> "setup", replaces |-> job[d].replaces,
                      key |-> made + 1, keys |-> keys, listed |-> listed]
  <1>1. /\ job[d].at = "metadata" /\ Matching(d, job[d].opens)
        /\ UNCHANGED <<server, local, config, given, late>>
        /\ IF \E s \in listed : keys[s] = None
           THEN Ends(d, "refused") /\ UNCHANGED made
           ELSE made < MaxKeys /\ made' = made + 1 /\ Goes(d, next)
    BY DEF SetupPrepares, Coverage
  <1>2. job[d] \in ListJobs /\ job[d].replaces \in BOOLEAN /\ job[d].opens \in [Slots -> Data]
    BY <1>1, PhaseTypes DEF ListJobs
  <1>3. listed \in SUBSET Slots
    BY DEF Present
  <1>4. /\ keys \in [Slots -> Data]
        /\ \A s \in listed : keys[s] = KeyFor(d, job[d].opens, s)
        /\ \A s \in Slots \ listed : keys[s] = None
    BY <1>2, <1>3 DEF KeyFor, LocalKey, Data, Typed
  <1> HIDE DEF keys, listed
  <1>5. CASE ~(\E s \in listed : keys[s] = None)
    <2>1. made < MaxKeys /\ made' = made + 1 /\ Goes(d, next)
      BY <1>1, <1>5
    <2>2. made + 1 \in Keys /\ made' \in 0 .. MaxKeys
      BY <2>1, RecoveryAssumption DEF Typed, Keys
    <2>3. next \in KeyJobs /\ next.at = "deliver" /\ next.key = made' /\ next.listed = listed /\ next.keys = keys
      BY <1>2, <1>3, <1>4, <2>1, <2>2 DEF KeyJobs
    <2> HIDE DEF next
    <2>4. Becomes(d, next)
      BY <2>1, <2>3 DEF Becomes, Jobs, SetupJobs
    <2> QED BY <1>1, <1>2, <1>4, <1>5, <2>1, <2>2, <2>3, <2>4 DEF listed
  <1> QED BY <1>1, <1>2, <1>5

LEMMA SetupDeliversGoes ==
  ASSUME Typed, NEW d \in Devices, SetupDelivers(d)
  PROVE  /\ job[d] \in KeyJobs /\ job[d].at = "deliver" /\ UNCHANGED <<server, local, config, made, late>>
         /\ \/ Rests(d) /\ UNCHANGED given
            \/ /\ given' = given \cup {job[d].key}
               /\ \E next \in KeyJobs :
                    /\ Becomes(d, next) /\ next.at = "commit" /\ next.key = job[d].key
                    /\ next.keys = job[d].keys /\ next.listed = job[d].listed
  <1>1. job[d] \in KeyJobs /\ job[d].at = "deliver" /\ UNCHANGED <<server, local, config, made, late>>
    BY PhaseTypes DEF SetupDelivers
  <1>2. \/ given' = given \cup {job[d].key} /\ Goes(d, [job[d] EXCEPT !.at = "commit"])
        \/ UNCHANGED given /\ Ends(d, "failed")
    BY DEF SetupDelivers, Delivers
  <1> DEFINE next == [job[d] EXCEPT !.at = "commit"]
  <1>3. /\ next \in KeyJobs /\ next.at = "commit" /\ next.key = job[d].key
        /\ next.keys = job[d].keys /\ next.listed = job[d].listed
    BY <1>1 DEF KeyJobs
  <1> HIDE DEF next
  <1> QED BY <1>1, <1>2, <1>3 DEF Becomes, Jobs, SetupJobs, Rests, Lasts, next

LEMMA SetupCommitsGoes ==
  ASSUME Typed, NEW d \in Devices, SetupCommits(d)
  PROVE  /\ job[d] \in KeyJobs /\ job[d].at = "commit" /\ UNCHANGED <<local, config, made, given>>
         /\ \/ Rests(d) /\ UNCHANGED <<server, late>>
            \/ /\ server' \in Servers /\ server'.active = job[d].key
               /\ server'.recs = WithRecovery(server.recs, job[d].key, job[d].keys)
               /\ late' = Present(server.recs) \ job[d].listed
               /\ Rests(d) \/ \E next \in SavedJobs : Becomes(d, next)
  <1>1. job[d] \in KeyJobs /\ job[d].at = "commit" /\ UNCHANGED <<local, config, made, given>>
    BY PhaseTypes DEF SetupCommits
  <1> DEFINE recs == WithRecovery(server.recs, job[d].key, job[d].keys)
             next == [at |-> "commitLocal", cmd |-> "setup", key |-> job[d].key]
  <1>2. \/ Rests(d) /\ UNCHANGED <<server, late>>
        \/ /\ server' = [server EXCEPT !.active = job[d].key, !.recs = recs]
           /\ late' = Present(server.recs) \ job[d].listed
           /\ Goes(d, next) \/ Ends(d, "failed")
    BY DEF SetupCommits, Refused, Answered, Unanswered, Rests, Lasts
  <1>3. recs \in Records /\ job[d].key \in Keys
    BY <1>1, WithRecoveryIs DEF Typed, Servers, KeyJobs
  <1> HIDE DEF recs
  <1>4. LET after == [server EXCEPT !.active = job[d].key, !.recs = recs] IN
        after \in Servers /\ after.active = job[d].key /\ after.recs = recs
    BY <1>3 DEF Typed, Servers
  <1>5. next \in SavedJobs
    BY <1>3 DEF SavedJobs
  <1> HIDE DEF next
  <1>6. Goes(d, next) => Becomes(d, next)
    BY <1>5 DEF Becomes, Jobs, SetupJobs
  <1> QED BY <1>1, <1>2, <1>4, <1>5, <1>6 DEF Rests, Lasts, recs

LEMMA RestoreListsGoes ==
  ASSUME Typed, NEW d \in Devices, NEW k \in Keys, NEW force \in BOOLEAN, RestoreLists(d, k, force)
  PROVE  /\ UNCHANGED <<server, local, config, made, given, late>>
         /\ \E next \in RestoreJobs :
              /\ Becomes(d, next) /\ next.key = k /\ next.recs = server.recs
              /\ next.listed = {s \in Slots : server.recs[s].rec[k] # None}
              /\ next.at = IF next.listed = {} THEN "identity" ELSE "import"
  <1> DEFINE listed == {s \in Slots : server.recs[s].rec[k] # None}
             at == IF listed = {} THEN "identity" ELSE "import"
             next == [at |-> at, cmd |-> "restore", key |-> k, force |-> force, listed |-> listed, recs |-> server.recs]
  <1>1. Goes(d, next) /\ UNCHANGED <<server, local, config, made, given, late>>
    BY DEF RestoreLists
  <1>2. listed \in SUBSET Slots /\ server.recs \in Records /\ at \in {"import", "identity"}
    BY DEF Typed, Servers
  <1> HIDE DEF listed, at
  <1>3. next \in RestoreJobs /\ next.at = at /\ next.key = k /\ next.recs = server.recs /\ next.listed = listed
    BY <1>2 DEF RestoreJobs
  <1> HIDE DEF next
  <1> QED BY <1>1, <1>3 DEF Becomes, Jobs, listed, at

LEMMA RestoreImportsGoes ==
  ASSUME Typed, NEW d \in Devices, RestoreImports(d)
  PROVE  LET j == job[d]
             opened == {s \in j.listed : j.recs[s].rec[j.key] = j.recs[s].env} IN
         /\ j \in RestoreJobs /\ j.at = "import"
         /\ UNCHANGED <<server, config, made, given, late>>
         /\ \/ Rests(d) /\ UNCHANGED local
            \/ /\ local' \in [Devices -> [Slots -> Data]]
               /\ \A e \in Devices \ {d} : local'[e] = local[e]
               /\ \A s \in Slots : local'[d][s] = IF s \in opened THEN j.recs[s].env ELSE local[d][s]
               /\ \/ Rests(d)
                  \/ /\ opened = j.listed
                     /\ \E next \in RestoreJobs :
                          /\ Becomes(d, next) /\ next.at = "register" /\ next.key = j.key
                          /\ next.recs = j.recs /\ next.listed = j.listed
  <1> DEFINE j == job[d]
             opened == {s \in j.listed : j.recs[s].rec[j.key] = j.recs[s].env}
             held == [s \in Slots |-> IF s \in opened THEN j.recs[s].env ELSE local[d][s]]
             next == [j EXCEPT !.at = "register"]
  <1>1. j \in RestoreJobs /\ j.at = "import" /\ UNCHANGED <<server, config, made, given, late>>
    BY PhaseTypes DEF RestoreImports
  <1>2. \/ Rests(d) /\ UNCHANGED local
        \/ /\ local' = [local EXCEPT ![d] = [s \in Slots |-> IF s \in opened THEN j.recs[s].env ELSE @[s]]]
           /\ IF opened = j.listed THEN Goes(d, next) ELSE Ends(d, "skipped")
    BY DEF RestoreImports, Rests, Lasts
  <1>3. held \in [Slots -> Data] /\ \A s \in Slots : held[s] = IF s \in opened THEN j.recs[s].env ELSE local[d][s]
    BY <1>1 DEF Typed, RestoreJobs, Records, Record
  <1>4. local' = [local EXCEPT ![d] = [s \in Slots |-> IF s \in opened THEN j.recs[s].env ELSE @[s]]]
           => local' = [local EXCEPT ![d] = held]
    BY DEF Typed
  <1> HIDE DEF held, opened
  <1>5. local' = [local EXCEPT ![d] = held] =>
          /\ local' \in [Devices -> [Slots -> Data]]
          /\ \A e \in Devices \ {d} : local'[e] = local[e]
          /\ local'[d] = held
    BY <1>3 DEF Typed
  <1>6. next \in RestoreJobs /\ next.at = "register" /\ next.key = j.key /\ next.recs = j.recs /\ next.listed = j.listed
    BY <1>1 DEF RestoreJobs
  <1> HIDE DEF next
  <1>7. Goes(d, next) => Becomes(d, next)
    BY <1>6 DEF Becomes, Jobs
  <1>8. CASE Rests(d) /\ UNCHANGED local
    BY <1>1, <1>8
  <1>9. CASE /\ local' = [local EXCEPT ![d] = held]
             /\ IF opened = j.listed THEN Goes(d, next) ELSE Ends(d, "skipped")
    <2>1. /\ local' \in [Devices -> [Slots -> Data]]
          /\ \A e \in Devices \ {d} : local'[e] = local[e]
          /\ \A s \in Slots : local'[d][s] = IF s \in opened THEN j.recs[s].env ELSE local[d][s]
      BY <1>3, <1>5, <1>9
    <2>2. Rests(d) \/ (opened = j.listed /\ Becomes(d, next))
      BY <1>7, <1>9 DEF Rests, Lasts
    <2> QED BY <1>1, <1>6, <2>1, <2>2 DEF opened
  <1> QED BY <1>2, <1>4, <1>8, <1>9


LEMMA RestoreRegistersGoes ==
  ASSUME Typed, NEW d \in Devices, RestoreRegisters(d)
  PROVE  LET j == job[d] IN
         /\ j \in RestoreJobs /\ j.at = "register" /\ UNCHANGED <<local, config, made, given, late>>
         /\ \/ Rests(d) /\ UNCHANGED server
            \/ /\ Unregistered(d) = {} /\ UNCHANGED server
               /\ \E next \in RestoreJobs :
                    /\ Becomes(d, next) /\ next.at = "identity" /\ next.key = j.key /\ next.recs = j.recs
            \/ \E s \in Unregistered(d) :
                 /\ server' \in Servers /\ server'.active = server.active
                 /\ server'.recs = Added(server.recs, s, d, local[d][s])
                 /\ \/ Rests(d)
                    \/ \E next \in RestoreJobs :
                         /\ Becomes(d, next) /\ next.at = "register" /\ next.key = j.key
                         /\ next.listed = j.listed /\ next.recs = Added(j.recs, s, d, local[d][s])
  <1> DEFINE j == job[d]
             last == [j EXCEPT !.at = "identity"]
  <1>1. j \in RestoreJobs /\ j.at = "register" /\ UNCHANGED <<local, config, made, given>>
    BY PhaseTypes DEF RestoreRegisters
  <1>2. last \in RestoreJobs /\ last.at = "identity" /\ last.key = j.key /\ last.recs = j.recs
    BY <1>1 DEF RestoreJobs
  <1>3. CASE Unregistered(d) = {}
    <2>1. Goes(d, last) /\ UNCHANGED <<server, late>>
      BY <1>3 DEF RestoreRegisters
    <2> HIDE DEF last
    <2>2. Becomes(d, last)
      BY <1>2, <2>1 DEF Becomes, Jobs
    <2> QED BY <1>1, <1>2, <1>3, <2>1, <2>2
  <1>4. CASE Unregistered(d) # {}
    <2> DEFINE s == CHOOSE x \in Unregistered(d) : TRUE
               key == LocalKey(d, s)
               recs == Added(server.recs, s, d, key)
               own == Added(j.recs, s, d, key)
               next == [j EXCEPT !.recs = own]
    <2>1. s \in Unregistered(d)
      BY <1>4
    <2>2. \/ /\ server' = [server EXCEPT !.recs = recs]
             /\ Goes(d, [j EXCEPT !.recs[s].dev[d] = key]) \/ Rests(d)
             /\ UNCHANGED late
          \/ Rests(d) /\ UNCHANGED <<server, late>>
      BY <1>4 DEF RestoreRegisters, RegisterFails, Refused, Answered, Unanswered, Rests, Lasts
    <2> HIDE DEF s
    <2>3. s \in Slots /\ key \in Data /\ key = local[d][s] /\ j.recs[s].dev[d] = None
      BY <1>1, <2>1 DEF Unregistered, LocalKey, Typed, RestoreJobs
    <2>4. recs \in Records /\ own \in Records
      <3>1. server.recs \in Records /\ j.recs \in Records
        BY <1>1 DEF Typed, Servers, RestoreJobs
      <3> QED BY <2>3, <3>1, AddedIs
    <2>5. [j EXCEPT !.recs[s].dev[d] = key] = next
      <3>1. own = [j.recs EXCEPT ![s].dev[d] = key]
        BY <2>3 DEF Added
      <3> QED BY <1>1, <3>1 DEF RestoreJobs
    <2> HIDE DEF recs, own, key
    <2>6. LET after == [server EXCEPT !.recs = recs] IN
          after \in Servers /\ after.active = server.active /\ after.recs = recs
      BY <2>4 DEF Typed, Servers
    <2>7. /\ next \in RestoreJobs /\ next.at = "register" /\ next.key = j.key
          /\ next.listed = j.listed /\ next.recs = own
      BY <1>1, <2>4 DEF RestoreJobs
    <2> HIDE DEF next
    <2>8. Goes(d, next) => Becomes(d, next)
      BY <2>7 DEF Becomes, Jobs
    <2>9. CASE Rests(d) /\ UNCHANGED <<server, late>>
      BY <1>1, <2>9
    <2>10. CASE /\ server' = [server EXCEPT !.recs = recs]
                /\ Goes(d, next) \/ Rests(d)
                /\ UNCHANGED late
      <3>1. recs = Added(server.recs, s, d, local[d][s]) /\ own = Added(j.recs, s, d, local[d][s])
        BY <2>3 DEF recs, own
      <3>2. server' \in Servers /\ server'.active = server.active /\ server'.recs = recs
        BY <2>6, <2>10
      <3> QED BY <1>1, <2>1, <2>7, <2>8, <2>10, <3>1, <3>2
    <2> QED BY <2>2, <2>5, <2>9, <2>10
  <1> QED BY <1>3, <1>4

LEMMA RewrapListsGoes ==
  ASSUME Typed, NEW d \in Devices, RewrapLists(d)
  PROVE  /\ UNCHANGED <<server, local, config, made, given, late>>
         /\ \E next \in TargetJobs : Becomes(d, next) /\ next.recs = server.recs
  <1> DEFINE next == [at |-> "targets", cmd |-> "rewrap", recs |-> server.recs]
  <1>1. Goes(d, next) /\ UNCHANGED <<server, local, config, made, given, late>>
    BY DEF RewrapLists
  <1>2. next \in TargetJobs /\ next.recs = server.recs
    BY DEF TargetJobs, Typed, Servers
  <1> HIDE DEF next
  <1> QED BY <1>1, <1>2 DEF Becomes, Jobs

LEMMA RewrapPlansGoes ==
  ASSUME Typed, NEW d \in Devices, RewrapPlans(d)
  PROVE  LET opens == Unwrapped(d, job[d].recs) IN
         /\ job[d] \in TargetJobs /\ job[d].at = "targets"
         /\ opens \in [Slots -> Data] /\ Matching(d, opens)
         /\ UNCHANGED <<server, local, config, made, given, late>>
         /\ \E next \in PostJobs :
              /\ Becomes(d, next)
              /\ \A s \in Slots : next.keys[s] = KeyFor(d, opens, s)
              /\ \A e \in next.entries : e[1] \in Present(job[d].recs) /\ next.keys[e[1]] # None
  <1> DEFINE recs == job[d].recs
             opens == Unwrapped(d, recs)
             keys == [s \in Slots |-> KeyFor(d, opens, s)]
             entries == {e \in Present(recs) \X server.trusted : Missing(recs, e[1], e[2]) /\ KeyFor(d, opens, e[1]) # None}
             next == [at |-> "post", cmd |-> "rewrap", entries |-> entries, keys |-> keys]
  <1>1. /\ job[d].at = "targets" /\ Matching(d, opens) /\ Goes(d, next)
        /\ UNCHANGED <<server, local, config, made, given, late>>
    BY DEF RewrapPlans
  <1>2. job[d] \in TargetJobs /\ recs \in Records
    BY <1>1, PhaseTypes DEF TargetJobs
  <1>3. opens \in [Slots -> Data]
    BY <1>2 DEF Unwrapped, Records, Record
  <1> HIDE DEF opens
  <1>4. keys \in [Slots -> Data] /\ \A s \in Slots : keys[s] = KeyFor(d, opens, s)
    BY <1>3 DEF KeyFor, LocalKey, Typed
  <1>5. /\ entries \in SUBSET (Slots \X Devices)
        /\ \A e \in entries : e[1] \in Present(recs) /\ e[1] \in Slots /\ KeyFor(d, opens, e[1]) # None
    BY DEF Present, Typed, Servers
  <1> HIDE DEF keys, entries
  <1>6. next \in PostJobs /\ next.keys = keys /\ next.entries = entries
    BY <1>4, <1>5 DEF PostJobs
  <1> HIDE DEF next
  <1>7. Becomes(d, next)
    BY <1>1, <1>6 DEF Becomes, Jobs
  <1> QED BY <1>1, <1>2, <1>3, <1>4, <1>5, <1>6, <1>7 DEF opens

LEMMA RewrapPostsGoes ==
  ASSUME Typed, NEW d \in Devices, RewrapPosts(d)
  PROVE  LET j == job[d] IN
         /\ j \in PostJobs /\ j.at = "post" /\ UNCHANGED <<local, config, made, given, late>>
         /\ \/ Rests(d) /\ UNCHANGED server
            \/ \E sent \in SUBSET j.entries :
                 /\ server' \in Servers /\ server'.active = server.active
                 /\ server'.recs = Wrapped(server.recs, sent, j.keys)
                 /\ \/ Rests(d)
                    \/ \E next \in PostJobs :
                         Becomes(d, next) /\ next.keys = j.keys /\ next.entries \subseteq j.entries
  <1> DEFINE j == job[d]
             left == {e[1] : e \in j.entries}
  <1>1. j \in PostJobs /\ j.at = "post" /\ UNCHANGED <<local, config, made, given>>
    BY PhaseTypes DEF RewrapPosts
  <1>2. CASE left = {}
    BY <1>1, <1>2 DEF RewrapPosts, Rests, Lasts
  <1>3. CASE left # {}
    <2>1. PICK part \in SUBSET left :
            LET sent == {e \in j.entries : e[1] \in part} IN
            \/ /\ server' = [server EXCEPT !.recs = Wrapped(@, sent, j.keys)]
               /\ Goes(d, [j EXCEPT !.entries = @ \ sent]) \/ Rests(d)
               /\ UNCHANGED late
            \/ Rests(d) /\ UNCHANGED <<server, late>>
      BY <1>3 DEF RewrapPosts, Refused, Answered, Unanswered, Rests, Lasts
    <2> DEFINE sent == {e \in j.entries : e[1] \in part}
               recs == Wrapped(server.recs, sent, j.keys)
               rest == j.entries \ sent
               next == [j EXCEPT !.entries = rest]
    <2>2. sent \in SUBSET j.entries /\ sent \in SUBSET (Slots \X Devices) /\ rest \in SUBSET (Slots \X Devices)
      BY <1>1 DEF PostJobs
    <2>3. recs \in Records
      BY <1>1, <2>2, WrappedIs DEF PostJobs, Typed, Servers
    <2>4. /\ server' = [server EXCEPT !.recs = Wrapped(@, sent, j.keys)] => server' = [server EXCEPT !.recs = recs]
          /\ [j EXCEPT !.entries = @ \ sent] = next
      BY <1>1 DEF PostJobs, Typed, Servers
    <2> HIDE DEF recs, rest
    <2>5. LET after == [server EXCEPT !.recs = recs] IN
          after \in Servers /\ after.active = server.active /\ after.recs = recs
      BY <2>3 DEF Typed, Servers
    <2>6. next \in PostJobs /\ next.keys = j.keys /\ next.entries = rest
      BY <1>1, <2>2 DEF PostJobs
    <2> HIDE DEF next, sent
    <2>7. Goes(d, next) => Becomes(d, next)
      BY <2>6 DEF Becomes, Jobs
    <2>8. CASE Rests(d) /\ UNCHANGED <<server, late>>
      BY <1>1, <2>8
    <2>9. CASE server' = [server EXCEPT !.recs = recs] /\ (Goes(d, next) \/ Rests(d)) /\ UNCHANGED late
      <3>1. rest \subseteq j.entries
        BY DEF rest
      <3> QED BY <1>1, <2>2, <2>5, <2>6, <2>7, <2>9, <3>1 DEF recs
    <2> QED BY <2>1, <2>4, <2>8, <2>9 DEF sent
  <1> QED BY <1>2, <1>3

LEMMA PushPlansGoes ==
  ASSUME Typed, NEW d \in Devices, PushPlans(d)
  PROVE  /\ UNCHANGED <<server, local, config, made, given, late>>
         /\ \/ \E next \in IdleJobs : Becomes(d, next)
            \/ \E next \in BatchJobs :
                 /\ Becomes(d, next) /\ next.key = server.active /\ next.active = server.active
                 /\ \A s \in next.uploads \cup next.rewraps : local[d][s] # None
                 /\ \A s \in next.rewraps : local[d][s] = server.recs[s].env
  <1> DEFINE mine == {s \in Slots : local[d][s] # None}
             there == mine \cap Present(server.recs)
             k == server.active
             conflict == \E s \in there : \/ Differs(d, s)
                                          \/ k # NoKey /\ server.recs[s].rec[k] = None
             uploads == mine \ there
             next == [at |-> "batch", cmd |-> "push", key |-> k, active |-> server.active, targets |-> server.trusted,
                      uploads |-> uploads, rewraps |-> there]
  <1>1. /\ UNCHANGED <<server, local, config, made, given, late>>
        /\ IF conflict THEN Goes(d, Idle("push", "conflict")) ELSE Goes(d, next)
    BY DEF PushPlans
  <1>2. CASE conflict
    <2>1. Idle("push", "conflict") \in IdleJobs
      BY DEF Idle, IdleJobs, Cmds, Lasts
    <2> QED BY <1>1, <1>2, <2>1 DEF Becomes, Jobs
  <1>3. CASE ~conflict
    <2>1. /\ uploads \in SUBSET Slots /\ there \in SUBSET Slots
          /\ \A s \in uploads \cup there : local[d][s] # None
      OBVIOUS
    <2>2. \A s \in there : local[d][s] = server.recs[s].env
      BY <1>3 DEF Differs
    <2> HIDE DEF mine, there, conflict, uploads
    <2>3. /\ next \in BatchJobs /\ next.key = server.active /\ next.active = server.active
          /\ next.uploads = uploads /\ next.rewraps = there
      BY <2>1 DEF BatchJobs, Typed, Servers
    <2> HIDE DEF next
    <2>4. Becomes(d, next)
      BY <1>1, <1>3, <2>3 DEF Becomes, Jobs
    <2> QED BY <1>1, <2>1, <2>2, <2>3, <2>4
  <1> QED BY <1>2, <1>3

LEMMA PushCommitsGoes ==
  ASSUME Typed, NEW d \in Devices, PushCommits(d)
  PROVE  LET j == job[d] IN
         /\ j \in BatchJobs /\ j.at = "batch" /\ UNCHANGED <<local, config, made, given>>
         /\ \/ Rests(d) /\ UNCHANGED <<server, late>>
            \/ /\ j.uploads \cap Present(server.recs) = {}
               /\ server' \in Servers /\ server'.active = server.active
               /\ server'.recs = Uploaded(d, j)
               /\ late' = IF j.active = server.active THEN late ELSE late \cup j.uploads
               /\ Rests(d) \/ \E next \in PushedJobs : Becomes(d, next)
  <1> DEFINE j == job[d]
             recs == Uploaded(d, j)
             next == [at |-> "pushed", cmd |-> "push", key |-> j.key]
  <1>1. j \in BatchJobs /\ j.at = "batch" /\ UNCHANGED <<local, config, made, given>>
    BY PhaseTypes DEF PushCommits
  <1>2. \/ /\ j.uploads \cap Present(server.recs) = {}
           /\ server' = [server EXCEPT !.recs = recs]
           /\ late' = IF j.active = server.active THEN late ELSE late \cup j.uploads
           /\ Goes(d, next) \/ Rests(d)
        \/ Rests(d) /\ UNCHANGED <<server, late>>
    BY DEF PushCommits, Refused, Answered, Unanswered, Rests, Lasts
  <1>3. recs \in Records
    BY <1>1, UploadedIs
  <1> HIDE DEF recs
  <1>4. LET after == [server EXCEPT !.recs = recs] IN
        after \in Servers /\ after.active = server.active /\ after.recs = recs
    BY <1>3 DEF Typed, Servers
  <1>5. next \in PushedJobs
    BY <1>1 DEF PushedJobs, BatchJobs
  <1> HIDE DEF next
  <1>6. Goes(d, next) => Becomes(d, next)
    BY <1>5 DEF Becomes, Jobs
  <1> QED BY <1>1, <1>2, <1>4, <1>5, <1>6 DEF recs

-----------------------------------------------------------------------------
(* The key the control plane wraps to was given to the user first.         *)

LEMMA RestsGoes ==
  ASSUME Typed, NEW d \in Devices, Rests(d)
  PROVE  \E next \in IdleJobs : Becomes(d, next)
  <1>1. PICK last \in Lasts : Goes(d, Idle(job[d].cmd, last))
    BY DEF Rests, Ends
  <1>2. job[d].cmd \in Cmds
    BY PhaseTypes
  <1>3. Idle(job[d].cmd, last) \in IdleJobs
    BY <1>2 DEF Idle, IdleJobs
  <1> QED BY <1>1, <1>3 DEF Becomes, Jobs

Calm(next) == next.at \notin {"deliver", "commit"}

\* A step that leaves d with nothing to give or to send.
LEMMA HeldCalm ==
  ASSUME HInv, NEW d \in Devices, Rests(d) \/ \E next \in Jobs : Goes(d, next) /\ Calm(next),
         server' \in Servers, local' \in [Devices -> [Slots -> Data]],
         config' \in [Devices -> Keys \cup {NoKey}], UNCHANGED <<made, given>>, late' \subseteq Slots,
         server'.active # NoKey => server'.active \in given
  PROVE  HInv'
  <1>1. \E next \in Jobs : Goes(d, next) /\ Calm(next)
    BY RestsGoes DEF HInv, Becomes, IdleJobs, Calm
  <1>2. PICK next \in Jobs : Goes(d, next) /\ Calm(next)
    BY <1>1
  <1>3. made' \in 0 .. MaxKeys /\ made <= made' /\ given \subseteq given' /\ given' \subseteq 1 .. made'
    BY DEF HInv, Typed
  <1>4. (next.at = "deliver" => next.key <= made') /\ (next.at = "commit" => next.key \in given')
    BY <1>2 DEF Calm
  <1> QED BY <1>2, <1>3, <1>4, HeldStep

LEMMA HeldLocal ==
  ASSUME HInv, NEW d \in Devices, Rests(d) \/ \E next \in Jobs : Goes(d, next) /\ Calm(next),
         UNCHANGED <<server, made, given, late>>, local' \in [Devices -> [Slots -> Data]],
         config' \in [Devices -> Keys \cup {NoKey}]
  PROVE  HInv'
  <1>1. server' \in Servers /\ late' \subseteq Slots /\ (server'.active # NoKey => server'.active \in given)
    BY DEF HInv, Typed, ActiveKeyIsHeld
  <1> QED BY <1>1, HeldCalm

\* A step between commands.
LEMMA HeldStill ==
  ASSUME HInv, UNCHANGED <<config, job, made, given, late>>, server' \in Servers,
         server'.active = server.active, local' \in [Devices -> [Slots -> Data]]
  PROVE  HInv'
  <1>1. Typed' /\ ActiveKeyIsHeld'
    BY DEF HInv, Typed, ActiveKeyIsHeld
  <1>2. \A d \in Devices : KeyHeld(d)'
    BY DEF HInv, KeyHeld
  <1> QED BY <1>1, <1>2 DEF HInv

LEMMA SavesGoes ==
  ASSUME Typed, NEW d \in Devices, NEW key \in Keys \cup {NoKey}, Saves(d, key)
  PROVE  Rests(d) /\ config' \in [Devices -> Keys \cup {NoKey}]
  BY DEF Saves, Rests, Lasts, Typed

LEMMA SimpleGoes ==
  ASSUME Typed, NEW d \in Devices, SetupSaves(d) \/ RestoreSaves(d) \/ PushSaves(d) \/ Status(d) \/ Kill(d)
  PROVE  /\ UNCHANGED <<server, local, made, given, late>>
         /\ config' \in [Devices -> Keys \cup {NoKey}]
         /\ \E next \in IdleJobs : Becomes(d, next)
  <1>1. CASE SetupSaves(d)
    <2>1. job[d].key \in Keys
      BY <1>1, PhaseTypes DEF SetupSaves, SavedJobs
    <2> QED BY <1>1, <2>1, SavesGoes, RestsGoes DEF SetupSaves
  <1>2. CASE RestoreSaves(d)
    <2>1. job[d].key \in Keys
      BY <1>2, PhaseTypes DEF RestoreSaves, RestoreJobs
    <2> QED BY <1>2, <2>1, SavesGoes, RestsGoes DEF RestoreSaves
  <1>3. CASE PushSaves(d)
    <2>1. job[d].key \in Keys \cup {NoKey}
      BY <1>3, PhaseTypes DEF PushSaves, PushedJobs
    <2> QED BY <1>3, <2>1, SavesGoes, RestsGoes DEF PushSaves
  <1>4. CASE Status(d)
    <2>1. Idle("status", "ok") \in IdleJobs
      BY DEF Idle, IdleJobs, Cmds, Lasts
    <2>2. config' \in [Devices -> Keys \cup {NoKey}]
      BY <1>4 DEF Status, Typed, Servers
    <2> QED BY <1>4, <2>1, <2>2 DEF Status, Becomes, Jobs
  <1>5. CASE Kill(d)
    <2>1. Rests(d)
      BY <1>5 DEF Kill, Rests, Lasts
    <2> QED BY <1>5, <2>1, RestsGoes DEF Kill, Typed
  <1> QED BY <1>1, <1>2, <1>3, <1>4, <1>5

LEMMA PullGoes ==
  ASSUME Typed, NEW d \in Devices, Pull(d)
  PROVE  /\ UNCHANGED <<server, config, made, given, late>>
         /\ \E next \in IdleJobs : Becomes(d, next)
         /\ \/ UNCHANGED local
            \/ /\ local' \in [Devices -> [Slots -> Data]]
               /\ \A e \in Devices \ {d} : local'[e] = local[e]
               /\ \A s \in Slots : local'[d][s] \in {local[d][s], server.recs[s].env}
  <1> DEFINE opened == {s \in Slots : server.recs[s].env # None /\ server.recs[s].dev[d] = server.recs[s].env}
             held == [s \in Slots |-> IF s \in opened THEN server.recs[s].env ELSE local[d][s]]
  <1>1. /\ UNCHANGED <<server, config, made, given, late>>
        /\ \/ /\ local' = [local EXCEPT ![d] = [s \in Slots |-> IF s \in opened THEN server.recs[s].env ELSE @[s]]]
              /\ Goes(d, Idle("pull", "ok"))
           \/ UNCHANGED local /\ Goes(d, Idle("pull", "conflict"))
    BY DEF Pull
  <1>2. held \in [Slots -> Data] /\ \A s \in Slots : held[s] \in {local[d][s], server.recs[s].env}
    BY DEF Typed, Servers, Records, Record
  <1>3. local' = [local EXCEPT ![d] = [s \in Slots |-> IF s \in opened THEN server.recs[s].env ELSE @[s]]]
           => local' = [local EXCEPT ![d] = held]
    BY DEF Typed
  <1> HIDE DEF held, opened
  <1>4. local' = [local EXCEPT ![d] = held] =>
          /\ local' \in [Devices -> [Slots -> Data]]
          /\ \A e \in Devices \ {d} : local'[e] = local[e]
          /\ local'[d] = held
    BY <1>2 DEF Typed
  <1>5. Idle("pull", "ok") \in IdleJobs /\ Idle("pull", "conflict") \in IdleJobs
    BY DEF Idle, IdleJobs, Cmds, Lasts
  <1>6. \E next \in IdleJobs : Becomes(d, next)
    BY <1>1, <1>5 DEF Becomes, Jobs
  <1> QED BY <1>1, <1>2, <1>3, <1>4, <1>6

LEMMA CalmJobs ==
  ASSUME NEW d \in Devices,
         \E next \in IdleJobs \cup CheckJobs \cup ListJobs \cup SavedJobs \cup RestoreJobs
                     \cup TargetJobs \cup PostJobs \cup BatchJobs \cup PushedJobs : Goes(d, next)
  PROVE  \E next \in Jobs : Goes(d, next) /\ Calm(next)
  <1>1. PICK next \in IdleJobs \cup CheckJobs \cup ListJobs \cup SavedJobs \cup RestoreJobs
                      \cup TargetJobs \cup PostJobs \cup BatchJobs \cup PushedJobs : Goes(d, next)
    OBVIOUS
  <1>2. next.at # "deliver" /\ next.at # "commit"
    BY DEF IdleJobs, CheckJobs, ListJobs, SavedJobs, RestoreJobs, TargetJobs, PostJobs, BatchJobs, PushedJobs
  <1> QED BY <1>1, <1>2 DEF Jobs, SetupJobs, Calm

LEMMA HeldSetup ==
  ASSUME HInv, NEW d \in Devices,
         \/ \E force \in BOOLEAN : SetupCheck(d, force)
         \/ SetupListsEncrypted(d) \/ SetupPrepares(d) \/ SetupDelivers(d) \/ SetupCommits(d)
  PROVE  HInv'
  <1> USE DEF HInv
  <1>1. ASSUME NEW force \in BOOLEAN, SetupCheck(d, force)
        PROVE  HInv'
    <2>1. \E next \in Jobs : Goes(d, next) /\ Calm(next)
      BY <1>1, SetupCheckGoes DEF Calm
    <2>2. UNCHANGED <<server, local, config, made, given, late>>
      BY <1>1, SetupCheckGoes
    <2>3. local' \in [Devices -> [Slots -> Data]] /\ config' \in [Devices -> Keys \cup {NoKey}]
      BY <2>2 DEF Typed
    <2> HIDE DEF HInv
    <2> QED BY <2>1, <2>2, <2>3, HeldLocal
  <1>2. CASE SetupListsEncrypted(d)
    <2>1. UNCHANGED <<server, local, config, made, given, late>> /\ \E next \in ListJobs : Goes(d, next)
      BY <1>2, SetupListsGoes DEF Becomes
    <2>2. \E next \in Jobs : Goes(d, next) /\ Calm(next)
      BY <2>1, CalmJobs
    <2>3. local' \in [Devices -> [Slots -> Data]] /\ config' \in [Devices -> Keys \cup {NoKey}]
      BY <2>1 DEF Typed
    <2> HIDE DEF HInv
    <2> QED BY <2>1, <2>2, <2>3, HeldLocal
  <1>3. CASE SetupPrepares(d)
    <2>1. UNCHANGED <<server, local, config, given, late>>
      BY <1>3, SetupPreparesGoes
    <2>2. /\ server' \in Servers /\ local' \in [Devices -> [Slots -> Data]]
          /\ config' \in [Devices -> Keys \cup {NoKey}] /\ late' \subseteq Slots
          /\ server'.active # NoKey => server'.active \in given'
      BY <2>1 DEF Typed, ActiveKeyIsHeld
    <2>3. CASE Rests(d) /\ UNCHANGED made
      <3>1. UNCHANGED <<made, given>> /\ (server'.active # NoKey => server'.active \in given)
        BY <2>1, <2>2, <2>3
      <3> HIDE DEF HInv
      <3> QED BY <2>2, <2>3, <3>1, HeldCalm
    <2>4. CASE /\ made' = made + 1 /\ made' \in 0 .. MaxKeys
               /\ \E next \in KeyJobs : Becomes(d, next) /\ next.at = "deliver" /\ next.key = made'
      <3>1. PICK next \in KeyJobs : Becomes(d, next) /\ next.at = "deliver" /\ next.key = made'
        BY <2>4
      <3>2. made <= made' /\ given \subseteq given' /\ given' \subseteq 1 .. made'
        BY <2>1, <2>4 DEF Typed
      <3>3. next.key <= made'
        BY <2>4, <3>1
      <3>4. next \in Jobs /\ Goes(d, next)
        BY <3>1 DEF Becomes
      <3> HIDE DEF HInv
      <3> QED BY <2>2, <2>4, <3>1, <3>2, <3>3, <3>4, HeldStep
    <2>5. Ends(d, "refused") => Rests(d)
      BY DEF Rests, Lasts
    <2> QED BY <1>3, <2>3, <2>4, <2>5, SetupPreparesGoes
  <1>4. CASE SetupDelivers(d)
    <2>1. job[d] \in KeyJobs /\ job[d].at = "deliver" /\ UNCHANGED <<server, local, config, made, late>>
      BY <1>4, SetupDeliversGoes
    <2>2. job[d].key \in 1 .. made
      BY <2>1 DEF KeyHeld, KeyJobs, Keys, Typed
    <2>3. CASE Rests(d) /\ UNCHANGED given
      <3>1. local' \in [Devices -> [Slots -> Data]] /\ config' \in [Devices -> Keys \cup {NoKey}]
        BY <2>1 DEF Typed
      <3> HIDE DEF HInv
      <3> QED BY <2>1, <2>3, <3>1, HeldLocal
    <2>4. CASE /\ given' = given \cup {job[d].key}
               /\ \E next \in KeyJobs : Becomes(d, next) /\ next.at = "commit" /\ next.key = job[d].key
      <3>1. PICK next \in KeyJobs : Becomes(d, next) /\ next.at = "commit" /\ next.key = job[d].key
        BY <2>4
      <3>2. /\ server' \in Servers /\ local' \in [Devices -> [Slots -> Data]]
            /\ config' \in [Devices -> Keys \cup {NoKey}] /\ late' \subseteq Slots
            /\ made' \in 0 .. MaxKeys /\ made <= made'
        BY <2>1 DEF Typed
      <3>3. given \subseteq given' /\ given' \subseteq 1 .. made' /\ next.key \in given'
        BY <2>1, <2>2, <2>4, <3>1 DEF Typed
      <3>4. server'.active # NoKey => server'.active \in given'
        BY <2>1, <3>3 DEF ActiveKeyIsHeld
      <3>5. next \in Jobs /\ Goes(d, next)
        BY <3>1 DEF Becomes
      <3> HIDE DEF HInv
      <3> QED BY <3>1, <3>2, <3>3, <3>4, <3>5, HeldStep
    <2> QED BY <1>4, <2>3, <2>4, SetupDeliversGoes
  <1>5. CASE SetupCommits(d)
    <2>1. job[d] \in KeyJobs /\ job[d].at = "commit" /\ UNCHANGED <<local, config, made, given>>
      BY <1>5, SetupCommitsGoes
    <2>2. local' \in [Devices -> [Slots -> Data]] /\ config' \in [Devices -> Keys \cup {NoKey}]
      BY <2>1 DEF Typed
    <2>3. job[d].key \in given
      BY <2>1 DEF KeyHeld
    <2>4. Rests(d) \/ \E next \in Jobs : Goes(d, next) /\ Calm(next)
      <3>1. Rests(d) \/ \E next \in SavedJobs : Goes(d, next)
        BY <1>5, SetupCommitsGoes DEF Becomes
      <3> QED BY <3>1, CalmJobs
    <2>5. /\ server' \in Servers /\ late' \subseteq Slots
          /\ server'.active # NoKey => server'.active \in given
      BY <1>5, <2>3, SetupCommitsGoes DEF Typed, ActiveKeyIsHeld, Present
    <2> HIDE DEF HInv
    <2> QED BY <2>1, <2>2, <2>4, <2>5, HeldCalm
  <1> QED BY <1>1, <1>2, <1>3, <1>4, <1>5

LEMMA HeldRestore ==
  ASSUME HInv, NEW d \in Devices,
         \/ \E k \in Keys, force \in BOOLEAN : RestoreLists(d, k, force)
         \/ RestoreImports(d) \/ RestoreRegisters(d)
  PROVE  HInv'
  <1> USE DEF HInv
  <1>1. ASSUME NEW k \in Keys, NEW force \in BOOLEAN, RestoreLists(d, k, force)
        PROVE  HInv'
    <2>1. UNCHANGED <<server, local, config, made, given, late>> /\ \E next \in RestoreJobs : Goes(d, next)
      BY <1>1, RestoreListsGoes DEF Becomes
    <2>2. \E next \in Jobs : Goes(d, next) /\ Calm(next)
      BY <2>1, CalmJobs
    <2>3. local' \in [Devices -> [Slots -> Data]] /\ config' \in [Devices -> Keys \cup {NoKey}]
      BY <2>1 DEF Typed
    <2> HIDE DEF HInv
    <2> QED BY <2>1, <2>2, <2>3, HeldLocal
  <1>2. CASE RestoreImports(d)
    <2>1. /\ UNCHANGED <<server, config, made, given, late>>
          /\ Rests(d) \/ \E next \in RestoreJobs : Goes(d, next)
      BY <1>2, RestoreImportsGoes DEF Becomes
    <2>2. Rests(d) \/ \E next \in Jobs : Goes(d, next) /\ Calm(next)
      BY <2>1, CalmJobs
    <2>3. local' \in [Devices -> [Slots -> Data]] /\ config' \in [Devices -> Keys \cup {NoKey}]
      BY <1>2, <2>1, RestoreImportsGoes DEF Typed
    <2> HIDE DEF HInv
    <2> QED BY <2>1, <2>2, <2>3, HeldLocal
  <1>3. CASE RestoreRegisters(d)
    <2>1. /\ UNCHANGED <<local, config, made, given, late>>
          /\ Rests(d) \/ \E next \in RestoreJobs : Goes(d, next)
      BY <1>3, RestoreRegistersGoes DEF Becomes
    <2>2. Rests(d) \/ \E next \in Jobs : Goes(d, next) /\ Calm(next)
      BY <2>1, CalmJobs
    <2>3. /\ local' \in [Devices -> [Slots -> Data]] /\ config' \in [Devices -> Keys \cup {NoKey}]
          /\ late' \subseteq Slots
      BY <2>1 DEF Typed
    <2>4. server' \in Servers /\ server'.active = server.active
      BY <1>3, RestoreRegistersGoes DEF Typed
    <2>5. server'.active # NoKey => server'.active \in given
      BY <2>4 DEF ActiveKeyIsHeld
    <2> HIDE DEF HInv
    <2> QED BY <2>1, <2>2, <2>3, <2>4, <2>5, HeldCalm
  <1> QED BY <1>1, <1>2, <1>3

LEMMA HeldRewrap ==
  ASSUME HInv, NEW d \in Devices, RewrapLists(d) \/ RewrapPlans(d) \/ RewrapPosts(d)
  PROVE  HInv'
  <1> USE DEF HInv
  <1>1. CASE RewrapLists(d) \/ RewrapPlans(d)
    <2>1. /\ UNCHANGED <<server, local, config, made, given, late>>
          /\ \E next \in TargetJobs \cup PostJobs : Goes(d, next)
      BY <1>1, RewrapListsGoes, RewrapPlansGoes DEF Becomes
    <2>2. \E next \in Jobs : Goes(d, next) /\ Calm(next)
      BY <2>1, CalmJobs
    <2>3. local' \in [Devices -> [Slots -> Data]] /\ config' \in [Devices -> Keys \cup {NoKey}]
      BY <2>1 DEF Typed
    <2> HIDE DEF HInv
    <2> QED BY <2>1, <2>2, <2>3, HeldLocal
  <1>2. CASE RewrapPosts(d)
    <2>1. /\ UNCHANGED <<local, config, made, given, late>>
          /\ Rests(d) \/ \E next \in PostJobs : Goes(d, next)
      BY <1>2, RewrapPostsGoes DEF Becomes
    <2>2. Rests(d) \/ \E next \in Jobs : Goes(d, next) /\ Calm(next)
      BY <2>1, CalmJobs
    <2>3. /\ local' \in [Devices -> [Slots -> Data]] /\ config' \in [Devices -> Keys \cup {NoKey}]
          /\ late' \subseteq Slots
      BY <2>1 DEF Typed
    <2>4. server' \in Servers /\ server'.active = server.active
      BY <1>2, RewrapPostsGoes DEF Typed
    <2>5. server'.active # NoKey => server'.active \in given
      BY <2>4 DEF ActiveKeyIsHeld
    <2> HIDE DEF HInv
    <2> QED BY <2>1, <2>2, <2>3, <2>4, <2>5, HeldCalm
  <1> QED BY <1>1, <1>2

LEMMA HeldPush ==
  ASSUME HInv, NEW d \in Devices, PushPlans(d) \/ PushCommits(d) \/ Pull(d)
  PROVE  HInv'
  <1> USE DEF HInv
  <1>1. CASE PushPlans(d)
    <2>1. /\ UNCHANGED <<server, local, config, made, given, late>>
          /\ \E next \in IdleJobs \cup BatchJobs : Goes(d, next)
      BY <1>1, PushPlansGoes DEF Becomes
    <2>2. \E next \in Jobs : Goes(d, next) /\ Calm(next)
      BY <2>1, CalmJobs
    <2>3. local' \in [Devices -> [Slots -> Data]] /\ config' \in [Devices -> Keys \cup {NoKey}]
      BY <2>1 DEF Typed
    <2> HIDE DEF HInv
    <2> QED BY <2>1, <2>2, <2>3, HeldLocal
  <1>2. CASE PushCommits(d)
    <2>1. /\ UNCHANGED <<local, config, made, given>>
          /\ Rests(d) \/ \E next \in PushedJobs : Goes(d, next)
      BY <1>2, PushCommitsGoes DEF Becomes
    <2>2. Rests(d) \/ \E next \in Jobs : Goes(d, next) /\ Calm(next)
      BY <2>1, CalmJobs
    <2>3. local' \in [Devices -> [Slots -> Data]] /\ config' \in [Devices -> Keys \cup {NoKey}]
      BY <2>1 DEF Typed
    <2>4. job[d] \in BatchJobs
      BY <1>2, PushCommitsGoes
    <2>5. server' \in Servers /\ server'.active = server.active /\ late' \subseteq Slots
      BY <1>2, <2>4, PushCommitsGoes DEF Typed, BatchJobs
    <2>6. server'.active # NoKey => server'.active \in given
      BY <2>5 DEF ActiveKeyIsHeld
    <2> HIDE DEF HInv
    <2> QED BY <2>1, <2>2, <2>3, <2>5, <2>6, HeldCalm
  <1>3. CASE Pull(d)
    <2>1. UNCHANGED <<server, config, made, given, late>> /\ \E next \in IdleJobs : Goes(d, next)
      BY <1>3, PullGoes DEF Becomes
    <2>2. \E next \in Jobs : Goes(d, next) /\ Calm(next)
      BY <2>1, CalmJobs
    <2>3. local' \in [Devices -> [Slots -> Data]] /\ config' \in [Devices -> Keys \cup {NoKey}]
      BY <1>3, <2>1, PullGoes DEF Typed
    <2> HIDE DEF HInv
    <2> QED BY <2>1, <2>2, <2>3, HeldLocal
  <1> QED BY <1>1, <1>2, <1>3

LEMMA CreatesIs ==
  ASSUME Typed, NEW d \in Devices, NEW s \in Slots, Creates(d, s)
  PROVE  /\ UNCHANGED <<server, config, job, made, given, late>>
         /\ ~Busy(d) /\ local[d][s] = None
         /\ "diverge" \notin Environment => server.recs[s].env = None /\ \A e \in Devices : local[e][s] = None
         /\ local' \in [Devices -> [Slots -> Data]]
         /\ \A e \in Devices : \A x \in Slots : local'[e][x] = IF e = d /\ x = s THEN d ELSE local[e][x]
  <1> DEFINE held == [local[d] EXCEPT ![s] = d]
  <1>1. local' = [local EXCEPT ![d] = held]
    BY DEF Creates, Typed
  <1>2. held \in [Slots -> Data] /\ \A x \in Slots : held[x] = IF x = s THEN d ELSE local[d][x]
    BY DEF Typed, Data
  <1> HIDE DEF held
  <1>3. local' \in [Devices -> [Slots -> Data]] /\ \A e \in Devices : local'[e] = IF e = d THEN held ELSE local[e]
    BY <1>1, <1>2 DEF Typed
  <1> QED BY <1>2, <1>3 DEF Creates

LEMMA TrustIs ==
  ASSUME Typed, NEW d \in Devices, Trust(d)
  PROVE  /\ UNCHANGED <<local, config, job, made, given, late>>
         /\ server' \in Servers /\ server'.active = server.active /\ server'.recs = server.recs
  BY DEF Trust, Typed, Servers

LEMMA HeldNext ==
  ASSUME HInv, [Next]_vars
  PROVE  HInv'
  <1>1. Typed
    BY DEF HInv
  <1>2. CASE UNCHANGED vars
    BY <1>1, <1>2, HeldStill DEF vars, Typed
  <1>3. ASSUME NEW d \in Devices, SetupSaves(d) \/ RestoreSaves(d) \/ PushSaves(d) \/ Status(d) \/ Kill(d)
        PROVE  HInv'
    <2>1. /\ UNCHANGED <<server, local, made, given, late>> /\ config' \in [Devices -> Keys \cup {NoKey}]
          /\ \E next \in IdleJobs : Goes(d, next)
      BY <1>1, <1>3, SimpleGoes DEF Becomes
    <2>2. \E next \in Jobs : Goes(d, next) /\ Calm(next)
      BY <2>1, CalmJobs
    <2>3. local' \in [Devices -> [Slots -> Data]]
      BY <1>1, <2>1 DEF Typed
    <2> QED BY <2>1, <2>2, <2>3, HeldLocal
  <1>4. ASSUME NEW d \in Devices, Step(d)
        PROVE  HInv'
    BY <1>3, <1>4, HeldSetup, HeldRestore, HeldRewrap, HeldPush DEF Step
  <1>5. ASSUME NEW d \in Devices, Trust(d)
        PROVE  HInv'
    BY <1>1, <1>5, TrustIs, HeldStill DEF Typed
  <1>6. ASSUME NEW d \in Devices, NEW s \in Slots, Creates(d, s)
        PROVE  HInv'
    BY <1>1, <1>6, CreatesIs, HeldStill DEF Typed
  <1> QED BY <1>2, <1>3, <1>4, <1>5, <1>6 DEF Next

LEMMA HeldInit ==
  ASSUME Init
  PROVE  HInv
  <1>1. NoRecord \in Record
    BY DEF NoRecord, Record, Data
  <1>2. server \in Servers
    BY <1>1, RecoveryAssumption DEF Init, Servers, Records
  <1>3. Idle("none", "ok") \in Jobs /\ Idle("none", "ok").at = "idle"
    BY IdleTyped DEF Cmds, Lasts
  <1>4. job \in [Devices -> Jobs] /\ \A d \in Devices : job[d].at = "idle"
    BY <1>3 DEF Init
  <1>5. Typed
    BY <1>2, <1>4, RecoveryAssumption DEF Init, Typed, NoneHeld, Data
  <1>6. ActiveKeyIsHeld /\ \A d \in Devices : KeyHeld(d)
    BY <1>4 DEF Init, ActiveKeyIsHeld, KeyHeld, NoKey
  <1> QED BY <1>5, <1>6 DEF HInv

\* The control plane wraps new versions to no recovery key that the user was not
\* given first, whatever fails or is killed (recovery setup writes the key
\* before it sends the recipient).
THEOREM RecoveryKeyIsHeld ==
  Spec => [](TypeOK /\ ActiveKeyIsHeld)
  <1>1. Init => HInv
    BY HeldInit
  <1>2. HInv /\ [Next]_vars => HInv'
    BY HeldNext
  <1>3. HInv => TypeOK /\ ActiveKeyIsHeld
    BY DEF HInv, Typed, TypeOK, Servers, Records, Record, Data
  <1> QED BY <1>1, <1>2, <1>3, PTL DEF Spec

-----------------------------------------------------------------------------
(* A wrapped key opens its version.                                        *)

\* Versions and wrapped keys are added, and stay as they are.
Extends(recs, next) ==
    \A s \in Slots :
        /\ recs[s].env # None => next[s].env = recs[s].env
        /\ \A t \in Devices : recs[s].dev[t] # None => next[s].dev[t] = recs[s].dev[t]

\* What a command relies on stays so as others run.
LEMMA ReliedStays ==
  ASSUME NEW d \in Devices, Typed, Relied(d), job'[d] = job[d], local'[d] = local[d],
         Extends(server.recs, server'.recs)
  PROVE  Relied(d)'
  <1> DEFINE j == job[d]
  <1>1. \A s \in Slots : \A key : OpensOrNone(key, server.recs[s]) => OpensOrNone(key, server'.recs[s])
    BY DEF OpensOrNone, Extends
  <1>2. \A s \in Slots : server.recs[s].env # None => server'.recs[s].env = server.recs[s].env
    BY DEF Extends
  <1>3. \A recs : Listing(recs) => Listing(recs)'
    BY <1>1 DEF Listing
  <1>4. j.at = "metadata" => \A s \in Slots : OpensOrNone(j.opens[s], server'.recs[s])
    BY <1>1 DEF Relied
  <1>5. j.at \in {"deliver", "commit"} =>
          /\ \A s \in Slots : j.keys[s] = IF s \in j.listed THEN server'.recs[s].env ELSE None
          /\ j.listed \subseteq Present(server'.recs)
    BY <1>2 DEF Relied, Present
  <1>6. j.at \in {"import", "register", "identity"} => Restoring(d)'
    <2>1. SUFFICES ASSUME Restoring(d)
                   PROVE  Restoring(d)'
      BY DEF Relied
    <2>2. Listing(j.recs)'
      BY <1>3, <2>1 DEF Restoring
    <2>3. \A s \in Slots : j.recs[s].dev[d] # None => server'.recs[s].dev[d] = j.recs[s].dev[d]
      BY <2>1 DEF Restoring, Extends
    <2>4. (Imported(d) => Imported(d)') /\ (Registered(d) => Registered(d)')
      BY DEF Imported, Registered
    <2> QED BY <2>1, <2>2, <2>3, <2>4 DEF Restoring
  <1>7. j.at = "targets" => Listing(j.recs)'
    BY <1>3 DEF Relied
  <1>8. j.at = "post" => \A e \in j.entries : j.keys[e[1]] # None /\ j.keys[e[1]] = server'.recs[e[1]].env
    <2> SUFFICES ASSUME j.at = "post", NEW e \in j.entries
                 PROVE  j.keys[e[1]] # None /\ j.keys[e[1]] = server'.recs[e[1]].env
      OBVIOUS
    <2>1. e[1] \in Slots
      BY PhaseTypes DEF PostJobs
    <2> QED BY <1>2, <2>1 DEF Relied
  <1>9. j.at = "batch" => /\ j.key = j.active
                          /\ \A s \in j.uploads \cup j.rewraps : local'[d][s] # None
                          /\ \A s \in j.rewraps : local'[d][s] = server'.recs[s].env
    <2> SUFFICES ASSUME j.at = "batch"
                 PROVE  /\ j.key = j.active
                        /\ \A s \in j.uploads \cup j.rewraps : local'[d][s] # None
                        /\ \A s \in j.rewraps : local'[d][s] = server'.recs[s].env
      OBVIOUS
    <2>1. j.rewraps \subseteq Slots
      BY PhaseTypes DEF BatchJobs
    <2> QED BY <1>2, <2>1 DEF Relied
  <1> QED BY <1>4, <1>5, <1>6, <1>7, <1>8, <1>9 DEF Relied

LEMMA ReliedIdle ==
  ASSUME NEW d \in Devices,
         job'[d].at \notin {"metadata", "deliver", "commit", "import", "register", "identity", "targets", "post", "batch"}
  PROVE  Relied(d)'
  BY DEF Relied

LEMMA GoesIs ==
  ASSUME Typed, NEW d \in Devices, NEW next, Goes(d, next)
  PROVE  job'[d] = next /\ \A e \in Devices \ {d} : job'[e] = job[e]
  BY DEF Typed, Goes

LEMMA RestsRelied ==
  ASSUME Typed, NEW d \in Devices, Rests(d)
  PROVE  Relied(d)' /\ \A e \in Devices \ {d} : job'[e] = job[e]
  <1>1. PICK next \in IdleJobs : Goes(d, next)
    BY RestsGoes DEF Becomes
  <1>2. job'[d] = next /\ next.at = "idle" /\ \A e \in Devices \ {d} : job'[e] = job[e]
    BY <1>1, GoesIs DEF IdleJobs
  <1> QED BY <1>2, ReliedIdle

LEMMA IStep ==
  ASSUME IInv, HInv', NEW d \in Devices, Relied(d)',
         \A e \in Devices \ {d} : job'[e] = job[e] /\ local'[e] = local[e],
         Extends(server.recs, server'.recs),
         \A s \in Slots : RecordSound(server'.recs[s]), OneOrigin', ActiveKeyOpens'
  PROVE  IInv'
  <1>1. \A e \in Devices : Relied(e)'
    BY ReliedStays DEF IInv, HInv
  <1> QED BY <1>1 DEF IInv

\* A step that leaves versions, their keys and the late ones alone.
LEMMA IQuiet ==
  ASSUME IInv, HInv', NEW d \in Devices, Relied(d)', UNCHANGED <<server, local, late>>,
         \A e \in Devices \ {d} : job'[e] = job[e]
  PROVE  IInv'
  <1>1. Extends(server.recs, server'.recs) /\ \A s \in Slots : RecordSound(server'.recs[s])
    BY DEF IInv, Extends
  <1>2. OneOrigin' /\ ActiveKeyOpens'
    BY DEF IInv, OneOrigin, ActiveKeyOpens
  <1> QED BY <1>1, <1>2, IStep

LEMMA IQuietIdle ==
  ASSUME IInv, HInv', NEW d \in Devices, UNCHANGED <<server, local, late>>,
         Rests(d) \/ \E next \in IdleJobs \cup CheckJobs \cup SavedJobs \cup PushedJobs : Goes(d, next)
  PROVE  IInv'
  <1>1. Relied(d)' /\ \A e \in Devices \ {d} : job'[e] = job[e]
    <2>1. CASE Rests(d)
      BY <2>1, RestsRelied DEF IInv, HInv
    <2>2. ASSUME NEW next \in IdleJobs \cup CheckJobs \cup SavedJobs \cup PushedJobs, Goes(d, next)
          PROVE  Relied(d)' /\ \A e \in Devices \ {d} : job'[e] = job[e]
      <3>1. job'[d] = next /\ \A e \in Devices \ {d} : job'[e] = job[e]
        BY <2>2, GoesIs DEF IInv, HInv
      <3>2. next.at \in {"idle", "encrypted", "commitLocal", "pushed"}
        BY DEF IdleJobs, CheckJobs, SavedJobs, PushedJobs
      <3> QED BY <3>1, <3>2, ReliedIdle
    <2> QED BY <2>1, <2>2
  <1> QED BY <1>1, IQuiet

\* The key d uses for a version, if it has one, is the one that opens it.
LEMMA KeyForOpens ==
  ASSUME IInv, Agreed, NEW d \in Devices, NEW opens \in [Slots -> Data], Matching(d, opens),
         \A s \in Slots : OpensOrNone(opens[s], server.recs[s])
  PROVE  \A s \in Present(server.recs) : KeyFor(d, opens, s) \in {None, server.recs[s].env}
  <1>1. CASE "matching" \in Environment
    BY <1>1 DEF Matching
  <1>2. CASE "diverge" \notin Environment
    BY <1>2 DEF IInv, OneOrigin, OpensOrNone, KeyFor, LocalKey, Present
  <1> QED BY <1>1, <1>2 DEF Agreed

LEMMA ISetupLists ==
  ASSUME IInv, HInv', NEW d \in Devices, SetupListsEncrypted(d)
  PROVE  IInv'
  <1>1. Typed
    BY DEF IInv, HInv
  <1>2. PICK next \in ListJobs : Goes(d, next) /\ \A s \in Slots : next.opens[s] = server.recs[s].dev[d]
    BY <1>1, SetupListsGoes DEF Becomes
  <1>3. UNCHANGED <<server, local, late>>
    BY <1>1, SetupListsGoes
  <1>4. job'[d] = next /\ next.at = "metadata" /\ \A e \in Devices \ {d} : job'[e] = job[e]
    BY <1>1, <1>2, GoesIs DEF ListJobs
  <1>5. \A s \in Slots : OpensOrNone(next.opens[s], server'.recs[s])
    BY <1>2, <1>3 DEF IInv, RecordSound
  <1>6. Relied(d)'
    BY <1>4, <1>5 DEF Relied
  <1> QED BY <1>3, <1>4, <1>6, IQuiet

LEMMA ISetupPrepares ==
  ASSUME IInv, Agreed, HInv', NEW d \in Devices, SetupPrepares(d)
  PROVE  IInv'
  <1>1. Typed
    BY DEF IInv, HInv
  <1>2. /\ job[d] \in ListJobs /\ job[d].at = "metadata" /\ job[d].opens \in [Slots -> Data]
        /\ Matching(d, job[d].opens) /\ UNCHANGED <<server, local, late>>
    BY <1>1, SetupPreparesGoes DEF ListJobs
  <1>3. CASE Ends(d, "refused")
    BY <1>2, <1>3, IQuietIdle DEF Rests, Lasts
  <1>4. CASE \E next \in KeyJobs :
               /\ Goes(d, next) /\ next.at = "deliver" /\ next.listed = Present(server.recs)
               /\ \A s \in next.listed : next.keys[s] = KeyFor(d, job[d].opens, s) /\ next.keys[s] # None
               /\ \A s \in Slots \ next.listed : next.keys[s] = None
    <2>1. PICK next \in KeyJobs :
               /\ Goes(d, next) /\ next.at = "deliver" /\ next.listed = Present(server.recs)
               /\ \A s \in next.listed : next.keys[s] = KeyFor(d, job[d].opens, s) /\ next.keys[s] # None
               /\ \A s \in Slots \ next.listed : next.keys[s] = None
      BY <1>4
    <2>2. job'[d] = next /\ \A e \in Devices \ {d} : job'[e] = job[e]
      BY <1>1, <2>1, GoesIs
    <2>3. \A s \in Slots : OpensOrNone(job[d].opens[s], server.recs[s])
      BY <1>2 DEF IInv, Relied
    <2>4. \A s \in Present(server.recs) : KeyFor(d, job[d].opens, s) \in {None, server.recs[s].env}
      BY <1>2, <2>3, KeyForOpens
    <2>5. \A s \in Slots : next.keys[s] = IF s \in next.listed THEN server.recs[s].env ELSE None
      BY <2>1, <2>4
    <2>6. Relied(d)'
      BY <1>2, <2>1, <2>2, <2>5 DEF Relied
    <2> QED BY <1>2, <2>2, <2>6, IQuiet
  <1> QED BY <1>1, <1>3, <1>4, SetupPreparesGoes DEF Becomes

LEMMA ISetupDelivers ==
  ASSUME IInv, HInv', NEW d \in Devices, SetupDelivers(d)
  PROVE  IInv'
  <1>1. Typed
    BY DEF IInv, HInv
  <1>2. job[d].at = "deliver" /\ UNCHANGED <<server, local, late>>
    BY <1>1, SetupDeliversGoes
  <1>3. CASE Rests(d)
    BY <1>2, <1>3, IQuietIdle
  <1>4. ASSUME NEW next \in KeyJobs, Goes(d, next), next.at = "commit", next.keys = job[d].keys, next.listed = job[d].listed
        PROVE  IInv'
    <2>1. job'[d] = next /\ \A e \in Devices \ {d} : job'[e] = job[e]
      BY <1>1, <1>4, GoesIs
    <2>2. Relied(d)
      BY DEF IInv
    <2>3. Relied(d)'
      BY <1>2, <1>4, <2>1, <2>2 DEF Relied
    <2> QED BY <1>2, <2>1, <2>3, IQuiet
  <1> QED BY <1>1, <1>3, <1>4, SetupDeliversGoes DEF Becomes

LEMMA RecoversSound ==
  ASSUME IInv, NEW k \in Keys, NEW keys \in [Slots -> Data], NEW listed \in SUBSET Slots,
         listed \subseteq Present(server.recs),
         \A s \in Slots : keys[s] = IF s \in listed THEN server.recs[s].env ELSE None
  PROVE  LET next == WithRecovery(server.recs, k, keys) IN
         /\ Extends(server.recs, next)
         /\ \A s \in Slots : RecordSound(next[s]) /\ next[s].env = server.recs[s].env
         /\ \A s \in listed : next[s].rec[k] = next[s].env
  <1> DEFINE next == WithRecovery(server.recs, k, keys)
  <1>1. server.recs \in Records
    BY DEF IInv, HInv, Typed, Servers
  <1>2. \A s \in Slots :
              /\ next[s].env = server.recs[s].env /\ next[s].dev = server.recs[s].dev
              /\ \A q \in Keys : next[s].rec[q] = IF q = k /\ keys[s] # None THEN keys[s] ELSE server.recs[s].rec[q]
    BY <1>1, WithRecoveryIs
  <1> HIDE DEF next
  <1>3. Extends(server.recs, next)
    BY <1>2 DEF Extends
  <1>4. \A s \in Slots : RecordSound(next[s])
    BY <1>2 DEF IInv, RecordSound, OpensOrNone
  <1>5. \A s \in listed : next[s].rec[k] = next[s].env
    BY <1>2 DEF Present
  <1> QED BY <1>2, <1>3, <1>4, <1>5 DEF next

LEMMA ISetupCommits ==
  ASSUME IInv, HInv', NEW d \in Devices, SetupCommits(d)
  PROVE  IInv'
  <1> DEFINE j == job[d]
             recs == WithRecovery(server.recs, j.key, j.keys)
  <1>1. Typed /\ Relied(d)
    BY DEF IInv, HInv
  <1>2. j \in KeyJobs /\ j.at = "commit" /\ UNCHANGED <<local, config, made, given>>
    BY <1>1, SetupCommitsGoes
  <1>3. Rests(d) \/ \E next \in SavedJobs : Goes(d, next)
    BY <1>1, SetupCommitsGoes DEF Becomes
  <1>4. CASE UNCHANGED <<server, late>>
    BY <1>2, <1>3, <1>4, IQuietIdle
  <1>5. CASE server'.active = j.key /\ server'.recs = recs /\ late' = Present(server.recs) \ j.listed
    <2>1. /\ j.listed \in SUBSET Slots /\ j.key \in Keys /\ j.keys \in [Slots -> Data]
          /\ j.listed \subseteq Present(server.recs)
          /\ \A s \in Slots : j.keys[s] = IF s \in j.listed THEN server.recs[s].env ELSE None
      BY <1>1, <1>2 DEF KeyJobs, Relied
    <2>2. /\ Extends(server.recs, recs)
          /\ \A s \in Slots : RecordSound(recs[s]) /\ recs[s].env = server.recs[s].env
          /\ \A s \in j.listed : recs[s].rec[j.key] = recs[s].env
      BY <2>1, RecoversSound
    <2> HIDE DEF recs
    <2>3. OneOrigin'
      BY <1>2, <1>5, <2>2 DEF IInv, OneOrigin, OpensOrNone
    <2>4. ActiveKeyOpens'
      BY <1>5, <2>2 DEF ActiveKeyOpens, Present
    <2>5. Relied(d)' /\ \A e \in Devices \ {d} : job'[e] = job[e]
      <3>1. CASE Rests(d)
        BY <1>1, <3>1, RestsRelied
      <3>2. ASSUME NEW next \in SavedJobs, Goes(d, next)
            PROVE  Relied(d)' /\ \A e \in Devices \ {d} : job'[e] = job[e]
        BY <1>1, <3>2, GoesIs, ReliedIdle DEF SavedJobs
      <3> QED BY <1>3, <3>1, <3>2
    <2>6. \A e \in Devices \ {d} : job'[e] = job[e] /\ local'[e] = local[e]
      BY <1>2, <2>5
    <2>7. Extends(server.recs, server'.recs) /\ \A s \in Slots : RecordSound(server'.recs[s])
      BY <1>5, <2>2
    <2> QED BY <2>3, <2>4, <2>5, <2>6, <2>7, IStep
  <1> QED BY <1>1, <1>4, <1>5, SetupCommitsGoes

LEMMA ISetup ==
  ASSUME IInv, Agreed, HInv', NEW d \in Devices,
         \/ \E force \in BOOLEAN : SetupCheck(d, force)
         \/ SetupListsEncrypted(d) \/ SetupPrepares(d) \/ SetupDelivers(d) \/ SetupCommits(d)
  PROVE  IInv'
  <1>1. ASSUME NEW force \in BOOLEAN, SetupCheck(d, force)
        PROVE  IInv'
    <2>1. Typed
      BY DEF IInv, HInv
    <2>2. PICK next \in Jobs : Goes(d, next) /\ next.at \in {"idle", "encrypted"}
      BY <1>1, <2>1, SetupCheckGoes
    <2>3. job'[d] = next /\ \A e \in Devices \ {d} : job'[e] = job[e]
      BY <2>1, <2>2, GoesIs
    <2>4. Relied(d)'
      BY <2>2, <2>3, ReliedIdle
    <2>5. UNCHANGED <<server, local, late>>
      BY <1>1, <2>1, SetupCheckGoes
    <2> QED BY <2>3, <2>4, <2>5, IQuiet
  <1> QED BY <1>1, ISetupLists, ISetupPrepares, ISetupDelivers, ISetupCommits

LEMMA IRestoreLists ==
  ASSUME IInv, HInv', NEW d \in Devices, NEW k \in Keys, NEW force \in BOOLEAN, RestoreLists(d, k, force)
  PROVE  IInv'
  <1>1. Typed
    BY DEF IInv, HInv
  <1>2. PICK next \in RestoreJobs :
              /\ Goes(d, next) /\ next.key = k /\ next.recs = server.recs
              /\ next.listed = {s \in Slots : server.recs[s].rec[k] # None}
              /\ next.at = IF next.listed = {} THEN "identity" ELSE "import"
    BY <1>1, RestoreListsGoes DEF Becomes
  <1>3. UNCHANGED <<server, local, late>>
    BY <1>1, RestoreListsGoes
  <1>4. job'[d] = next /\ \A e \in Devices \ {d} : job'[e] = job[e]
    BY <1>1, <1>2, GoesIs
  <1>5. Listing(next.recs)'
    BY <1>2, <1>3 DEF IInv, Listing, OpensOrNone
  <1>6. next.at = "identity" => \A s \in Slots : next.recs[s].rec[next.key] = None
    BY <1>2
  <1>7. Restoring(d)'
    BY <1>2, <1>3, <1>4, <1>5, <1>6 DEF Restoring, Imported, Registered
  <1>8. next.at \in {"import", "identity"}
    BY <1>2
  <1>9. Relied(d)'
    BY <1>4, <1>7, <1>8 DEF Relied
  <1> QED BY <1>3, <1>4, <1>9, IQuiet

LEMMA IRestoreImports ==
  ASSUME IInv, HInv', NEW d \in Devices, RestoreImports(d)
  PROVE  IInv'
  <1> DEFINE j == job[d]
             opened == {s \in j.listed : j.recs[s].rec[j.key] = j.recs[s].env}
  <1>1. Typed /\ Relied(d)
    BY DEF IInv, HInv
  <1>2. /\ j \in RestoreJobs /\ j.at = "import" /\ UNCHANGED <<server, config, made, given, late>>
        /\ \/ Rests(d) /\ UNCHANGED local
           \/ /\ local' \in [Devices -> [Slots -> Data]]
              /\ \A e \in Devices \ {d} : local'[e] = local[e]
              /\ \A s \in Slots : local'[d][s] = IF s \in opened THEN j.recs[s].env ELSE local[d][s]
              /\ \/ Rests(d)
                 \/ /\ opened = j.listed
                    /\ \E next \in RestoreJobs :
                         /\ Becomes(d, next) /\ next.at = "register" /\ next.key = j.key
                         /\ next.recs = j.recs /\ next.listed = j.listed
    BY <1>1, RestoreImportsGoes
  <1>3. CASE Rests(d) /\ UNCHANGED local
    BY <1>2, <1>3, IQuietIdle
  <1>4. CASE /\ \A e \in Devices \ {d} : local'[e] = local[e]
             /\ \A s \in Slots : local'[d][s] = IF s \in opened THEN j.recs[s].env ELSE local[d][s]
             /\ \/ Rests(d)
                \/ /\ opened = j.listed
                   /\ \E next \in RestoreJobs :
                        /\ Becomes(d, next) /\ next.at = "register" /\ next.key = j.key
                        /\ next.recs = j.recs /\ next.listed = j.listed
    <2>1. /\ Listing(j.recs) /\ \A s \in Slots : j.recs[s].dev[d] # None => server.recs[s].dev[d] = j.recs[s].dev[d]
          /\ j.listed = {s \in Slots : j.recs[s].rec[j.key] # None}
      BY <1>1, <1>2 DEF Relied, Restoring
    <2>2. \A s \in opened : s \in Slots /\ j.recs[s].env # None /\ j.recs[s].env = server.recs[s].env
      BY <2>1 DEF Listing, OpensOrNone
    <2>3. OneOrigin'
      <3>1. \A e \in Devices : \A s \in Slots :
              local'[e][s] = local[e][s] \/ (server.recs[s].env # None /\ local'[e][s] = server.recs[s].env)
        <4> TAKE e \in Devices
        <4> TAKE s \in Slots
        <4>1. CASE e # d
          BY <1>4, <4>1
        <4>2. CASE e = d /\ s \notin opened
          <5> HIDE DEF opened
          <5> QED BY <1>4, <4>2
        <4>3. CASE e = d /\ s \in opened
          <5>1. j.recs[s].env # None /\ j.recs[s].env = server.recs[s].env
            BY <2>2, <4>3
          <5> HIDE DEF opened
          <5> QED BY <1>4, <4>3, <5>1
        <4> QED BY <4>1, <4>2, <4>3
      <3>2. SUFFICES ASSUME "diverge" \notin Environment, NEW s \in Slots, NEW c \in Devices
                     PROVE  /\ OpensOrNone(local'[c][s], server'.recs[s]) \/ server'.recs[s].env = None
                            /\ \A e \in Devices : None \in {local'[c][s], local'[e][s]} \/ local'[c][s] = local'[e][s]
        BY DEF OneOrigin, OpensOrNone
      <3>3. /\ \A e \in Devices : local[e][s] \in {None, server.recs[s].env} \/ server.recs[s].env = None
            /\ \A e, f \in Devices : None \in {local[e][s], local[f][s]} \/ local[e][s] = local[f][s]
        BY <3>2 DEF IInv, OneOrigin, OpensOrNone
      <3>4. server' = server
        BY <1>2
      <3>5. CASE server.recs[s].env = None
        <4>1. \A e \in Devices : local'[e][s] = local[e][s]
          BY <3>1, <3>5
        <4> QED BY <3>3, <3>4, <3>5, <4>1
      <3>6. CASE server.recs[s].env # None
        <4>1. \A e \in Devices : local'[e][s] \in {None, server.recs[s].env}
          BY <3>1, <3>3, <3>6
        <4> QED BY <3>4, <4>1 DEF OpensOrNone
      <3> QED BY <3>5, <3>6
    <2>4. Relied(d)' /\ \A e \in Devices \ {d} : job'[e] = job[e]
      <3>1. CASE Rests(d)
        BY <1>1, <3>1, RestsRelied
      <3>2. ASSUME opened = j.listed,
                   NEW next \in RestoreJobs, Becomes(d, next), next.at = "register", next.key = j.key,
                   next.recs = j.recs, next.listed = j.listed
            PROVE  Relied(d)' /\ \A e \in Devices \ {d} : job'[e] = job[e]
        <4>1. job'[d] = next /\ \A e \in Devices \ {d} : job'[e] = job[e]
          BY <1>1, <3>2, GoesIs DEF Becomes
        <4>2. Imported(d)'
          <5>1. \A s \in Slots : j.recs[s].rec[j.key] # None => s \in opened
            BY <2>1, <3>2
          <5> HIDE DEF opened
          <5>2. \A s \in opened : local'[d][s] = j.recs[s].env
            BY <1>4, <2>2
          <5>3. job'[d].recs = j.recs /\ job'[d].key = j.key
            BY <3>2, <4>1
          <5> QED BY <5>1, <5>2, <5>3 DEF Imported
        <4>3. Listing(next.recs)'
          BY <1>2, <2>1, <3>2 DEF Listing
        <4>4. Restoring(d)'
          BY <1>2, <2>1, <3>2, <4>1, <4>2, <4>3, ZenonT(40) DEF Restoring
        <4> QED BY <3>2, <4>1, <4>4 DEF Relied
      <3> QED BY <1>4, <3>1, <3>2
    <2>5. Extends(server.recs, server'.recs) /\ ActiveKeyOpens' /\ \A s \in Slots : RecordSound(server'.recs[s])
      BY <1>2 DEF IInv, Extends, ActiveKeyOpens
    <2> QED BY <1>4, <2>3, <2>4, <2>5, IStep
  <1> QED BY <1>2, <1>3, <1>4

LEMMA AddsSound ==
  ASSUME IInv, NEW d \in Devices, NEW s \in Slots, NEW key \in Data, OpensOrNone(key, server.recs[s])
  PROVE  LET next == Added(server.recs, s, d, key) IN
         /\ Extends(server.recs, next)
         /\ \A x \in Slots : RecordSound(next[x]) /\ next[x].env = server.recs[x].env /\ next[x].rec = server.recs[x].rec
  <1> DEFINE next == Added(server.recs, s, d, key)
  <1>1. server.recs \in Records
    BY DEF IInv, HInv, Typed, Servers
  <1>2. \A x \in Slots :
              /\ next[x].env = server.recs[x].env /\ next[x].rec = server.recs[x].rec
              /\ \A t \in Devices : next[x].dev[t] = IF x = s /\ t = d /\ server.recs[s].dev[d] = None
                                                     THEN key ELSE server.recs[x].dev[t]
    BY <1>1, AddedIs
  <1> HIDE DEF next
  <1>3. Extends(server.recs, next)
    BY <1>2 DEF Extends
  <1>4. \A x \in Slots : RecordSound(next[x])
    BY <1>2 DEF IInv, RecordSound, OpensOrNone
  <1> QED BY <1>2, <1>3, <1>4 DEF next

\* The records change in keys of devices only.
LEMMA IDeviceKeys ==
  ASSUME IInv, HInv', NEW d \in Devices, Relied(d)', UNCHANGED <<local, late>>, server'.active = server.active,
         \A e \in Devices \ {d} : job'[e] = job[e],
         Extends(server.recs, server'.recs),
         \A s \in Slots : /\ RecordSound(server'.recs[s])
                          /\ server'.recs[s].env = server.recs[s].env /\ server'.recs[s].rec = server.recs[s].rec
  PROVE  IInv'
  <1>1. OneOrigin'
    BY DEF IInv, OneOrigin, OpensOrNone
  <1>2. ActiveKeyOpens'
    BY DEF IInv, ActiveKeyOpens, Present
  <1> QED BY <1>1, <1>2, IStep

LEMMA IRestoreRegisters ==
  ASSUME IInv, HInv', NEW d \in Devices, RestoreRegisters(d)
  PROVE  IInv'
  <1> DEFINE j == job[d]
  <1>1. Typed /\ Relied(d)
    BY DEF IInv, HInv
  <1>2. j \in RestoreJobs /\ j.at = "register" /\ UNCHANGED <<local, config, made, given, late>>
    BY <1>1, RestoreRegistersGoes
  <1>3. /\ Restoring(d) /\ Listing(j.recs) /\ Imported(d)
        /\ \A s \in Slots : j.recs[s].dev[d] # None => server.recs[s].dev[d] = j.recs[s].dev[d]
        /\ j.listed = {s \in Slots : j.recs[s].rec[j.key] # None}
    BY <1>1, <1>2 DEF Relied, Restoring
  <1>4. \A s \in j.listed : /\ s \in Slots /\ local[d][s] = j.recs[s].env
                            /\ local[d][s] # None => local[d][s] = server.recs[s].env
    BY <1>3 DEF Imported, Listing, OpensOrNone
  <1>5. \A s \in j.listed : local[d][s] # None
    BY <1>3, <1>4, <1>2 DEF Listing, RecordSound, OpensOrNone, RestoreJobs
  <1>6. CASE Rests(d) /\ UNCHANGED server
    BY <1>2, <1>6, IQuietIdle
  <1>7. CASE /\ Unregistered(d) = {} /\ UNCHANGED server
             /\ \E next \in RestoreJobs :
                  Becomes(d, next) /\ next.at = "identity" /\ next.key = j.key /\ next.recs = j.recs
    <2>1. PICK next \in RestoreJobs :
                  Becomes(d, next) /\ next.at = "identity" /\ next.key = j.key /\ next.recs = j.recs
      BY <1>7
    <2>2. job'[d] = next /\ \A e \in Devices \ {d} : job'[e] = job[e]
      BY <1>1, <2>1, GoesIs DEF Becomes
    <2>3. Registered(d)'
      <3>1. \A s \in j.listed : j.recs[s].dev[d] # None
        BY <1>5, <1>7 DEF Unregistered, LocalKey
      <3> QED BY <1>3, <2>1, <2>2, <3>1 DEF Registered
    <2>4. Imported(d)'
      BY <1>2, <1>3, <2>1, <2>2 DEF Imported
    <2>5. Listing(next.recs)'
      BY <1>3, <1>7, <2>1 DEF Listing
    <2>6. Restoring(d)'
      BY <1>3, <1>7, <2>1, <2>2, <2>3, <2>4, <2>5 DEF Restoring
    <2>7. Relied(d)'
      BY <2>1, <2>2, <2>6 DEF Relied
    <2> QED BY <1>2, <1>7, <2>2, <2>7, IQuiet
  <1>8. ASSUME NEW s \in Unregistered(d),
               server' \in Servers, server'.active = server.active,
               server'.recs = Added(server.recs, s, d, local[d][s]),
               \/ Rests(d)
               \/ \E next \in RestoreJobs :
                    /\ Becomes(d, next) /\ next.at = "register" /\ next.key = j.key
                    /\ next.listed = j.listed /\ next.recs = Added(j.recs, s, d, local[d][s])
        PROVE  IInv'
    <2> DEFINE key == local[d][s]
    <2>1. s \in Slots /\ s \in j.listed /\ j.recs[s].dev[d] = None /\ key \in Data
      BY <1>4, <1>8, <1>1 DEF Unregistered, Typed
    <2>2. key # None /\ key = server.recs[s].env /\ key = j.recs[s].env
      BY <1>4, <1>5, <2>1
    <2>3. OpensOrNone(key, server.recs[s])
      BY <2>2 DEF OpensOrNone
    <2> HIDE DEF key
    <2>4. /\ Extends(server.recs, server'.recs)
          /\ \A x \in Slots : /\ RecordSound(server'.recs[x])
                              /\ server'.recs[x].env = server.recs[x].env /\ server'.recs[x].rec = server.recs[x].rec
      BY <1>8, <2>1, <2>3, AddsSound DEF key
    <2>5. Relied(d)' /\ \A e \in Devices \ {d} : job'[e] = job[e]
      <3>1. CASE Rests(d)
        BY <1>1, <3>1, RestsRelied
      <3>2. ASSUME NEW next \in RestoreJobs, Becomes(d, next), next.at = "register", next.key = j.key,
                   next.listed = j.listed, next.recs = Added(j.recs, s, d, key)
            PROVE  Relied(d)' /\ \A e \in Devices \ {d} : job'[e] = job[e]
        <4>1. job'[d] = next /\ \A e \in Devices \ {d} : job'[e] = job[e]
          BY <1>1, <3>2, GoesIs DEF Becomes
        <4>2. j.recs \in Records /\ server.recs \in Records /\ j.key \in Keys
          BY <1>1, <1>2 DEF RestoreJobs, Typed, Servers
        <4>3. \A x \in Slots :
                /\ next.recs[x].env = j.recs[x].env /\ next.recs[x].rec = j.recs[x].rec
                /\ \A t \in Devices : next.recs[x].dev[t] = IF x = s /\ t = d THEN key ELSE j.recs[x].dev[t]
          <5> DEFINE own == Added(j.recs, s, d, key)
          <5>1. \A x \in Slots :
                  /\ own[x].env = j.recs[x].env /\ own[x].rec = j.recs[x].rec
                  /\ \A t \in Devices : own[x].dev[t] = IF x = s /\ t = d /\ j.recs[s].dev[d] = None
                                                         THEN key ELSE j.recs[x].dev[t]
            BY <2>1, <4>2, AddedIs
          <5>2. next.recs = own
            BY <3>2
          <5> HIDE DEF own
          <5> QED BY <2>1, <5>1, <5>2
        <4>4. \A x \in Slots :
                /\ server'.recs[x].env = server.recs[x].env
                /\ \A t \in Devices : server'.recs[x].dev[t] = IF x = s /\ t = d /\ server.recs[s].dev[d] = None
                                                               THEN key ELSE server.recs[x].dev[t]
          BY <1>8, <2>1, <4>2, AddedIs, SMTT(30) DEF key
        <4>5. Listing(next.recs)'
          <5> SUFFICES ASSUME NEW x \in Slots
                       PROVE  RecordSound(next.recs[x]) /\ OpensOrNone(next.recs[x].env, server'.recs[x])
            BY DEF Listing
          <5>1. RecordSound(j.recs[x]) /\ OpensOrNone(j.recs[x].env, server.recs[x])
            BY <1>3 DEF Listing
          <5> QED BY <2>2, <4>3, <4>4, <5>1 DEF RecordSound, OpensOrNone
        <4>6. \A x \in Slots : next.recs[x].dev[d] # None => server'.recs[x].dev[d] = next.recs[x].dev[d]
          <5>1. server.recs[s].dev[d] \in {None, key}
            BY <2>1, <2>2 DEF IInv, RecordSound, OpensOrNone
          <5> QED BY <1>3, <2>1, <4>3, <4>4, <5>1
        <4>7. Imported(d)'
          BY <1>2, <1>3, <3>2, <4>1, <4>3 DEF Imported
        <4>8. next.listed = {x \in Slots : next.recs[x].rec[next.key] # None}
          BY <1>3, <3>2, <4>3
        <4>9. Restoring(d)'
          BY <3>2, <4>1, <4>5, <4>6, <4>7, <4>8 DEF Restoring
        <4> QED BY <3>2, <4>1, <4>9 DEF Relied
      <3> QED BY <1>8, <3>1, <3>2 DEF key
    <2> QED BY <1>2, <1>8, <2>4, <2>5, IDeviceKeys
  <1> QED BY <1>1, <1>6, <1>7, <1>8, RestoreRegistersGoes

LEMMA WrapsSound ==
  ASSUME IInv, NEW entries \in SUBSET (Slots \X Devices), NEW keys \in [Slots -> Data],
         \A e \in entries : keys[e[1]] = server.recs[e[1]].env
  PROVE  LET next == Wrapped(server.recs, entries, keys) IN
         /\ Extends(server.recs, next)
         /\ \A s \in Slots : RecordSound(next[s]) /\ next[s].env = server.recs[s].env /\ next[s].rec = server.recs[s].rec
  <1> DEFINE next == Wrapped(server.recs, entries, keys)
  <1>1. server.recs \in Records
    BY DEF IInv, HInv, Typed, Servers
  <1>2. \A s \in Slots :
              /\ next[s].env = server.recs[s].env /\ next[s].rec = server.recs[s].rec
              /\ \A t \in Devices : next[s].dev[t] = IF <<s, t>> \in entries /\ server.recs[s].dev[t] = None
                                                     THEN keys[s] ELSE server.recs[s].dev[t]
    BY <1>1, WrappedIs
  <1> HIDE DEF next
  <1>3. Extends(server.recs, next)
    BY <1>2 DEF Extends
  <1>4. \A s \in Slots, t \in Devices : <<s, t>> \in entries => keys[s] = server.recs[s].env
    OBVIOUS
  <1>5. \A s \in Slots : RecordSound(next[s])
    BY <1>2, <1>4 DEF IInv, RecordSound, OpensOrNone
  <1> QED BY <1>2, <1>3, <1>5 DEF next

LEMMA IRewrapLists ==
  ASSUME IInv, HInv', NEW d \in Devices, RewrapLists(d)
  PROVE  IInv'
  <1>1. Typed
    BY DEF IInv, HInv
  <1>2. PICK next \in TargetJobs : Goes(d, next) /\ next.recs = server.recs
    BY <1>1, RewrapListsGoes DEF Becomes
  <1>3. UNCHANGED <<server, local, late>>
    BY <1>1, RewrapListsGoes
  <1>4. job'[d] = next /\ next.at = "targets" /\ \A e \in Devices \ {d} : job'[e] = job[e]
    BY <1>1, <1>2, GoesIs DEF TargetJobs
  <1>5. Listing(next.recs)'
    BY <1>2, <1>3 DEF IInv, Listing, OpensOrNone
  <1>6. Relied(d)'
    BY <1>4, <1>5 DEF Relied
  <1> QED BY <1>3, <1>4, <1>6, IQuiet

LEMMA IRewrapPlans ==
  ASSUME IInv, Agreed, HInv', NEW d \in Devices, RewrapPlans(d)
  PROVE  IInv'
  <1> DEFINE opens == Unwrapped(d, job[d].recs)
  <1>1. Typed
    BY DEF IInv, HInv
  <1>2. /\ job[d] \in TargetJobs /\ job[d].at = "targets"
        /\ opens \in [Slots -> Data] /\ Matching(d, opens)
        /\ UNCHANGED <<server, local, late>>
    BY <1>1, RewrapPlansGoes
  <1>3. PICK next \in PostJobs :
              /\ Goes(d, next)
              /\ \A s \in Slots : next.keys[s] = KeyFor(d, opens, s)
              /\ \A e \in next.entries : e[1] \in Present(job[d].recs) /\ next.keys[e[1]] # None
    BY <1>1, RewrapPlansGoes DEF Becomes
  <1>4. job'[d] = next /\ next.at = "post" /\ \A e \in Devices \ {d} : job'[e] = job[e]
    BY <1>1, <1>3, GoesIs DEF PostJobs
  <1>5. Listing(job[d].recs)
    BY <1>2 DEF IInv, Relied
  <1>6. \A s \in Slots : OpensOrNone(opens[s], server.recs[s])
    BY <1>5 DEF Unwrapped, Listing, RecordSound, OpensOrNone
  <1>7. Present(job[d].recs) \subseteq Present(server.recs)
    BY <1>5 DEF Present, Listing, OpensOrNone
  <1> HIDE DEF opens
  <1>8. \A s \in Present(server.recs) : KeyFor(d, opens, s) \in {None, server.recs[s].env}
    BY <1>2, <1>6, KeyForOpens
  <1>9. \A e \in next.entries : next.keys[e[1]] # None /\ next.keys[e[1]] = server.recs[e[1]].env
    BY <1>3, <1>7, <1>8 DEF Present
  <1>10. Relied(d)'
    BY <1>2, <1>4, <1>9 DEF Relied
  <1> QED BY <1>2, <1>4, <1>10, IQuiet

LEMMA IRewrapPosts ==
  ASSUME IInv, HInv', NEW d \in Devices, RewrapPosts(d)
  PROVE  IInv'
  <1> DEFINE j == job[d]
  <1>1. Typed /\ Relied(d)
    BY DEF IInv, HInv
  <1>2. j \in PostJobs /\ j.at = "post" /\ UNCHANGED <<local, config, made, given, late>>
    BY <1>1, RewrapPostsGoes
  <1>3. \A e \in j.entries : j.keys[e[1]] # None /\ j.keys[e[1]] = server.recs[e[1]].env
    BY <1>1, <1>2 DEF Relied
  <1>4. CASE Rests(d) /\ UNCHANGED server
    BY <1>2, <1>4, IQuietIdle
  <1>5. ASSUME NEW sent \in SUBSET j.entries,
               server' \in Servers, server'.active = server.active,
               server'.recs = Wrapped(server.recs, sent, j.keys),
               \/ Rests(d)
               \/ \E next \in PostJobs : Becomes(d, next) /\ next.keys = j.keys /\ next.entries \subseteq j.entries
        PROVE  IInv'
    <2>1. sent \in SUBSET (Slots \X Devices) /\ j.keys \in [Slots -> Data]
      BY <1>2 DEF PostJobs
    <2>2. \A e \in sent : j.keys[e[1]] = server.recs[e[1]].env
      BY <1>3
    <2>3. /\ Extends(server.recs, server'.recs)
          /\ \A s \in Slots : /\ RecordSound(server'.recs[s])
                              /\ server'.recs[s].env = server.recs[s].env /\ server'.recs[s].rec = server.recs[s].rec
      BY <1>5, <2>1, <2>2, WrapsSound
    <2>4. Relied(d)' /\ \A e \in Devices \ {d} : job'[e] = job[e]
      <3>1. CASE Rests(d)
        BY <1>1, <3>1, RestsRelied
      <3>2. ASSUME NEW next \in PostJobs, Becomes(d, next), next.keys = j.keys, next.entries \subseteq j.entries
            PROVE  Relied(d)' /\ \A e \in Devices \ {d} : job'[e] = job[e]
        <4>1. job'[d] = next /\ next.at = "post" /\ \A e \in Devices \ {d} : job'[e] = job[e]
          BY <1>1, <3>2, GoesIs DEF Becomes, PostJobs
        <4>2. \A e \in next.entries : e[1] \in Slots
          BY <3>2 DEF PostJobs
        <4>3. \A e \in next.entries : next.keys[e[1]] # None /\ next.keys[e[1]] = server'.recs[e[1]].env
          BY <1>3, <2>3, <3>2, <4>2
        <4> QED BY <4>1, <4>3 DEF Relied
      <3> QED BY <1>5, <3>1, <3>2
    <2> QED BY <1>2, <1>5, <2>3, <2>4, IDeviceKeys
  <1> QED BY <1>1, <1>4, <1>5, RewrapPostsGoes

LEMMA IPushPlans ==
  ASSUME IInv, HInv', NEW d \in Devices, PushPlans(d)
  PROVE  IInv'
  <1>1. Typed
    BY DEF IInv, HInv
  <1>2. UNCHANGED <<server, local, late>>
    BY <1>1, PushPlansGoes
  <1>3. CASE \E next \in IdleJobs : Goes(d, next)
    BY <1>2, <1>3, IQuietIdle
  <1>4. ASSUME NEW next \in BatchJobs, Goes(d, next), next.key = server.active, next.active = server.active,
               \A s \in next.uploads \cup next.rewraps : local[d][s] # None,
               \A s \in next.rewraps : local[d][s] = server.recs[s].env
        PROVE  IInv'
    <2>1. job'[d] = next /\ next.at = "batch" /\ \A e \in Devices \ {d} : job'[e] = job[e]
      BY <1>1, <1>4, GoesIs DEF BatchJobs
    <2>2. Relied(d)'
      BY <1>2, <1>4, <2>1 DEF Relied
    <2> QED BY <1>2, <2>1, <2>2, IQuiet
  <1> QED BY <1>1, <1>3, <1>4, PushPlansGoes DEF Becomes

LEMMA IPushCommits ==
  ASSUME IInv, HInv', NEW d \in Devices, PushCommits(d)
  PROVE  IInv'
  <1> DEFINE j == job[d]
             recs == Uploaded(d, j)
  <1>1. Typed /\ Relied(d) /\ \A s \in Slots : RecordSound(server.recs[s])
    BY DEF IInv, HInv
  <1>2. j \in BatchJobs /\ j.at = "batch" /\ UNCHANGED <<local, config, made, given>>
    BY <1>1, PushCommitsGoes
  <1>3. /\ j.key = j.active /\ j.uploads \subseteq Slots /\ j.rewraps \subseteq Slots
        /\ \A s \in j.uploads \cup j.rewraps : local[d][s] # None
        /\ \A s \in j.rewraps : local[d][s] = server.recs[s].env
    BY <1>1, <1>2 DEF BatchJobs, Relied
  <1>4. Rests(d) \/ \E next \in PushedJobs : Goes(d, next)
    BY <1>1, PushCommitsGoes DEF Becomes
  <1>5. CASE UNCHANGED <<server, late>>
    BY <1>2, <1>4, <1>5, IQuietIdle
  <1>6. CASE /\ j.uploads \cap Present(server.recs) = {}
             /\ server'.active = server.active /\ server'.recs = recs
             /\ late' = IF j.active = server.active THEN late ELSE late \cup j.uploads
    <2>1. \A s \in Slots :
              /\ recs[s].env = IF s \in j.uploads THEN local[d][s] ELSE server.recs[s].env
              /\ \A t \in Devices :
                   recs[s].dev[t] = IF /\ s \in j.uploads \cup j.rewraps
                                       /\ t \in j.targets \cup {d} /\ server.recs[s].dev[t] = None
                                    THEN local[d][s] ELSE server.recs[s].dev[t]
              /\ \A k \in Keys :
                   recs[s].rec[k] = IF s \notin j.uploads THEN server.recs[s].rec[k]
                                    ELSE IF k = j.key THEN local[d][s] ELSE None
      BY <1>1, <1>2, UploadedIs
    <2> HIDE DEF recs
    <2>2. \A s \in j.uploads : server.recs[s].env = None /\ \A t \in Devices : server.recs[s].dev[t] = None
      BY <1>1, <1>3, <1>6 DEF Present, RecordSound, OpensOrNone
    <2>3. Extends(server.recs, recs)
      BY <2>1, <2>2 DEF Extends
    <2>4. \A s \in Slots : RecordSound(recs[s])
      <3> SUFFICES ASSUME NEW s \in Slots
                   PROVE  RecordSound(recs[s])
        OBVIOUS
      <3>1. CASE s \in j.uploads
        BY <2>1, <2>2, <3>1 DEF RecordSound, OpensOrNone
      <3>2. CASE s \notin j.uploads
        BY <1>1, <1>3, <2>1, <3>2 DEF RecordSound, OpensOrNone
      <3> QED BY <3>1, <3>2
    <2>5. OneOrigin'
      <3> SUFFICES ASSUME "diverge" \notin Environment, NEW s \in Slots, NEW e \in Devices
                   PROVE  /\ OpensOrNone(local[e][s], recs[s]) \/ recs[s].env = None
                          /\ \A f \in Devices : None \in {local[e][s], local[f][s]} \/ local[e][s] = local[f][s]
        BY <1>2, <1>6 DEF OneOrigin
      <3>1. /\ OpensOrNone(local[e][s], server.recs[s]) \/ server.recs[s].env = None
            /\ \A f \in Devices : None \in {local[e][s], local[f][s]} \/ local[e][s] = local[f][s]
        BY DEF IInv, OneOrigin
      <3>2. recs[s].env = IF s \in j.uploads THEN local[d][s] ELSE server.recs[s].env
        BY <2>1
      <3> QED BY <1>3, <3>1, <3>2 DEF OpensOrNone
    <2>6. ActiveKeyOpens'
      <3> SUFFICES ASSUME server.active # NoKey, NEW s \in Slots, recs[s].env # None, s \notin late'
                   PROVE  recs[s].rec[server.active] = recs[s].env
        BY <1>6 DEF ActiveKeyOpens, Present
      <3>1. server.active \in Keys
        BY <1>1 DEF Typed, Servers
      <3>2. CASE s \in j.uploads
        BY <1>3, <1>6, <2>1, <3>1, <3>2
      <3>3. CASE s \notin j.uploads
        <4>1. s \in Present(server.recs) \ late
          BY <1>6, <2>1, <3>3 DEF Present
        <4> QED BY <2>1, <3>1, <3>3, <4>1 DEF IInv, ActiveKeyOpens
      <3> QED BY <3>2, <3>3
    <2>7. Relied(d)' /\ \A e \in Devices \ {d} : job'[e] = job[e]
      <3>1. CASE Rests(d)
        BY <1>1, <3>1, RestsRelied
      <3>2. ASSUME NEW next \in PushedJobs, Goes(d, next)
            PROVE  Relied(d)' /\ \A e \in Devices \ {d} : job'[e] = job[e]
        BY <1>1, <3>2, GoesIs, ReliedIdle DEF PushedJobs
      <3> QED BY <1>4, <3>1, <3>2
    <2>8. Extends(server.recs, server'.recs) /\ \A s \in Slots : RecordSound(server'.recs[s])
      BY <1>6, <2>3, <2>4
    <2>9. \A e \in Devices \ {d} : job'[e] = job[e] /\ local'[e] = local[e]
      BY <1>2, <2>7
    <2> QED BY <2>5, <2>6, <2>7, <2>8, <2>9, IStep
  <1> QED BY <1>1, <1>5, <1>6, PushCommitsGoes

\* A step that only gives d more versions.
LEMMA ILocal ==
  ASSUME IInv, HInv', NEW d \in Devices, UNCHANGED <<server, late>>, Relied(d)',
         \A e \in Devices \ {d} : job'[e] = job[e] /\ local'[e] = local[e], OneOrigin'
  PROVE  IInv'
  <1>1. Extends(server.recs, server'.recs) /\ ActiveKeyOpens' /\ \A s \in Slots : RecordSound(server'.recs[s])
    BY DEF IInv, Extends, ActiveKeyOpens
  <1> QED BY <1>1, IStep

LEMMA IPull ==
  ASSUME IInv, HInv', NEW d \in Devices, Pull(d)
  PROVE  IInv'
  <1>1. Typed
    BY DEF IInv, HInv
  <1>2. UNCHANGED <<server, late>> /\ \E next \in IdleJobs : Goes(d, next)
    BY <1>1, PullGoes DEF Becomes
  <1>3. CASE UNCHANGED local
    BY <1>2, <1>3, IQuietIdle
  <1>4. CASE /\ \A e \in Devices \ {d} : local'[e] = local[e]
             /\ \A s \in Slots : local'[d][s] \in {local[d][s], server.recs[s].env}
    <2>1. OneOrigin'
      BY <1>2, <1>4 DEF IInv, OneOrigin, OpensOrNone
    <2>2. Relied(d)' /\ \A e \in Devices \ {d} : job'[e] = job[e]
      BY <1>1, <1>2, GoesIs, ReliedIdle DEF IdleJobs
    <2> QED BY <1>2, <1>4, <2>1, <2>2, ILocal
  <1> QED BY <1>1, <1>3, <1>4, PullGoes

LEMMA ICreates ==
  ASSUME IInv, HInv', NEW d \in Devices, NEW s \in Slots, Creates(d, s)
  PROVE  IInv'
  <1>1. Typed
    BY DEF IInv, HInv
  <1>2. /\ UNCHANGED <<server, job, late>> /\ ~Busy(d)
        /\ "diverge" \notin Environment => server.recs[s].env = None /\ \A e \in Devices : local[e][s] = None
        /\ local' \in [Devices -> [Slots -> Data]]
        /\ \A e \in Devices : \A x \in Slots : local'[e][x] = IF e = d /\ x = s THEN d ELSE local[e][x]
    BY <1>1, CreatesIs
  <1>3. Relied(d)'
    BY <1>2, ReliedIdle DEF Busy
  <1>4. \A e \in Devices \ {d} : local'[e] = local[e]
    BY <1>1, <1>2 DEF Typed
  <1>5. OneOrigin'
    <2> SUFFICES ASSUME "diverge" \notin Environment, NEW x \in Slots, NEW e \in Devices
                 PROVE  /\ OpensOrNone(local'[e][x], server.recs[x]) \/ server.recs[x].env = None
                        /\ \A f \in Devices : None \in {local'[e][x], local'[f][x]} \/ local'[e][x] = local'[f][x]
      BY <1>2 DEF OneOrigin
    <2>1. CASE x = s
      BY <1>2, <2>1
    <2>2. CASE x # s
      <3>1. \A f \in Devices : local'[f][x] = local[f][x]
        BY <1>2, <2>2
      <3> QED BY <3>1 DEF IInv, OneOrigin
    <2> QED BY <2>1, <2>2
  <1> QED BY <1>2, <1>3, <1>4, <1>5, ILocal

LEMMA ITrust ==
  ASSUME IInv, HInv', NEW d \in Devices, Trust(d)
  PROVE  IInv'
  <1>1. Typed /\ Relied(d)
    BY DEF IInv, HInv
  <1>2. UNCHANGED <<local, job, late>> /\ server'.active = server.active /\ server'.recs = server.recs
    BY <1>1, TrustIs
  <1>3. Extends(server.recs, server'.recs) /\ \A s \in Slots : RecordSound(server'.recs[s])
    BY <1>2 DEF IInv, Extends
  <1>4. OneOrigin' /\ ActiveKeyOpens'
    BY <1>2 DEF IInv, OneOrigin, ActiveKeyOpens
  <1>5. Relied(d)'
    BY <1>1, <1>2, <1>3, ReliedStays
  <1> QED BY <1>2, <1>3, <1>4, <1>5, IStep

LEMMA INext ==
  ASSUME Agreed, IInv, [Next]_vars
  PROVE  IInv'
  <1>1. Typed /\ HInv'
    BY HeldNext DEF IInv, HInv
  <1>2. CASE UNCHANGED vars
    <2>1. UNCHANGED <<server, local, job, late>>
      BY <1>2 DEF vars
    <2>2. Extends(server.recs, server'.recs)
      BY <2>1 DEF Extends
    <2>3. \A d \in Devices : Relied(d)'
      BY <1>1, <2>1, <2>2, ReliedStays DEF IInv
    <2>4. OneOrigin' /\ ActiveKeyOpens' /\ \A s \in Slots : RecordSound(server'.recs[s])
      BY <2>1 DEF IInv, OneOrigin, ActiveKeyOpens
    <2> QED BY <1>1, <2>3, <2>4 DEF IInv
  <1>3. ASSUME NEW d \in Devices, SetupSaves(d) \/ RestoreSaves(d) \/ PushSaves(d) \/ Status(d) \/ Kill(d)
        PROVE  IInv'
    <2>1. UNCHANGED <<server, local, late>> /\ \E next \in IdleJobs : Goes(d, next)
      BY <1>1, <1>3, SimpleGoes DEF Becomes
    <2> QED BY <1>1, <2>1, IQuietIdle
  <1>4. ASSUME NEW d \in Devices, Step(d)
        PROVE  IInv'
    BY <1>1, <1>3, <1>4, ISetup, IRestoreLists, IRestoreImports, IRestoreRegisters,
       IRewrapLists, IRewrapPlans, IRewrapPosts, IPushPlans, IPushCommits, IPull DEF Step
  <1> QED BY <1>1, <1>2, <1>3, <1>4, ITrust, ICreates DEF Next

LEMMA IInit ==
  ASSUME Init
  PROVE  IInv
  <1>1. \A s \in Slots : server.recs[s] = NoRecord
    BY DEF Init
  <1>2. \A s \in Slots : RecordSound(server.recs[s])
    BY <1>1 DEF NoRecord, RecordSound, OpensOrNone
  <1>3. OneOrigin
    BY <1>1 DEF Init, OneOrigin, NoneHeld, NoRecord
  <1>4. ActiveKeyOpens
    BY DEF Init, ActiveKeyOpens
  <1>5. \A d \in Devices : job[d].at = "idle"
    BY DEF Init, Idle
  <1>6. \A d \in Devices : Relied(d)
    BY <1>5 DEF Relied
  <1> QED BY <1>2, <1>3, <1>4, <1>6, HeldInit DEF IInv

-----------------------------------------------------------------------------
(* What is promised of keys.                                               *)

\* The inductive invariant of recovery holds in every reachable state, where
\* versions of one number agree.
THEOREM RecoveryInvariance ==
  ASSUME Agreed
  PROVE  Spec => []IInv
  <1>1. Init => IInv
    BY IInit
  <1>2. IInv /\ [Next]_vars => IInv'
    BY INext
  <1> QED BY <1>1, <1>2, PTL DEF Spec

\* Where no version stands in for another (Agreed), the active recovery key is
\* one the user was given and restores every version but those uploaded around
\* the commit of its setup (prepareRemoteRecoveryReplacementKeys).
THEOREM RecoveryKeyAlwaysWorks ==
  ASSUME Agreed
  PROVE  Spec => []RecoveryKeyWorks
  <1>1. Spec => []IInv
    BY RecoveryInvariance
  <1>2. IInv => RecoveryKeyWorks
    BY DEF IInv, HInv, Typed, RecoveryKeyWorks, TypeOK, Servers, Records, Record, Data
  <1> QED BY <1>1, <1>2, PTL

\* Every wrapped key, of a device or of a recovery key, opens its version, though
\* setup, rewrap and push wrap keys without trying them.
THEOREM WrappedKeysAlwaysOpen ==
  ASSUME Agreed
  PROVE  Spec => []WrappedKeysOpen
  <1>1. Spec => []IInv
    BY RecoveryInvariance
  <1>2. IInv => WrappedKeysOpen
    BY DEF IInv, WrappedKeysOpen, Present, RecordSound, OpensOrNone
  <1> QED BY <1>1, <1>2, PTL

LEMMA RestoresWhole ==
  ASSUME IInv, NEW d \in Devices, job[d].at = "identity"
  PROVE  \A s \in {x \in Slots : job[d].recs[x].rec[job[d].key] # None} :
            local[d][s] = server.recs[s].env /\ server.recs[s].dev[d] = server.recs[s].env
  <1> DEFINE j == job[d]
  <1>1. Restoring(d) /\ j \in RestoreJobs
    BY PhaseTypes DEF IInv, HInv, Relied
  <1>2. /\ Listing(j.recs) /\ Imported(d) /\ Registered(d) /\ j.key \in Keys
        /\ \A s \in Slots : j.recs[s].dev[d] # None => server.recs[s].dev[d] = j.recs[s].dev[d]
    BY <1>1 DEF Restoring, RestoreJobs
  <1> SUFFICES ASSUME NEW s \in Slots, j.recs[s].rec[j.key] # None
               PROVE  local[d][s] = server.recs[s].env /\ server.recs[s].dev[d] = server.recs[s].env
    OBVIOUS
  <1>3. j.recs[s].env # None /\ j.recs[s].env = server.recs[s].env
    BY <1>2 DEF Listing, RecordSound, OpensOrNone
  <1>4. local[d][s] = j.recs[s].env
    BY <1>2 DEF Imported
  <1>5. server.recs[s].dev[d] # None
    BY <1>2 DEF Registered
  <1>6. server.recs[s].dev[d] = server.recs[s].env
    BY <1>5 DEF IInv, RecordSound, OpensOrNone
  <1> QED BY <1>3, <1>4, <1>6

\* A restore that ends well leaves the device with every version it listed, and
\* as a recipient of each (recoveryRestore).
THEOREM RestoreIsAlwaysComplete ==
  ASSUME Agreed
  PROVE  Spec => RestoreIsComplete
  <1>1. Spec => []IInv
    BY RecoveryInvariance
  <1> DEFINE Whole(d) == \A s \in {x \in Slots : job[d].recs[x].rec[job[d].key] # None} :
                            local[d][s] = server.recs[s].env /\ server.recs[s].dev[d] = server.recs[s].env
  <1>2. IInv => \A d \in Devices : (job[d].at = "identity" /\ job'[d] = Idle("restore", "ok")) => Whole(d)
    BY RestoresWhole
  <1> QED BY <1>1, <1>2, PTL DEF RestoreIsComplete

=============================================================================
