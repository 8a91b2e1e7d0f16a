------------------------------ MODULE BrokerProofs ------------------------------
(***************************************************************************)
(* What holds of the local broker for any number of requests, with or      *)
(* without --once, and whatever ends it or changes the vault under it, in  *)
(* two parts: the goroutines and their mutex, with what --once promises,   *)
(* and then the files, with what is released and told, and the promise of  *)
(* the gate.                                                               *)
(***************************************************************************)
EXTENDS Broker, FiniteSetTheorems, TLAPS

-----------------------------------------------------------------------------
(* The goroutines: where each may be, and who has the mutex.               *)

\* What the goroutines but the worker do with the mutex.
Busy == {"noting", "checking", "gating", "posting", "marking", "blocking", "syncing",
         "keeping", "reading"}

HoldsIn(g, m) == IF g = "worker" THEN m.phase = "marking" ELSE m.phase \in Busy
Holds(g) == HoldsIn(g, go[g])

\* A request that has been let in.
Serves == {"claimed", "calling", "checking", "gating", "posting", "marking", "blocking",
           "syncing", "keeping", "reading", "answering"}

RequestAt(m) ==
  /\ m.phase \in Serves \cup {"off", "arrived", "noting", "waiting", "stopping", "closing", "done"}
  /\ m.next = "done"
  /\ m.result \in {"none", "denied", "failed"}
  /\ m.phase \in {"waiting", "noting"} => m.result # "none"
  /\ m.phase \in Serves => m.eligible

MainAt(m) ==
  /\ m.phase \in {"waiting", "noting", "serving", "syncing", "keeping", "closing", "done"}
  /\ m.phase \in {"waiting", "noting"} =>
       \/ m.result = "started" /\ m.next = "serving"
       \/ m.result = "stopped" /\ m.next = "syncing"

TimerAt(m) ==
  /\ m.phase \in {"waiting", "noting", "stopping", "closing", "done"}
  /\ m.phase = "noting" => m.result = "idle"
  /\ m.result \in {"none", "idle"}
  /\ m.next \in {"done", "stopping"}

WorkerAt(m) ==
  /\ m.phase \in {"waiting", "checking", "posting", "syncing", "calling", "marking", "done"}
  /\ m.result = "none"

PlacedIn(g, m) ==
  /\ g = "main" => MainAt(m)
  /\ g = "timer" => TimerAt(m)
  /\ g = "worker" => WorkerAt(m)
  /\ g \in Request => RequestAt(m)

\* Main is past the end of the server.
Leaves(m) ==
  \/ m.phase \in {"syncing", "keeping", "closing", "done"}
  \/ m.phase \in {"waiting", "noting"} /\ m.result = "stopped"

Locked == \A g \in Goroutine : Holds(g) => mu = g
Placed == \A g \in Goroutine : PlacedIn(g, go[g])
Cancelled == Leaves(go["main"]) => context.cancelled

\* A --once broker lets one request in.
OneClaims ==
  Once => \A r, s \in Request : go[r].eligible => claimed /\ (go[s].eligible => r = s)

Control == TypeOK /\ Locked /\ Placed /\ Cancelled /\ OneClaims

-----------------------------------------------------------------------------
(* The ledgers: what the broker has loaded, written or sent.               *)

Files == {disk, current, latest}

\* Main has returned from the server for good, and no request is at its check.
Past == {"syncing", "keeping", "closing", "done"}

Quiet ==
  /\ context.cancelled
  /\ go["main"].phase \in Past
  /\ \A r \in Request : go[r].phase \notin {"checking", "gating"}

Sound(e) ==
  /\ e.acked => Upload(e) \in remote
  /\ e.result = "allowed" => e.of \in Request /\ go[e.of].eligible
  /\ e.result = "stopped" => Quiet

Ledgers ==
  /\ \A f \in Files : \A e \in f.events : Sound(e)
  /\ go["worker"].acks \subseteq remote
  /\ \A r \in Request : go[r].phase = "marking" => Made(r, "allowed") \in remote

-----------------------------------------------------------------------------
(* Types.                                                                  *)

LEMMA Names ==
  /\ "main" \notin Request /\ "timer" \notin Request /\ "worker" \notin Request
  /\ "none" \notin Goroutine
  /\ "main" \in Goroutine /\ "timer" \in Goroutine /\ "worker" \in Goroutine
  /\ Request \subseteq Goroutine
  BY ConstantsAssumption DEF Goroutine

LEMMA SameEvent ==
  ASSUME NEW e \in Event, NEW f \in Event, e.of = f.of, e.result = f.result, e.acked = f.acked
  PROVE  e = f
  BY DEF Event

LEMMA UploadType ==
  ASSUME NEW e \in Event
  PROVE  /\ Upload(e) \in Event /\ Upload(e).acked = FALSE
         /\ Upload(e).of = e.of /\ Upload(e).result = e.result
         /\ Upload(Upload(e)) = Upload(e)
  BY DEF Event, Upload

LEMMA UploadOnce ==
  ASSUME NEW e \in Event, e.acked = FALSE
  PROVE  Upload(e) = e
  BY UploadType, SameEvent

LEMMA MadeType ==
  ASSUME NEW of \in Request \cup {"broker"},
         NEW result \in {"started", "stopped", "idle", "allowed", "denied", "failed"}
  PROVE  /\ Made(of, result) \in Event
         /\ Made(of, result).of = of /\ Made(of, result).result = result
         /\ Made(of, result).acked = FALSE
         /\ Upload(Made(of, result)) = Made(of, result)
  <1>1. /\ Made(of, result) \in Event
        /\ Made(of, result).of = of /\ Made(of, result).result = result
        /\ Made(of, result).acked = FALSE
    BY DEF Made, Event
  <1> QED BY <1>1, UploadOnce

LEMMA MarkedElement ==
  ASSUME NEW e \in Event, NEW acks
  PROVE  LET x == [e EXCEPT !.acked = @ \/ Upload(e) \in acks] IN
         /\ x \in Event /\ x.of = e.of /\ x.result = e.result /\ Upload(x) = Upload(e)
         /\ x.acked <=> e.acked \/ Upload(e) \in acks
  BY DEF Event, Upload

LEMMA MarkedType ==
  ASSUME NEW E \in SUBSET Event, NEW acks
  PROVE  Marked(E, acks) \in SUBSET Event
  BY MarkedElement DEF Marked

LEMMA PendingType ==
  ASSUME NEW f \in StateFile
  PROVE  Pending(f) \subseteq Event /\ \A e \in Pending(f) : ~e.acked
  <1>1. f.events \subseteq Event
    BY DEF StateFile
  <1> QED BY <1>1, UploadType DEF Pending

\* The state file after f was saved with these events.
Stored(f, events) == [f EXCEPT !.stamp = @ + 1, !.events = events]

LEMMA StoredType ==
  ASSUME NEW f \in StateFile, NEW events \in SUBSET Event
  PROVE  LET d == Stored(f, events) IN
         /\ d \in StateFile
         /\ d.stamp = f.stamp + 1 /\ d.events = events /\ d.granted = f.granted
         /\ d.strict = f.strict /\ d.kept = f.kept /\ d.linked = f.linked
  <1>1. f.stamp \in Nat /\ f.stamp + 1 \in Nat
    BY DEF StateFile
  <1> DEFINE n == f.stamp + 1
  <1>2. Stored(f, events) = [f EXCEPT !.stamp = n, !.events = events]
    BY DEF Stored
  <1> HIDE DEF n
  <1>3. n \in Nat
    BY <1>1 DEF n
  <1>4. LET d == Stored(f, events) IN
        /\ d \in StateFile
        /\ d.stamp = n /\ d.events = events /\ d.granted = f.granted
        /\ d.strict = f.strict /\ d.kept = f.kept /\ d.linked = f.linked
    BY <1>2, <1>3 DEF StateFile
  <1> QED BY <1>4 DEF n

LEMMA WithEventsType ==
  ASSUME NEW f \in StateFile, NEW events \in SUBSET Event
  PROVE  LET d == [f EXCEPT !.events = events] IN
         /\ d \in StateFile
         /\ d.stamp = f.stamp /\ d.events = events /\ d.granted = f.granted
         /\ d.strict = f.strict /\ d.kept = f.kept /\ d.linked = f.linked
  BY DEF StateFile

LEMMA VaultType ==
  ASSUME NEW strict \in BOOLEAN
  PROVE  /\ Vault(strict) \in StateFile
         /\ Vault(strict).stamp = 0 /\ Vault(strict).events = {} /\ Vault(strict).granted = TRUE
         /\ Vault(strict).linked = TRUE
  BY DEF Vault, StateFile

LEMMA AtType ==
  ASSUME NEW phase \in Phase
  PROVE  /\ At(phase) \in Memory
         /\ At(phase).phase = phase /\ At(phase).result = "none" /\ At(phase).next = "done"
         /\ At(phase).eligible = FALSE /\ At(phase).strict = FALSE /\ At(phase).acks = {}
  BY DEF At, Memory, Phase

\* A goroutine's new memory, field by field.
LEMMA AfterType ==
  ASSUME NEW g \in Goroutine, go[g] \in Memory
  PROVE  /\ After(g) \in Memory
         /\ After(g).phase = IF g \in Request /\ Once /\ go[g].eligible THEN "stopping"
                             ELSE go[g].next
         /\ After(g).result = "none" /\ After(g).next = "done"
         /\ After(g).eligible = go[g].eligible /\ After(g).strict = FALSE
         /\ After(g).acks = {}
  <1> DEFINE phase == IF g \in Request /\ Once /\ go[g].eligible THEN "stopping" ELSE go[g].next
  <1>1. phase \in Phase /\ go[g].eligible \in BOOLEAN
    BY DEF Memory, Phase
  <1> HIDE DEF phase
  <1>2. /\ At(phase) \in Memory
        /\ At(phase).phase = phase /\ At(phase).result = "none" /\ At(phase).next = "done"
        /\ At(phase).strict = FALSE /\ At(phase).acks = {}
    BY <1>1, AtType
  <1>3. After(g) = [At(phase) EXCEPT !.eligible = go[g].eligible]
    BY DEF After, phase
  <1>4. /\ After(g) \in Memory /\ After(g).phase = phase /\ After(g).result = "none"
        /\ After(g).next = "done" /\ After(g).eligible = go[g].eligible
        /\ After(g).strict = FALSE /\ After(g).acks = {}
    BY <1>1, <1>2, <1>3 DEF Memory
  <1> QED BY <1>4 DEF phase

\* Every goroutine but g stays as it is.
Only(g) == \A h \in Goroutine : h # g => go'[h] = go[h]

SameButPhase(n, m) ==
  /\ n.result = m.result /\ n.next = m.next /\ n.eligible = m.eligible /\ n.strict = m.strict
  /\ n.acks = m.acks

LEMMA GotoMoves ==
  ASSUME NEW g \in Goroutine, NEW phase \in Phase, go \in [Goroutine -> Memory], Goto(g, phase)
  PROVE  /\ go' \in [Goroutine -> Memory] /\ Only(g)
         /\ go'[g].phase = phase /\ SameButPhase(go'[g], go[g])
  BY DEF Goto, Only, SameButPhase, Memory

LEMMA EndMoves ==
  ASSUME NEW g \in Goroutine, go \in [Goroutine -> Memory], End(g)
  PROVE  go' \in [Goroutine -> Memory] /\ Only(g) /\ go'[g] = After(g)
  BY AfterType DEF End, Only

LEMMA DenyMoves ==
  ASSUME NEW r \in Request, go \in [Goroutine -> Memory], Deny(r)
  PROVE  /\ go' \in [Goroutine -> Memory] /\ Only(r)
         /\ go'[r].phase = "waiting" /\ go'[r].result = "denied" /\ go'[r].next = go[r].next
         /\ go'[r].eligible = go[r].eligible
  <1>1. r \in Goroutine /\ go[r] \in Memory
    BY Names
  <1> DEFINE m == [go[r] EXCEPT !.phase = "waiting", !.result = "denied"]
  <1>2. /\ m \in Memory /\ m.phase = "waiting" /\ m.result = "denied"
        /\ m.next = go[r].next /\ m.eligible = go[r].eligible
    BY <1>1 DEF Memory, Phase
  <1>3. go' = [go EXCEPT ![r] = m]
    BY <1>1 DEF Deny
  <1> HIDE DEF m
  <1>4. go'[r] = m /\ go' \in [Goroutine -> Memory] /\ Only(r)
    BY <1>1, <1>2, <1>3 DEF Only
  <1> QED BY <1>2, <1>4

-----------------------------------------------------------------------------
(* One goroutine moves.                                                    *)

\* How the goroutine g takes its turn, as far as the others are concerned.
Turns(g) ==
  /\ go' \in [Goroutine -> Memory] /\ Only(g)
  /\ PlacedIn(g, go'[g])
  /\ HoldsIn(g, go'[g]) => mu' = g
  /\ mu' \in Goroutine \cup {"none"}
  /\ mu' # mu => mu = g \/ mu = "none"

\* And what it may become.
Becomes(g) ==
  /\ g = "main" => (Leaves(go'[g]) => context'.cancelled)
  /\ g = "main" => (go[g].phase \in Past => go'[g].phase \in Past)
  /\ g \in Request =>
       /\ go[g].eligible => go'[g].eligible
       /\ go'[g].eligible => go[g].eligible \/ (~claimed /\ claimed' = Once)
       /\ context.cancelled /\ go'[g].phase \in {"checking", "gating"} =>
            go[g].phase \in {"checking", "gating"}

Lasts ==
  /\ context' \in Context
  /\ context.cancelled => context'.cancelled
  /\ claimed' \in BOOLEAN
  /\ Once /\ claimed => claimed'

\* The goroutine g is at rest at the mutex, or has it.
LEMMA GoroutineOf ==
  ASSUME Control, NEW g \in Goroutine
  PROVE  /\ go \in [Goroutine -> Memory] /\ go[g] \in Memory /\ PlacedIn(g, go[g])
         /\ Holds(g) => mu = g
         /\ mu \in Goroutine \cup {"none"}
  BY DEF Control, TypeOK, Placed, Locked

LEMMA RequestOf ==
  ASSUME Control, NEW r \in Request
  PROVE  /\ r \in Goroutine /\ r # "main" /\ r # "timer" /\ r # "worker" /\ r # "none"
         /\ go \in [Goroutine -> Memory] /\ go[r] \in Memory /\ RequestAt(go[r])
         /\ go[r].phase \in Busy => mu = r
         /\ mu \in Goroutine \cup {"none"}
  BY Names, GoroutineOf DEF PlacedIn, Holds, HoldsIn

LEMMA RequestTurns ==
  ASSUME NEW r \in Request, go' \in [Goroutine -> Memory], Only(r), RequestAt(go'[r]),
         go'[r].phase \in Busy => mu' = r,
         mu' \in Goroutine \cup {"none"}, mu' # mu => mu = r \/ mu = "none"
  PROVE  Turns(r)
  BY Names DEF Turns, PlacedIn, HoldsIn

LEMMA RequestBecomes ==
  ASSUME NEW r \in Request,
         go[r].eligible => go'[r].eligible,
         go'[r].eligible => go[r].eligible \/ (~claimed /\ claimed' = Once),
         context.cancelled /\ go'[r].phase \in {"checking", "gating"} =>
            go[r].phase \in {"checking", "gating"}
  PROVE  Becomes(r)
  BY Names DEF Becomes

\* A request goes on to another phase.
LEMMA RequestGoes ==
  ASSUME Control, NEW r \in Request, NEW phase \in Phase, Goto(r, phase)
  PROVE  /\ go' \in [Goroutine -> Memory] /\ Only(r) /\ go'[r].phase = phase
         /\ go'[r].next = go[r].next /\ go'[r].result = go[r].result
         /\ go'[r].eligible = go[r].eligible
  BY RequestOf, GotoMoves DEF SameButPhase

\* A request is done with what it was at.
LEMMA RequestEnds ==
  ASSUME Control, NEW r \in Request, End(r)
  PROVE  /\ go' \in [Goroutine -> Memory] /\ Only(r)
         /\ RequestAt(go'[r]) /\ go'[r].phase \in {"stopping", "done"}
         /\ go'[r].eligible = go[r].eligible
  <1>1. go' \in [Goroutine -> Memory] /\ Only(r) /\ go'[r] = After(r)
    BY RequestOf, EndMoves
  <1>2. RequestAt(go[r]) /\ go[r] \in Memory /\ r \in Goroutine
    BY RequestOf
  <1>3. /\ go'[r].phase \in {"stopping", "done"} /\ go'[r].result = "none"
        /\ go'[r].next = "done" /\ go'[r].eligible = go[r].eligible
    BY <1>1, <1>2, AfterType DEF RequestAt
  <1> QED BY <1>1, <1>3 DEF RequestAt, Serves

LEMMA EndTurns ==
  ASSUME Control, NEW r \in Request, End(r),
         mu' = mu \/ mu' = "none", go[r].phase \in Busy \/ mu' = mu
  PROVE  Turns(r) /\ Becomes(r)
  <1>1. /\ go' \in [Goroutine -> Memory] /\ Only(r)
        /\ RequestAt(go'[r]) /\ go'[r].phase \in {"stopping", "done"}
        /\ go'[r].eligible = go[r].eligible
    BY RequestEnds
  <1>2. Turns(r)
    BY <1>1, RequestOf, RequestTurns DEF Busy
  <1>3. Becomes(r)
    BY <1>1, RequestBecomes
  <1> QED BY <1>2, <1>3

LEMMA DenyTurns ==
  ASSUME Control, NEW r \in Request, Deny(r), UNCHANGED mu
  PROVE  Turns(r) /\ Becomes(r)
  <1>1. /\ go' \in [Goroutine -> Memory] /\ Only(r)
        /\ go'[r].phase = "waiting" /\ go'[r].result = "denied" /\ go'[r].next = go[r].next
        /\ go'[r].eligible = go[r].eligible
    BY RequestOf, DenyMoves
  <1>2. RequestAt(go'[r])
    BY <1>1, RequestOf DEF RequestAt, Serves
  <1>3. Turns(r)
    BY <1>1, <1>2, RequestOf, RequestTurns DEF Busy
  <1>4. Becomes(r)
    BY <1>1, RequestBecomes
  <1> QED BY <1>3, <1>4

\* A request goes from where it serves to where it serves.
LEMMA GotoTurns ==
  ASSUME Control, NEW r \in Request, NEW phase \in Serves, Goto(r, phase),
         go[r].phase \in Serves,
         phase \in Busy => mu' = r,
         mu' = mu \/ (mu = "none" /\ mu' = r),
         phase = "checking" => ~context.cancelled,
         phase = "gating" => go[r].phase = "checking"
  PROVE  Turns(r) /\ Becomes(r)
  <1>0. phase \in Phase
    BY DEF Serves, Phase
  <1>1. /\ go' \in [Goroutine -> Memory] /\ Only(r) /\ go'[r].phase = phase
        /\ go'[r].next = go[r].next /\ go'[r].result = go[r].result
        /\ go'[r].eligible = go[r].eligible
    BY <1>0, RequestGoes
  <1>2. RequestAt(go'[r])
    <2>1. RequestAt(go[r])
      BY RequestOf
    <2> QED BY <1>1, <2>1 DEF RequestAt, Serves
  <1>3. Turns(r)
    BY <1>1, <1>2, RequestOf, RequestTurns
  <1>4. Becomes(r)
    BY <1>1, RequestBecomes
  <1> QED BY <1>3, <1>4

\* A request that has the mutex is about to note something.
LEMMA NoteNowTurns ==
  ASSUME Control, NEW r \in Request, NEW result \in {"denied", "failed"}, NoteNow(r, result),
         go[r].phase \in Busy
  PROVE  Turns(r) /\ Becomes(r)
  <1>1. CASE /\ go' = [go EXCEPT ![r].phase = "noting", ![r].result = result]
             /\ UNCHANGED mu
    <2>1. r \in Goroutine /\ go[r] \in Memory /\ RequestAt(go[r]) /\ mu = r
          /\ go \in [Goroutine -> Memory]
      BY RequestOf
    <2> DEFINE m == [go[r] EXCEPT !.phase = "noting", !.result = result]
    <2>2. /\ m \in Memory /\ m.phase = "noting" /\ m.result = result
          /\ m.next = go[r].next /\ m.eligible = go[r].eligible
      BY <2>1 DEF Memory, Phase
    <2>3. go' = [go EXCEPT ![r] = m]
      BY <1>1, <2>1
    <2> HIDE DEF m
    <2>4. go'[r] = m /\ go' \in [Goroutine -> Memory] /\ Only(r)
      BY <2>1, <2>2, <2>3 DEF Only
    <2>5. RequestAt(go'[r])
      BY <2>1, <2>2, <2>4 DEF RequestAt, Serves
    <2>6. Turns(r)
      BY <1>1, <2>1, <2>4, <2>5, RequestOf, RequestTurns
    <2>7. Becomes(r)
      BY <2>2, <2>4, RequestBecomes
    <2> QED BY <2>6, <2>7
  <1>2. CASE mu' = "none" /\ End(r)
    BY <1>2, EndTurns
  <1> QED BY <1>1, <1>2 DEF NoteNow

LEMMA HandleTurns ==
  ASSUME Control, NEW r \in Request, Handle(r)
  PROVE  Turns(r) /\ Becomes(r)
  <1>0. RequestAt(go[r]) /\ (go[r].phase \in Busy => mu = r) /\ r # "none"
    BY RequestOf
  <1>1. CASE Refuse(r) \/ Malformed(r) \/ TooLate(r)
    BY <1>1, DenyTurns DEF Refuse, Malformed, TooLate
  <1>2. CASE Claim(r)
    <2>1. r \in Goroutine /\ go[r] \in Memory /\ go \in [Goroutine -> Memory]
          /\ mu \in Goroutine \cup {"none"}
      BY RequestOf
    <2> DEFINE m == [go[r] EXCEPT !.phase = "claimed", !.eligible = TRUE]
    <2>2. /\ m \in Memory /\ m.phase = "claimed" /\ m.result = go[r].result
          /\ m.next = go[r].next /\ m.eligible = TRUE
      BY <2>1 DEF Memory, Phase
    <2>3. go' = [go EXCEPT ![r] = m] /\ ~claimed /\ claimed' = Once /\ mu' = mu
      BY <1>2, <2>1 DEF Claim
    <2> HIDE DEF m
    <2>4. go'[r] = m /\ go' \in [Goroutine -> Memory] /\ Only(r)
      BY <2>1, <2>2, <2>3 DEF Only
    <2>5. RequestAt(go'[r])
      BY <1>0, <2>2, <2>4 DEF RequestAt, Serves
    <2>6. Turns(r)
      BY <2>1, <2>2, <2>3, <2>4, <2>5, RequestTurns DEF Busy
    <2>7. Becomes(r)
      BY <2>2, <2>3, <2>4, RequestBecomes
    <2> QED BY <2>6, <2>7
  <1>3. CASE Call(r)
    BY <1>3, GotoTurns DEF Call, Serves, Busy
  <1>4. CASE Enter(r)
    BY <1>4, GotoTurns DEF Enter, Over, Serves
  <1>5. CASE EnterFails(r)
    BY <1>5, EndTurns DEF EnterFails
  <1>6. CASE CheckFails(r)
    <2>1. go[r].phase \in Busy /\ \E result \in {"denied", "failed"} : NoteNow(r, result)
      BY <1>6 DEF CheckFails, Busy
    <2> QED BY <2>1, NoteNowTurns
  <1>7. CASE CheckPasses(r)
    BY <1>0, <1>7, GotoTurns DEF CheckPasses, Serves, Busy
  <1>8. CASE Gate(r)
    <2>1. go[r].phase = "gating" /\ mu = r
      BY <1>0, <1>8 DEF Gate, Busy
    <2>2. \/ mu' = "none" /\ End(r)
          \/ mu' = mu /\ \E phase \in {"posting", "syncing"} : Goto(r, phase)
      BY <1>8 DEF Gate
    <2>3. CASE mu' = "none" /\ End(r)
      BY <2>1, <2>3, EndTurns DEF Busy
    <2>4. ASSUME NEW phase \in {"posting", "syncing"}, Goto(r, phase), mu' = mu
          PROVE  Turns(r) /\ Becomes(r)
      BY <2>1, <2>4, GotoTurns DEF Serves
    <2> QED BY <2>2, <2>3, <2>4
  <1>9. CASE Post(r) \/ PostFails(r)
    BY <1>0, <1>9, GotoTurns DEF Post, PostFails, Serves, Busy
  <1>10. CASE Mark(r)
    <2>1. go[r].phase = "marking" /\ mu = r /\ mu' = mu
      BY <1>0, <1>10 DEF Mark, Busy
    <2>2. Goto(r, "reading") \/ Goto(r, "blocking")
      BY <1>10 DEF Mark
    <2> QED BY <2>1, <2>2, GotoTurns DEF Serves
  <1>11. CASE Block(r)
    BY <1>11, EndTurns DEF Block, Busy
  <1>12. CASE Read(r)
    <2>0. go[r].phase = "reading" /\ mu = r
      BY <1>0, <1>12 DEF Read, Busy
    <2>1. CASE NoteNow(r, "failed")
      BY <2>0, <2>1, NoteNowTurns DEF Busy
    <2>2. CASE mu' = "none" /\ End(r)
      BY <2>0, <2>2, EndTurns DEF Busy
    <2>3. CASE mu' = "none" /\ go' = [go EXCEPT ![r].phase = "answering",
                                                ![r].strict = current.strict]
      <3>1. r \in Goroutine /\ go[r] \in Memory /\ go \in [Goroutine -> Memory]
            /\ current.strict \in BOOLEAN
        BY RequestOf DEF Control, TypeOK, StateFile
      <3> DEFINE m == [go[r] EXCEPT !.phase = "answering", !.strict = current.strict]
      <3>2. /\ m \in Memory /\ m.phase = "answering" /\ m.result = go[r].result
            /\ m.next = go[r].next /\ m.eligible = go[r].eligible
        BY <3>1 DEF Memory, Phase
      <3>3. go' = [go EXCEPT ![r] = m]
        BY <2>3, <3>1
      <3> HIDE DEF m
      <3>4. go'[r] = m /\ go' \in [Goroutine -> Memory] /\ Only(r)
        BY <3>1, <3>2, <3>3 DEF Only
      <3>5. RequestAt(go'[r])
        BY <1>0, <2>0, <3>2, <3>4 DEF RequestAt, Serves
      <3>6. Turns(r)
        BY <2>0, <2>3, <3>2, <3>4, <3>5, RequestTurns DEF Busy
      <3>7. Becomes(r)
        BY <3>2, <3>4, RequestBecomes
      <3> QED BY <3>6, <3>7
    <2> QED BY <1>12, <2>1, <2>2, <2>3 DEF Read
  <1>13. CASE Answer(r)
    BY <1>13, EndTurns DEF Answer
  <1> QED
    BY <1>1, <1>2, <1>3, <1>4, <1>5, <1>6, <1>7, <1>8, <1>9, <1>10, <1>11, <1>12, <1>13,
       Handle(r) DEF Handle

LEMMA ServingTurns ==
  ASSUME Control, NEW r \in Request, Arrive(r) \/ Serving(r)
  PROVE  Turns(r) /\ Becomes(r)
  <1>0. /\ RequestAt(go[r]) /\ (go[r].phase \in Busy => mu = r)
        /\ r # "none" /\ r # "main" /\ r \in Goroutine
        /\ mu \in Goroutine \cup {"none"}
    BY RequestOf
  <1>1. CASE Handle(r)
    BY <1>1, HandleTurns
  <1>2. ASSUME NEW phase \in {"arrived", "noting", "closing", "done"}, Goto(r, phase),
               go[r].phase \in {"off", "stopping", "closing"} \/ ToNote(r),
               phase = "noting" => ToNote(r) /\ mu = "none" /\ mu' = r,
               phase # "noting" => mu' = mu
        PROVE  Turns(r) /\ Becomes(r)
    <2>0. phase \in Phase
      BY DEF Phase
    <2>1. /\ go' \in [Goroutine -> Memory] /\ Only(r) /\ go'[r].phase = phase
          /\ go'[r].next = go[r].next /\ go'[r].result = go[r].result
          /\ go'[r].eligible = go[r].eligible
      BY <1>2, <2>0, RequestGoes
    <2>2. RequestAt(go'[r])
      BY <1>0, <1>2, <2>1 DEF RequestAt, Serves, ToNote
    <2>3. Turns(r)
      BY <1>0, <1>2, <2>1, <2>2, RequestTurns DEF Busy
    <2>4. Becomes(r)
      BY <2>1, RequestBecomes
    <2> QED BY <2>3, <2>4
  <1>3. CASE Arrive(r)
    BY <1>3, <1>2 DEF Arrive
  <1>4. CASE Begin(r)
    BY <1>4, <1>2 DEF Begin
  <1>5. CASE Ending(r)
    BY <1>5, <1>2 DEF Ending, Stop, Close
  <1>6. CASE Note(r) \/ NoteFails(r)
    <2>1. go[r].result # "stopped"
      BY <1>0 DEF RequestAt
    <2>2. End(r) /\ mu' = "none" /\ (go[r].phase \in Busy \/ mu' = mu)
      BY <1>6, <2>1 DEF Note, NoteFails, Noted, Busy
    <2> QED BY <2>2, EndTurns
  <1>7. CASE Flush(r)
    <2>1. go[r].phase \in {"syncing", "keeping"} /\ mu = r
      BY <1>0, <1>7 DEF Flush, Sync, Keep, Busy
    <2>2. mu' = mu /\ (Goto(r, "reading") \/ Goto(r, "keeping"))
      BY <1>0, <1>7 DEF Flush, Sync, Keep, Synced
    <2> QED BY <2>1, <2>2, GotoTurns DEF Serves
  <1> QED
    BY <1>1, <1>3, <1>4, <1>5, <1>6, <1>7, Arrive(r) \/ Serving(r) DEF Serving, Shared

LEMMA MainTurns ==
  ASSUME Control, Main
  PROVE  Turns("main") /\ Becomes("main")
  <1> DEFINE m == go["main"]
             n == go'["main"]
  <1>0. /\ "main" \in Goroutine /\ "main" \notin Request /\ "main" # "none"
        /\ go \in [Goroutine -> Memory] /\ m \in Memory /\ MainAt(m)
        /\ m.phase \in Busy => mu = "main"
        /\ mu \in Goroutine \cup {"none"}
        /\ Leaves(m) => context.cancelled
        /\ context \in Context
    BY Names, GoroutineOf DEF PlacedIn, Holds, HoldsIn, Control, TypeOK, Cancelled
  <1>1. SUFFICES /\ go' \in [Goroutine -> Memory] /\ Only("main")
                 /\ MainAt(n)
                 /\ n.phase \in Busy => mu' = "main"
                 /\ mu' # mu => mu = "main" \/ mu = "none"
                 /\ mu' \in {mu, "main", "none"}
                 /\ Leaves(n) => context'.cancelled
                 /\ m.phase \in Past => n.phase \in Past
    BY <1>0, Names DEF Turns, Becomes, PlacedIn, HoldsIn
  <1>2. CASE Begin("main")
    <2>1. /\ go' \in [Goroutine -> Memory] /\ Only("main")
          /\ n.phase = "noting" /\ SameButPhase(n, m)
      BY <1>0, <1>2, GotoMoves DEF Begin, Phase
    <2>2. m.phase = "waiting" /\ mu = "none" /\ mu' = "main" /\ UNCHANGED context
      BY <1>2 DEF Begin, ToNote
    <2> QED BY <1>0, <2>1, <2>2 DEF MainAt, Leaves, Past, SameButPhase
  <1>3. CASE Note("main") \/ NoteFails("main")
    <2>1. /\ go' \in [Goroutine -> Memory] /\ Only("main") /\ n = After("main")
      BY <1>0, <1>3, EndMoves DEF Note, NoteFails, Noted
    <2>2. /\ n.phase = m.next /\ n.result = "none"
      BY <1>0, <2>1, AfterType
    <2>3. /\ m.phase \in {"waiting", "noting"} /\ (mu = "main" \/ mu = "none")
          /\ mu' = IF m.result = "stopped" THEN "main" ELSE "none"
          /\ UNCHANGED context
      BY <1>0, <1>3 DEF Note, NoteFails, Noted, Busy, ToNote
    <2> QED BY <1>0, <2>1, <2>2, <2>3 DEF MainAt, Leaves, Past, Busy
  <1>4. CASE Flush("main")
    <2>1. m.phase \in {"syncing", "keeping"} /\ mu = "main"
      BY <1>0, <1>4 DEF Flush, Sync, Keep, Busy
    <2>2. \/ Goto("main", "keeping") /\ UNCHANGED <<mu, context>>
          \/ /\ Goto("main", "closing") /\ mu' = "none"
             /\ context' = [context EXCEPT !.signalled = TRUE]
      BY <1>4 DEF Flush, Sync, Keep, Synced
    <2>3. \E phase \in {"keeping", "closing"} : Goto("main", phase)
      BY <2>2
    <2>4. /\ go' \in [Goroutine -> Memory] /\ Only("main")
          /\ n.phase \in {"keeping", "closing"} /\ SameButPhase(n, m)
      BY <1>0, <2>3, GotoMoves DEF Phase
    <2>5. context'.cancelled
      BY <1>0, <2>1, <2>2 DEF Leaves, Context
    <2>6. n.phase = "closing" \/ mu' = mu
      <3>1. CASE Goto("main", "closing")
        BY <1>0, <3>1, GotoMoves DEF Phase
      <3> QED BY <2>2, <3>1
    <2> QED BY <1>0, <2>1, <2>2, <2>4, <2>5, <2>6 DEF MainAt, Leaves, Past, Busy
  <1>5. CASE Return
    <2> DEFINE x == [At("waiting") EXCEPT !.result = "stopped", !.next = "syncing"]
    <2>1. /\ x \in Memory /\ x.phase = "waiting" /\ x.result = "stopped" /\ x.next = "syncing"
      <3>1. At("waiting") \in Memory /\ At("waiting").phase = "waiting"
        BY AtType DEF Phase
      <3> QED BY <3>1 DEF Memory, Phase
    <2>2. go' = [go EXCEPT !["main"] = x] /\ m.phase = "serving" /\ UNCHANGED mu
          /\ context' = [context EXCEPT !.cancelled = TRUE, !.closed = TRUE]
      BY <1>5 DEF Return
    <2>3. context'.cancelled
      BY <1>0, <2>2 DEF Context
    <2> HIDE DEF x
    <2>4. n = x /\ go' \in [Goroutine -> Memory] /\ Only("main")
      BY <1>0, <2>1, <2>2 DEF Only
    <2> QED BY <1>0, <2>1, <2>2, <2>3, <2>4 DEF MainAt, Leaves, Past, Busy
  <1>6. CASE Exit
    <2>1. /\ go' \in [Goroutine -> Memory] /\ Only("main")
          /\ n.phase = "done" /\ SameButPhase(n, m)
      BY <1>0, <1>6, GotoMoves DEF Exit, Phase
    <2>2. m.phase = "closing" /\ UNCHANGED <<mu, context>>
      BY <1>6 DEF Exit
    <2> QED BY <1>0, <2>1, <2>2 DEF MainAt, Leaves, Past, Busy
  <1> QED BY <1>2, <1>3, <1>4, <1>5, <1>6, Main DEF Main, Shared

LEMMA TimerTurns ==
  ASSUME Control, Timer \/ IdleFires
  PROVE  Turns("timer") /\ Becomes("timer")
  <1> DEFINE m == go["timer"]
             n == go'["timer"]
  <1>0. /\ "timer" \in Goroutine /\ "timer" \notin Request /\ "timer" # "none"
        /\ go \in [Goroutine -> Memory] /\ m \in Memory /\ TimerAt(m)
        /\ m.phase \in Busy => mu = "timer"
        /\ mu \in Goroutine \cup {"none"}
    BY Names, GoroutineOf DEF PlacedIn, Holds, HoldsIn
  <1>1. SUFFICES /\ go' \in [Goroutine -> Memory] /\ Only("timer")
                 /\ TimerAt(n)
                 /\ n.phase \in Busy => mu' = "timer"
                 /\ mu' # mu => mu = "timer" \/ mu = "none"
                 /\ mu' \in {mu, "timer", "none"}
    BY <1>0, Names DEF Turns, Becomes, PlacedIn, HoldsIn
  <1>2. CASE Begin("timer")
    <2>1. /\ go' \in [Goroutine -> Memory] /\ Only("timer")
          /\ n.phase = "noting" /\ SameButPhase(n, m)
      BY <1>0, <1>2, GotoMoves DEF Begin, Phase
    <2>2. m.phase = "waiting" /\ m.result # "none" /\ mu = "none" /\ mu' = "timer"
      BY <1>2 DEF Begin, ToNote
    <2> QED BY <1>0, <2>1, <2>2 DEF TimerAt, SameButPhase
  <1>3. CASE Note("timer") \/ NoteFails("timer")
    <2>1. /\ go' \in [Goroutine -> Memory] /\ Only("timer") /\ n = After("timer")
      BY <1>0, <1>3, EndMoves DEF Note, NoteFails, Noted
    <2>2. /\ n.phase = m.next /\ n.result = "none" /\ n.next = "done"
      BY <1>0, <2>1, AfterType
    <2>3. /\ mu = "timer" \/ mu = "none"
          /\ mu' = "none"
      BY <1>0, <1>3 DEF Note, NoteFails, Noted, Busy, TimerAt
    <2> QED BY <1>0, <2>1, <2>2, <2>3 DEF TimerAt, Busy
  <1>4. CASE SeesEnd \/ Ending("timer")
    <2>1. UNCHANGED mu /\ \E phase \in {"stopping", "closing", "done"} : Goto("timer", phase)
      BY <1>4 DEF SeesEnd, Ending, Stop, Close
    <2>2. /\ go' \in [Goroutine -> Memory] /\ Only("timer")
          /\ n.phase \in {"stopping", "closing", "done"} /\ SameButPhase(n, m)
      BY <1>0, <2>1, GotoMoves DEF Phase
    <2> QED BY <1>0, <2>1, <2>2 DEF TimerAt, SameButPhase, Busy
  <1>5. CASE IdleFires
    <2> DEFINE x == [m EXCEPT !.result = "idle", !.next = "stopping"]
    <2>1. /\ x \in Memory /\ x.phase = "waiting" /\ x.result = "idle" /\ x.next = "stopping"
      BY <1>0, <1>5 DEF Memory, Phase, IdleFires
    <2>2. go' = [go EXCEPT !["timer"] = x] /\ UNCHANGED mu
      BY <1>5 DEF IdleFires
    <2> HIDE DEF x
    <2>3. n = x /\ go' \in [Goroutine -> Memory] /\ Only("timer")
      BY <1>0, <2>1, <2>2 DEF Only
    <2> QED BY <2>1, <2>2, <2>3 DEF TimerAt, Busy
  <1> QED
    BY <1>2, <1>3, <1>4, <1>5, Timer \/ IdleFires DEF Timer, Shared

\* The worker goes on with what it was told, or is done with an upload.
LEMMA RestMoves ==
  ASSUME Control, Rest
  PROVE  /\ go' \in [Goroutine -> Memory] /\ Only("worker")
         /\ go'["worker"].phase = "waiting" /\ go'["worker"].result = "none"
         /\ go'["worker"].acks = {}
         /\ latest' = Vault(FALSE)
  <1>1. /\ At("waiting") \in Memory /\ At("waiting").phase = "waiting"
        /\ At("waiting").result = "none" /\ At("waiting").acks = {}
    BY AtType DEF Phase
  <1>2. go' = [go EXCEPT !["worker"] = At("waiting")] /\ latest' = Vault(FALSE)
        /\ go \in [Goroutine -> Memory] /\ "worker" \in Goroutine
    BY Names, GoroutineOf DEF Rest
  <1> QED BY <1>1, <1>2 DEF Only

LEMMA WorkerTurns ==
  ASSUME Control, Worker
  PROVE  Turns("worker") /\ Becomes("worker")
  <1> DEFINE m == go["worker"]
             n == go'["worker"]
  <1>0. /\ "worker" \in Goroutine /\ "worker" \notin Request /\ "worker" # "none"
        /\ go \in [Goroutine -> Memory] /\ m \in Memory /\ WorkerAt(m)
        /\ m.phase = "marking" => mu = "worker"
        /\ mu \in Goroutine \cup {"none"}
    BY Names, GoroutineOf DEF PlacedIn, Holds, HoldsIn
  <1>1. SUFFICES /\ go' \in [Goroutine -> Memory] /\ Only("worker")
                 /\ WorkerAt(n)
                 /\ n.phase = "marking" => mu' = "worker"
                 /\ mu' # mu => mu = "worker" \/ mu = "none"
                 /\ mu' \in {mu, "worker", "none"}
    BY <1>0, Names DEF Turns, Becomes, PlacedIn, HoldsIn
  <1>2. ASSUME NEW phase \in {"checking", "posting", "syncing", "marking", "done"},
               Goto("worker", phase)
        PROVE  /\ go' \in [Goroutine -> Memory] /\ Only("worker")
               /\ n.phase = phase /\ WorkerAt(n)
    <2>1. /\ go' \in [Goroutine -> Memory] /\ Only("worker")
          /\ n.phase = phase /\ SameButPhase(n, m)
      BY <1>0, <1>2, GotoMoves DEF Phase
    <2> QED BY <1>0, <2>1 DEF WorkerAt, SameButPhase
  <1>3. ASSUME Rest
        PROVE  /\ go' \in [Goroutine -> Memory] /\ Only("worker")
               /\ n.phase = "waiting" /\ WorkerAt(n)
    BY <1>3, RestMoves DEF WorkerAt
  <1>4. CASE Take \/ WorkerEnds
    BY <1>2, <1>4 DEF Take, WorkerEnds
  <1>5. CASE Look
    BY <1>2, <1>3, <1>5 DEF Look
  <1>6. CASE Refresh
    BY <1>2, <1>3, <1>6 DEF Refresh
  <1>7. CASE Send
    <2>1. UNCHANGED mu
      BY <1>7 DEF Send
    <2>2. CASE Rest
      BY <1>3, <2>1, <2>2
    <2>3. ASSUME NEW acks \in SUBSET Pending(latest),
                 go' = [go EXCEPT !["worker"].phase = "calling", !["worker"].acks = acks]
          PROVE  /\ go' \in [Goroutine -> Memory] /\ Only("worker")
                 /\ n.phase = "calling" /\ WorkerAt(n)
      <3>1. acks \in SUBSET Event
        BY PendingType DEF Control, TypeOK
      <3> DEFINE x == [m EXCEPT !.phase = "calling", !.acks = acks]
      <3>2. x \in Memory /\ x.phase = "calling" /\ x.result = "none"
        BY <1>0, <3>1 DEF Memory, Phase, WorkerAt
      <3>3. go' = [go EXCEPT !["worker"] = x]
        BY <2>3
      <3> HIDE DEF x
      <3> QED BY <1>0, <3>2, <3>3 DEF Only, WorkerAt
    <2> QED BY <1>7, <2>1, <2>2, <2>3 DEF Send
  <1>8. CASE Reload
    BY <1>2, <1>3, <1>8 DEF Reload
  <1>9. CASE Settle
    BY <1>0, <1>3, <1>9 DEF Settle
  <1> QED BY <1>4, <1>5, <1>6, <1>7, <1>8, <1>9, Worker DEF Worker

-----------------------------------------------------------------------------
(* Loads, saves and uploads.                                               *)

LEMMA FilesOf ==
  ASSUME TypeOK
  PROVE  /\ disk \in StateFile /\ current \in StateFile /\ latest \in StateFile
         /\ disk.events \in SUBSET Event /\ current.events \in SUBSET Event
         /\ latest.events \in SUBSET Event
         /\ remote \in SUBSET Event /\ (\A e \in remote : ~e.acked)
  BY DEF TypeOK, StateFile

LEMMA SavesStored ==
  ASSUME NEW f \in StateFile, NEW events \in SUBSET Event, Saves(f, events)
  PROVE  /\ disk' \in StateFile /\ disk.stamp = f.stamp
         /\ disk'.stamp = f.stamp + 1 /\ disk'.events = events /\ disk'.granted = f.granted
         /\ disk'.strict = f.strict /\ disk'.kept = f.kept /\ disk'.linked = f.linked
  <1>1. disk' = Stored(f, events) /\ disk.stamp = f.stamp
    BY DEF Saves, Stored
  <1> QED BY <1>1, StoredType

\* The current store with these events: saved, or not.
Kept(events) ==
  /\ disk' \in StateFile /\ current' \in StateFile
  /\ current'.events = events /\ current'.granted = current.granted
  /\ current'.strict = current.strict /\ current'.linked = current.linked
  /\ \/ disk' = current' /\ disk.stamp = current.stamp /\ disk'.stamp = disk.stamp + 1
     \/ disk' = disk /\ current'.stamp = current.stamp

LEMMA CurrentKept ==
  ASSUME TypeOK, NEW events \in SUBSET Event,
         SaveCurrent(events) \/ SaveCurrentFails(events)
  PROVE  Kept(events)
  <1>1. disk \in StateFile /\ current \in StateFile
    BY FilesOf
  <1>2. CASE SaveCurrent(events)
    <2>1. Saves(current, events) /\ current' = disk'
      BY <1>2 DEF SaveCurrent
    <2> QED BY <1>1, <2>1, SavesStored DEF Kept
  <1>3. CASE SaveCurrentFails(events)
    <2>1. disk' = disk /\ current' = [current EXCEPT !.events = events]
      BY <1>3 DEF SaveCurrentFails, SaveFails
    <2> QED BY <1>1, <2>1, WithEventsType DEF Kept
  <1> QED BY <1>2, <1>3

\* The saves of the current store: by whom, and with which events.
LEMMA WhoKeeps ==
  ASSUME TypeOK, NEW g \in Request \cup {"main", "timer"}, go[g].result # "none", Note(g)
  PROVE  /\ Made(About(g), go[g].result) \in Event
         /\ Kept(current.events \cup {Made(About(g), go[g].result)})
  <1>1. go[g] \in Memory
    BY Names DEF TypeOK
  <1>2. About(g) \in Request \cup {"broker"} /\ go[g].result \in {"started", "stopped", "idle", "denied", "failed"}
    BY <1>1 DEF About, Memory
  <1>3. Made(About(g), go[g].result) \in Event
    BY <1>2, MadeType
  <1>4. current.events \cup {Made(About(g), go[g].result)} \in SUBSET Event
    BY <1>3, FilesOf
  <1>5. SaveCurrent(current.events \cup {Made(About(g), go[g].result)})
        \/ SaveCurrentFails(current.events \cup {Made(About(g), go[g].result)})
    BY DEF Note
  <1> QED BY <1>3, <1>4, <1>5, CurrentKept

LEMMA GateKeeps ==
  ASSUME TypeOK, NEW r \in Request, Gate(r)
  PROVE  Kept(current.events \cup {Made(r, "allowed")})
  <1>0. Made(r, "allowed") \in Event
    BY MadeType
  <1>1. current.events \cup {Made(r, "allowed")} \in SUBSET Event
    BY <1>0, FilesOf
  <1>2. SaveCurrent(current.events \cup {Made(r, "allowed")})
        \/ SaveCurrentFails(current.events \cup {Made(r, "allowed")})
    BY DEF Gate
  <1> QED BY <1>1, <1>2, CurrentKept

LEMMA MarkKeeps ==
  ASSUME TypeOK, NEW r \in Request, Mark(r)
  PROVE  Kept(Marked(current.events, {Made(r, "allowed")}))
  <1>1. Marked(current.events, {Made(r, "allowed")}) \in SUBSET Event
    BY MarkedType, FilesOf
  <1>2. SaveCurrent(Marked(current.events, {Made(r, "allowed")}))
        \/ SaveCurrentFails(Marked(current.events, {Made(r, "allowed")}))
    BY DEF Mark
  <1> QED BY <1>1, <1>2, CurrentKept

LEMMA BlockKeeps ==
  ASSUME TypeOK, NEW r \in Request, Block(r)
  PROVE  Kept(current.events \cup {Made(r, "failed")})
  <1>0. Made(r, "failed") \in Event
    BY MadeType
  <1>1. current.events \cup {Made(r, "failed")} \in SUBSET Event
    BY <1>0, FilesOf
  <1>2. SaveCurrent(current.events \cup {Made(r, "failed")})
        \/ SaveCurrentFails(current.events \cup {Made(r, "failed")})
    BY DEF Block
  <1> QED BY <1>1, <1>2, CurrentKept

LEMMA KeepKeeps ==
  ASSUME TypeOK, NEW g, Keep(g)
  PROVE  Kept(current.events)
  <1>1. SaveCurrent(current.events) \/ SaveCurrentFails(current.events)
    BY DEF Keep
  <1> QED BY <1>1, FilesOf, CurrentKept

\* The upload of a request or of main.
LEMMA SyncSends ==
  ASSUME TypeOK, NEW g, Sync(g)
  PROVE  /\ UNCHANGED <<disk, latest>>
         /\ current' \in StateFile
         /\ current'.stamp = current.stamp /\ current'.granted = current.granted
         /\ current'.strict = current.strict /\ current'.linked = current.linked
         /\ \E acks \in SUBSET Pending(current), sent \in SUBSET Pending(current) :
              /\ acks \subseteq sent
              /\ remote' = remote \cup sent
              /\ \/ current' = current
                 \/ current'.events = Marked(current.events, acks) /\ Goto(g, "keeping")
  <1>1. PICK acks \in SUBSET Pending(current) :
               /\ Uploaded(Pending(current), acks)
               /\ \/ UNCHANGED current
                  \/ /\ current' = [current EXCEPT !.events = Marked(@, acks)]
                     /\ Goto(g, "keeping")
    BY DEF Sync
  <1>2. PICK sent \in SUBSET Pending(current) : acks \subseteq sent /\ remote' = remote \cup sent
    BY <1>1 DEF Uploaded
  <1>3. current \in StateFile /\ current.events \in SUBSET Event
    BY FilesOf
  <1>4. Marked(current.events, acks) \in SUBSET Event
    BY <1>3, MarkedType
  <1>5. CASE UNCHANGED current
    BY <1>2, <1>3, <1>5 DEF Sync
  <1>6. CASE current' = [current EXCEPT !.events = Marked(@, acks)] /\ Goto(g, "keeping")
    <2>1. current' = [current EXCEPT !.events = Marked(current.events, acks)]
      BY <1>6
    <2>2. /\ current' \in StateFile /\ current'.events = Marked(current.events, acks)
          /\ current'.stamp = current.stamp /\ current'.granted = current.granted
          /\ current'.strict = current.strict /\ current'.linked = current.linked
      BY <1>3, <1>4, <2>1, WithEventsType
    <2> QED BY <1>2, <1>6, <2>2 DEF Sync
  <1> QED BY <1>1, <1>5, <1>6

\* The worker's upload.
LEMMA SendSends ==
  ASSUME TypeOK, Send
  PROVE  /\ UNCHANGED <<disk, current>>
         /\ \E acks \in SUBSET Pending(latest), sent \in SUBSET Pending(latest) :
              /\ acks \subseteq sent
              /\ remote' = remote \cup sent
              /\ \/ Rest
                 \/ /\ go' = [go EXCEPT !["worker"].phase = "calling", !["worker"].acks = acks]
                    /\ UNCHANGED latest
  <1>1. PICK acks \in SUBSET Pending(latest) :
               /\ Uploaded(Pending(latest), acks)
               /\ \/ Rest
                  \/ /\ go' = [go EXCEPT !["worker"].phase = "calling", !["worker"].acks = acks]
                     /\ UNCHANGED latest
    BY DEF Send
  <1>2. PICK sent \in SUBSET Pending(latest) : acks \subseteq sent /\ remote' = remote \cup sent
    BY <1>1 DEF Uploaded
  <1> QED BY <1>1, <1>2 DEF Send

\* The worker's saves.
LEMMA RefreshSaves ==
  ASSUME TypeOK, Refresh
  PROVE  \/ /\ disk' \in StateFile /\ disk.stamp = latest.stamp /\ disk'.stamp = disk.stamp + 1
            /\ disk'.events = latest.events /\ disk'.granted = latest.granted
            /\ latest' = disk' /\ Goto("worker", "syncing")
         \/ UNCHANGED disk /\ Rest
  BY FilesOf, SavesStored DEF Refresh, SaveFails

LEMMA SettleSaves ==
  ASSUME TypeOK, Settle
  PROVE  /\ Marked(latest.events, go["worker"].acks) \in SUBSET Event
         /\ \/ /\ disk' \in StateFile /\ disk.stamp = latest.stamp /\ disk'.stamp = disk.stamp + 1
               /\ disk'.events = Marked(latest.events, go["worker"].acks)
               /\ disk'.granted = latest.granted
            \/ UNCHANGED disk
         /\ Rest
  BY FilesOf, SavesStored, MarkedType DEF Settle, SaveFails

\* A change by another process.
LEMMA ChangeSaves ==
  ASSUME TypeOK, Change
  PROVE  disk' \in StateFile /\ disk'.stamp = disk.stamp + 1 /\ disk'.events = disk.events
  <1>1. disk \in StateFile
    BY FilesOf
  <1>2. PICK f \in {disk, [disk EXCEPT !.granted = ~@], [disk EXCEPT !.strict = ~@],
                    [disk EXCEPT !.kept = FALSE], [disk EXCEPT !.linked = ~@]} :
               disk' = [f EXCEPT !.stamp = disk.stamp + 1]
    BY DEF Change
  <1>3. f \in StateFile /\ f.events = disk.events
    BY <1>1, <1>2 DEF StateFile
  <1> DEFINE n == disk.stamp + 1
  <1>4. n \in Nat
    BY <1>1 DEF StateFile
  <1>5. disk' = [f EXCEPT !.stamp = n]
    BY <1>2
  <1> HIDE DEF n
  <1>6. disk' \in StateFile /\ disk'.stamp = n /\ disk'.events = f.events
    BY <1>3, <1>4, <1>5 DEF StateFile
  <1> QED BY <1>3, <1>6 DEF n

-----------------------------------------------------------------------------
(* Where the events of the files come from.                                *)

Same(e, d) ==
  /\ e.of = d.of /\ e.result = d.result /\ Upload(e) = Upload(d)
  /\ e.acked => d.acked \/ Upload(d) \in remote'

\* A request notes that it may read at the gate only, and main that it stops.
Added(e) ==
  /\ ~e.acked
  /\ e.result = "allowed" => e.of \in Request /\ go[e.of].phase = "gating"
  /\ e.result = "stopped" => Note("main") /\ go["main"].result = "stopped"

Given(e) == Added(e) \/ \E f \in Files : \E d \in f.events : Same(e, d)

Typed ==
  /\ disk' \in StateFile /\ current' \in StateFile /\ latest' \in StateFile
  /\ remote' \in SUBSET Event /\ (\A e \in remote' : ~e.acked)
  /\ remote \subseteq remote'

Derived ==
  /\ Typed
  /\ \A f \in {disk', current', latest'} : \A e \in f.events : Given(e)
  /\ go'["worker"].acks \subseteq remote'

LEMMA GivenOld ==
  ASSUME NEW f \in Files, NEW e \in f.events
  PROVE  Given(e)
  BY DEF Given, Same

LEMMA GivenMarked ==
  ASSUME TypeOK, NEW f \in Files, NEW acks, acks \subseteq remote',
         NEW e \in Marked(f.events, acks)
  PROVE  Given(e)
  <1>1. PICK d \in f.events : e = [d EXCEPT !.acked = @ \/ Upload(d) \in acks]
    BY DEF Marked
  <1>2. d \in Event
    BY FilesOf DEF Files
  <1>3. Same(e, d)
    BY <1>1, <1>2, MarkedElement DEF Same
  <1> QED BY <1>3 DEF Given

LEMMA SilentDerived ==
  ASSUME TypeOK, UNCHANGED <<disk, current, latest>>, Typed, go'["worker"].acks \subseteq remote'
  PROVE  Derived
  <1>1. \A f \in Files : \A e \in f.events : Given(e)
    BY GivenOld
  <1> QED BY <1>1 DEF Derived, Files

LEMMA LoadDerived ==
  ASSUME TypeOK, current' = disk, UNCHANGED <<disk, latest, remote>>,
         go'["worker"].acks \subseteq remote
  PROVE  Derived
  <1>1. \A f \in Files : \A e \in f.events : Given(e)
    BY GivenOld
  <1> QED BY <1>1, FilesOf DEF Derived, Typed, Files

LEMMA KeptDerived ==
  ASSUME TypeOK, NEW events, Kept(events), UNCHANGED <<latest, remote>>,
         \A e \in events : Given(e),
         go'["worker"].acks \subseteq remote
  PROVE  Derived
  <1>1. \A f \in Files : \A e \in f.events : Given(e)
    BY GivenOld
  <1>2. Typed
    BY FilesOf DEF Typed, Kept
  <1>3. current'.events = events /\ disk'.events \in {events, disk.events} /\ latest' = latest
    BY DEF Kept
  <1> QED BY <1>1, <1>2, <1>3 DEF Derived, Files

LEMMA MadeGiven ==
  ASSUME NEW of \in Request \cup {"broker"},
         NEW result \in {"started", "stopped", "idle", "allowed", "denied", "failed"},
         result = "allowed" => of \in Request /\ go[of].phase = "gating",
         result = "stopped" => Note("main") /\ go["main"].result = "stopped"
  PROVE  \A e \in current.events \cup {Made(of, result)} : Given(e)
  <1>1. Added(Made(of, result))
    BY MadeType, ZenonT(40) DEF Added
  <1>2. \A e \in current.events : Given(e)
    BY GivenOld DEF Files
  <1> QED BY <1>1, <1>2 DEF Given

\* The events a request or main uploads.
LEMMA SyncDerived ==
  ASSUME TypeOK, NEW g, Sync(g), go'["worker"].acks = go["worker"].acks,
         go["worker"].acks \subseteq remote
  PROVE  Derived
  <1>1. PICK acks \in SUBSET Pending(current), sent \in SUBSET Pending(current) :
               /\ acks \subseteq sent
               /\ remote' = remote \cup sent
               /\ current' = current \/ current'.events = Marked(current.events, acks)
    BY SyncSends
  <1>2. current' \in StateFile /\ UNCHANGED <<disk, latest>>
    BY SyncSends
  <1>3. Typed
    BY <1>1, <1>2, FilesOf, PendingType DEF Typed
  <1>4. \A f \in Files : \A e \in f.events : Given(e)
    BY GivenOld
  <1>5. \A e \in Marked(current.events, acks) : Given(e)
    BY <1>1, GivenMarked DEF Files
  <1>6. \A e \in current'.events : Given(e)
    BY <1>1, <1>4, <1>5 DEF Files
  <1>7. go'["worker"].acks \subseteq remote'
    BY <1>1
  <1> QED BY <1>2, <1>3, <1>4, <1>6, <1>7 DEF Derived, Files

\* The event of a goroutine that notes.
LEMMA NoteDerived ==
  ASSUME TypeOK, NEW g \in Request \cup {"main", "timer"}, Note(g), go[g].result # "none",
         go[g].result = "stopped" => g = "main",
         go'["worker"].acks = go["worker"].acks, go["worker"].acks \subseteq remote
  PROVE  Derived
  <1>1. Kept(current.events \cup {Made(About(g), go[g].result)})
    BY WhoKeeps
  <1>2. UNCHANGED <<latest, remote>>
    BY DEF Note
  <1>3. go[g] \in Memory
    BY Names DEF TypeOK
  <1>4. /\ About(g) \in Request \cup {"broker"}
        /\ go[g].result \in {"started", "stopped", "idle", "denied", "failed"}
    BY <1>3 DEF About, Memory
  <1>5. \A e \in current.events \cup {Made(About(g), go[g].result)} : Given(e)
    BY <1>4, MadeGiven
  <1> QED BY <1>1, <1>2, <1>5, KeptDerived

\* What the actions of a request do to the files.
LEMMA RequestData ==
  ASSUME NEW r \in Request, Arrive(r) \/ Serving(r)
  PROVE  \/ UNCHANGED <<disk, current, latest, remote>>
         \/ current' = disk /\ UNCHANGED <<disk, latest, remote>>
         \/ /\ go[r].phase = "posting" /\ UNCHANGED <<disk, current, latest>>
            /\ remote' = remote \cup {Made(r, "allowed")}
         \/ Note(r) \/ Gate(r) \/ Mark(r) \/ Block(r) \/ Sync(r) \/ Keep(r)
  <1>1. CASE Arrive(r) \/ Refuse(r) \/ Claim(r) \/ Malformed(r) \/ Call(r) \/ Enter(r)
    BY <1>1 DEF Arrive, Refuse, Claim, Malformed, Call, Enter
  <1>2. CASE EnterFails(r) \/ CheckFails(r) \/ CheckPasses(r) \/ Post(r) \/ PostFails(r)
    BY <1>2 DEF EnterFails, CheckFails, CheckPasses, Post, PostFails, NoteNow
  <1>3. CASE Read(r) \/ Answer(r) \/ TooLate(r)
    BY <1>3 DEF Read, Answer, TooLate, NoteNow
  <1>4. CASE Begin(r) \/ NoteFails(r) \/ Ending(r)
    BY <1>4 DEF Begin, NoteFails, Ending, Stop, Close
  <1> QED BY <1>1, <1>2, <1>3, <1>4, Arrive(r) \/ Serving(r) DEF Serving, Handle, Shared, Flush

LEMMA RequestDerived ==
  ASSUME Control, NEW r \in Request, Arrive(r) \/ Serving(r), Ledgers
  PROVE  Derived
  <1>0. /\ TypeOK /\ go'["worker"].acks = go["worker"].acks /\ RequestAt(go[r])
        /\ r \notin {"main", "worker"} /\ (go[r].phase \in Busy => mu = r)
        /\ go["worker"].acks \subseteq remote
        /\ go[r].phase = "marking" => Made(r, "allowed") \in remote
    BY Names, RequestOf, ServingTurns DEF Control, Turns, Only, Ledgers
  <1>1. CASE UNCHANGED <<disk, current, latest, remote>>
    <2>1. Typed
      BY <1>0, <1>1, FilesOf DEF Typed
    <2> QED BY <1>0, <1>1, <2>1, SilentDerived
  <1>2. CASE current' = disk /\ UNCHANGED <<disk, latest, remote>>
    BY <1>0, <1>2, LoadDerived
  <1>3. CASE UNCHANGED <<disk, current, latest>> /\ remote' = remote \cup {Made(r, "allowed")}
    <2>1. Made(r, "allowed") \in Event /\ ~Made(r, "allowed").acked
      BY MadeType
    <2>2. Typed
      BY <1>0, <1>3, <2>1, FilesOf DEF Typed
    <2> QED BY <1>0, <1>3, <2>2, SilentDerived
  <1>4. CASE Note(r)
    <2>1. go[r].result \notin {"none", "stopped"}
      BY <1>0, <1>4 DEF RequestAt, Note
    <2> QED BY <1>0, <1>4, <2>1, NoteDerived
  <1>5. CASE Gate(r)
    <2>1. Kept(current.events \cup {Made(r, "allowed")}) /\ UNCHANGED <<latest, remote>>
      BY <1>0, <1>5, GateKeeps DEF Gate
    <2>2. \A e \in current.events \cup {Made(r, "allowed")} : Given(e)
      BY <1>5, MadeGiven DEF Gate
    <2> QED BY <1>0, <2>1, <2>2, KeptDerived
  <1>6. CASE Mark(r)
    <2>1. Kept(Marked(current.events, {Made(r, "allowed")})) /\ UNCHANGED <<latest, remote>>
      BY <1>0, <1>6, MarkKeeps DEF Mark
    <2>2. Made(r, "allowed") \in remote
      BY <1>0, <1>6 DEF Mark
    <2>3. \A e \in Marked(current.events, {Made(r, "allowed")}) : Given(e)
      BY <1>0, <2>1, <2>2, GivenMarked DEF Files
    <2> QED BY <1>0, <2>1, <2>3, KeptDerived
  <1>7. CASE Block(r)
    <2>1. Kept(current.events \cup {Made(r, "failed")}) /\ UNCHANGED <<latest, remote>>
      BY <1>0, <1>7, BlockKeeps DEF Block
    <2>2. \A e \in current.events \cup {Made(r, "failed")} : Given(e)
      BY MadeGiven
    <2> QED BY <1>0, <2>1, <2>2, KeptDerived
  <1>8. CASE Sync(r)
    BY <1>0, <1>8, SyncDerived
  <1>9. CASE Keep(r)
    <2>1. Kept(current.events) /\ UNCHANGED <<latest, remote>>
      BY <1>0, <1>9, KeepKeeps DEF Keep
    <2>2. \A e \in current.events : Given(e)
      BY GivenOld DEF Files
    <2> QED BY <1>0, <2>1, <2>2, KeptDerived
  <1> QED BY <1>1, <1>2, <1>3, <1>4, <1>5, <1>6, <1>7, <1>8, <1>9, RequestData

\* Which step brings a request to where the state knows more of it.
LEMMA RequestFlow ==
  ASSUME Control, NEW r \in Request, Arrive(r) \/ Serving(r)
  PROVE  LET p == go'[r].phase IN
         \/ /\ p \in {"arrived", "claimed", "calling", "checking", "noting", "waiting", "stopping",
                     "closing", "done"}
            /\ p = "checking" => Enter(r)
            /\ p = "noting" => current' = disk
         \/ p = "gating" /\ CheckPasses(r)
         \/ p = "posting" /\ Gate(r) /\ SaveCurrent(current.events \cup {Made(r, "allowed")})
         \/ p = "syncing" /\ Gate(r) /\ SaveCurrent(current.events \cup {Made(r, "allowed")})
            /\ ~current.strict
         \/ p = "marking" /\ Post(r)
         \/ p = "blocking" /\ (PostFails(r) \/ Mark(r))
         \/ p = "reading" /\ (Mark(r) \/ Sync(r) \/ Keep(r))
         \/ p = "keeping" /\ Sync(r)
         \/ p = "answering" /\ Read(r) /\ go'[r].strict = current.strict
  <1>0. /\ go \in [Goroutine -> Memory] /\ r \in Goroutine /\ go[r] \in Memory /\ r # "main"
    BY RequestOf
  <1>1. ASSUME NEW phase \in Phase, Goto(r, phase)
        PROVE  go'[r].phase = phase
    BY <1>1, RequestGoes
  <1>2. ASSUME End(r)
        PROVE  go'[r].phase \in {"stopping", "done"}
    BY <1>2, RequestEnds
  <1>3. ASSUME Deny(r)
        PROVE  go'[r].phase = "waiting"
    BY <1>0, <1>3, DenyMoves
  <1>4. ASSUME NEW result, NoteNow(r, result)
        PROVE  \/ go'[r].phase \in {"stopping", "done"}
               \/ go'[r].phase = "noting" /\ current' = disk
    BY <1>0, <1>2, <1>4 DEF NoteNow, Memory
  <1>5. CASE Arrive(r) \/ Call(r) \/ Enter(r) \/ CheckPasses(r) \/ Begin(r) \/ Ending(r)
    BY <1>1, <1>5 DEF Arrive, Call, Enter, CheckPasses, Begin, Ending, Stop, Close, Phase
  <1>6. CASE Refuse(r) \/ Malformed(r) \/ TooLate(r)
    BY <1>3, <1>6 DEF Refuse, Malformed, TooLate
  <1>7. CASE EnterFails(r) \/ Block(r) \/ Answer(r) \/ Note(r) \/ NoteFails(r)
    BY <1>2, <1>7 DEF EnterFails, Block, Answer, Note, NoteFails, Noted
  <1>8. CASE CheckFails(r)
    BY <1>4, <1>8 DEF CheckFails
  <1>9. CASE Claim(r)
    BY <1>0, <1>9 DEF Claim, Memory
  <1>10. CASE Gate(r)
    BY <1>1, <1>2, <1>10 DEF Gate, Phase
  <1>11. CASE Post(r) \/ PostFails(r) \/ Mark(r)
    BY <1>1, <1>11 DEF Post, PostFails, Mark, Phase
  <1>12. CASE Sync(r) \/ Keep(r)
    BY <1>0, <1>1, <1>12 DEF Sync, Keep, Synced, Phase
  <1>13. CASE Read(r)
    <2>1. CASE go' = [go EXCEPT ![r].phase = "answering", ![r].strict = current.strict]
      BY <1>0, <1>13, <2>1 DEF Memory
    <2> QED BY <1>2, <1>4, <1>13, <2>1 DEF Read
  <1> QED
    BY <1>5, <1>6, <1>7, <1>8, <1>9, <1>10, <1>11, <1>12, <1>13, Arrive(r) \/ Serving(r)
       DEF Serving, Handle, Shared, Flush

LEMMA MainDerived ==
  ASSUME Control, Main, Ledgers
  PROVE  Derived
  <1>0. /\ TypeOK /\ go'["worker"].acks = go["worker"].acks /\ MainAt(go["main"])
        /\ go["worker"].acks \subseteq remote
    BY Names, GoroutineOf, MainTurns DEF Control, Turns, Only, Ledgers, PlacedIn
  <1>1. CASE Begin("main")
    BY <1>0, <1>1, LoadDerived DEF Begin
  <1>2. CASE Note("main")
    <2>1. go["main"].result # "none"
      BY <1>0, <1>2 DEF MainAt, Note
    <2> QED BY <1>0, <1>2, <2>1, NoteDerived
  <1>3. CASE NoteFails("main") \/ Return \/ Exit
    <2>1. UNCHANGED <<disk, current, latest, remote>>
      BY <1>3 DEF NoteFails, Return, Exit
    <2>2. Typed
      BY <1>0, <2>1, FilesOf DEF Typed
    <2> QED BY <1>0, <2>1, <2>2, SilentDerived
  <1>4. CASE Sync("main")
    BY <1>0, <1>4, SyncDerived
  <1>5. CASE Keep("main")
    <2>1. Kept(current.events) /\ UNCHANGED <<latest, remote>>
      BY <1>0, <1>5, KeepKeeps DEF Keep
    <2>2. \A e \in current.events : Given(e)
      BY GivenOld DEF Files
    <2> QED BY <1>0, <2>1, <2>2, KeptDerived
  <1> QED BY <1>1, <1>2, <1>3, <1>4, <1>5, Main DEF Main, Shared, Flush

LEMMA TimerDerived ==
  ASSUME Control, Timer \/ IdleFires, Ledgers
  PROVE  Derived
  <1>0. /\ TypeOK /\ go'["worker"].acks = go["worker"].acks /\ TimerAt(go["timer"])
        /\ go["worker"].acks \subseteq remote
    BY Names, GoroutineOf, TimerTurns DEF Control, Turns, Only, Ledgers, PlacedIn
  <1>1. CASE Begin("timer")
    BY <1>0, <1>1, LoadDerived DEF Begin
  <1>2. CASE Note("timer")
    <2>1. go["timer"].result = "idle"
      BY <1>0, <1>2 DEF TimerAt, Note
    <2> QED BY <1>0, <1>2, <2>1, NoteDerived
  <1>3. CASE NoteFails("timer") \/ SeesEnd \/ Ending("timer") \/ IdleFires
    <2>1. UNCHANGED <<disk, current, latest, remote>>
      BY <1>3 DEF NoteFails, SeesEnd, Ending, Stop, Close, IdleFires
    <2>2. Typed
      BY <1>0, <2>1, FilesOf DEF Typed
    <2> QED BY <1>0, <2>1, <2>2, SilentDerived
  <1> QED BY <1>1, <1>2, <1>3, Timer \/ IdleFires DEF Timer, Shared

LEMMA WorkerDerived ==
  ASSUME Control, Worker, Ledgers
  PROVE  Derived
  <1>0. /\ TypeOK /\ go["worker"].acks \subseteq remote
        /\ "worker" \in Goroutine /\ go \in [Goroutine -> Memory]
        /\ disk \in StateFile /\ current \in StateFile /\ latest \in StateFile
    BY Names, GoroutineOf, FilesOf DEF Control, Ledgers
  <1>1. ASSUME NEW phase \in Phase, Goto("worker", phase)
        PROVE  go'["worker"].acks = go["worker"].acks
    BY <1>0, <1>1, GotoMoves DEF SameButPhase
  <1>2. /\ Vault(FALSE) \in StateFile /\ Vault(FALSE).events = {}
    BY VaultType
  <1>3. ASSUME Rest
        PROVE  go'["worker"].acks = {} /\ latest' = Vault(FALSE)
    BY <1>3, RestMoves
  <1>4. \A f \in Files : \A e \in f.events : Given(e)
    BY GivenOld
  <1>5. \A e \in Vault(FALSE).events : Given(e)
    BY <1>2
  <1>6. ASSUME UNCHANGED remote
        PROVE  /\ remote' \in SUBSET Event /\ (\A e \in remote' : ~e.acked)
               /\ remote \subseteq remote'
    BY <1>0, <1>6, FilesOf
  <1>7. CASE Take \/ WorkerEnds
    <2>1. UNCHANGED <<disk, current, latest, remote>>
      BY <1>7 DEF Take, WorkerEnds
    <2>2. go'["worker"].acks = go["worker"].acks
      BY <1>1, <1>7 DEF Take, WorkerEnds, Phase
    <2>3. Typed
      BY <1>0, <1>6, <2>1 DEF Typed
    <2> QED BY <1>0, <2>1, <2>2, <2>3, SilentDerived
  <1>8. CASE Look \/ Reload
    <2>1. UNCHANGED <<disk, current, remote>> /\ latest' \in {disk, Vault(FALSE)}
      BY <1>3, <1>8 DEF Look, Reload
    <2>2. go'["worker"].acks \subseteq go["worker"].acks
      BY <1>1, <1>3, <1>8 DEF Look, Reload, Phase
    <2>3. Typed
      BY <1>0, <1>2, <1>6, <2>1 DEF Typed
    <2> QED BY <1>0, <1>4, <1>5, <2>1, <2>2, <2>3 DEF Derived, Files
  <1>9. CASE Refresh
    <2>1. UNCHANGED <<current, remote>>
      BY <1>9 DEF Refresh
    <2>2. CASE /\ disk' \in StateFile /\ disk'.events = latest.events
               /\ latest' = disk' /\ Goto("worker", "syncing")
      <3>1. go'["worker"].acks = go["worker"].acks
        BY <1>1, <2>2 DEF Phase
      <3>2. Typed
        BY <1>0, <1>6, <2>1, <2>2 DEF Typed
      <3> QED BY <1>0, <1>4, <2>1, <2>2, <3>1, <3>2 DEF Derived, Files
    <2>3. CASE UNCHANGED disk /\ Rest
      <3>1. Typed
        BY <1>0, <1>2, <1>3, <1>6, <2>1, <2>3 DEF Typed
      <3> QED BY <1>0, <1>3, <1>4, <1>5, <2>1, <2>3, <3>1 DEF Derived, Files
    <2> QED BY <1>0, <1>9, <2>2, <2>3, RefreshSaves
  <1>10. CASE Send
    <2>1. PICK acks \in SUBSET Pending(latest), sent \in SUBSET Pending(latest) :
                 /\ acks \subseteq sent
                 /\ remote' = remote \cup sent
                 /\ \/ Rest
                    \/ /\ go' = [go EXCEPT !["worker"].phase = "calling",
                                           !["worker"].acks = acks]
                       /\ UNCHANGED latest
      BY <1>0, <1>10, SendSends
    <2>2. UNCHANGED <<disk, current>> /\ latest' \in {latest, Vault(FALSE)}
      BY <1>0, <1>3, <1>10, <2>1, SendSends
    <2>3. Typed
      BY <1>0, <1>2, <2>1, <2>2, FilesOf, PendingType DEF Typed
    <2>4. go'["worker"].acks \subseteq remote'
      <3>1. CASE Rest
        BY <1>3, <3>1
      <3>2. CASE go' = [go EXCEPT !["worker"].phase = "calling", !["worker"].acks = acks]
        <4>1. go["worker"] \in Memory
          BY <1>0
        <4>2. go'["worker"].acks = acks
          BY <1>0, <3>2, <4>1 DEF Memory
        <4> QED BY <2>1, <4>2
      <3> QED BY <2>1, <3>1, <3>2
    <2> QED BY <1>4, <1>5, <2>2, <2>3, <2>4 DEF Derived, Files
  <1>11. CASE Settle
    <2>1. UNCHANGED <<current, remote>>
      BY <1>11 DEF Settle
    <2>2. disk' \in StateFile /\ disk'.events \in {disk.events, Marked(latest.events, go["worker"].acks)}
          /\ Rest
      BY <1>0, <1>11, SettleSaves
    <2>3. \A e \in Marked(latest.events, go["worker"].acks) : Given(e)
      BY <1>0, <2>1, GivenMarked DEF Files
    <2>4. Typed
      BY <1>0, <1>2, <1>3, <1>6, <2>1, <2>2 DEF Typed
    <2> QED BY <1>0, <1>3, <1>4, <1>5, <2>1, <2>2, <2>3, <2>4 DEF Derived, Files
  <1> QED BY <1>7, <1>8, <1>9, <1>10, <1>11, Worker DEF Worker

World == Signal \/ MaxRuntime \/ Expire \/ Change \/ Forget

LEMMA WorldDerived ==
  ASSUME Control, World, Ledgers
  PROVE  Derived
  <1>0. /\ TypeOK /\ go["worker"].acks \subseteq remote
        /\ disk \in StateFile /\ current \in StateFile /\ latest \in StateFile
    BY FilesOf DEF Control, Ledgers
  <1>1. UNCHANGED <<go, current, latest, remote>>
    BY DEF World, Signal, MaxRuntime, Expire, Change, Forget
  <1>2. disk' \in StateFile /\ disk'.events = disk.events
    BY <1>0, ChangeSaves DEF World, Signal, MaxRuntime, Expire, Forget
  <1>3. \A f \in Files : \A e \in f.events : Given(e)
    BY GivenOld
  <1>4. Typed
    BY <1>0, <1>1, <1>2, FilesOf DEF Typed
  <1> QED BY <1>0, <1>1, <1>2, <1>3, <1>4 DEF Derived, Files

\* Who takes a step.
LEMMA Actors ==
  ASSUME Next
  PROVE  \/ \E r \in Request : Arrive(r) \/ Serving(r)
         \/ Main
         \/ Timer \/ IdleFires
         \/ Worker
         \/ World
  BY DEF Next, World

LEMMA NextDerived ==
  ASSUME Control, Next, Ledgers
  PROVE  Derived
  BY Actors, RequestDerived, MainDerived, TimerDerived, WorkerDerived, WorldDerived

LEMMA NextTurns ==
  ASSUME Control, Next
  PROVE  \/ \E g \in Goroutine : Turns(g) /\ Becomes(g)
         \/ World /\ UNCHANGED <<mu, go, claimed>>
  <1>1. World => UNCHANGED <<mu, go, claimed>>
    BY DEF World, Signal, MaxRuntime, Expire, Change, Forget
  <1> QED BY <1>1, Names, Actors, ServingTurns, MainTurns, TimerTurns, WorkerTurns

-----------------------------------------------------------------------------
(* The other variables.                                                    *)

ContextSteps ==
  {context, [context EXCEPT !.signalled = TRUE], [context EXCEPT !.cancelled = TRUE],
   [context EXCEPT !.closed = TRUE], [context EXCEPT !.expired = TRUE],
   [context EXCEPT !.cancelled = TRUE, !.closed = TRUE],
   [context EXCEPT !.signalled = TRUE, !.cancelled = TRUE]}

LEMMA ContextLasts ==
  ASSUME context \in Context, context' \in ContextSteps
  PROVE  context' \in Context /\ (context.cancelled => context'.cancelled)
  BY DEF ContextSteps, Context

Scalars ==
  /\ Lasts
  /\ key' \in BOOLEAN /\ wanted' \in BOOLEAN /\ changes' \in 0 .. MaxChanges
  /\ answered' \subseteq [by: Request, strict: BOOLEAN]

\* What the actions of a goroutine do to these variables.
Plain(g) ==
  /\ UNCHANGED <<key, changes>>
  /\ context' \in ContextSteps
  /\ wanted' \in BOOLEAN
  /\ UNCHANGED claimed \/ (~claimed /\ claimed' = Once)
  /\ answered' = answered \/ (g \in Request /\ answered' = answered \cup {[by |-> g, strict |-> go[g].strict]})

LEMMA RequestPlain ==
  ASSUME Control, NEW r \in Request, Arrive(r) \/ Serving(r)
  PROVE  Plain(r)
  <1>0. wanted \in BOOLEAN /\ r # "main"
    BY Names DEF Control, TypeOK
  <1>1. CASE Arrive(r) \/ Refuse(r) \/ Claim(r) \/ Malformed(r) \/ Call(r) \/ Enter(r)
    BY <1>0, <1>1 DEF Arrive, Refuse, Claim, Malformed, Call, Enter, Plain, ContextSteps
  <1>2. CASE EnterFails(r) \/ CheckFails(r) \/ CheckPasses(r) \/ Post(r) \/ PostFails(r)
    BY <1>0, <1>2
       DEF EnterFails, CheckFails, CheckPasses, Post, PostFails, NoteNow, Plain, ContextSteps
  <1>3. CASE Gate(r) \/ Mark(r) \/ Block(r) \/ TooLate(r)
    BY <1>0, <1>3 DEF Gate, Mark, Block, TooLate, Plain, ContextSteps
  <1>4. CASE Read(r) \/ Answer(r)
    BY <1>0, <1>4 DEF Read, Answer, NoteNow, Plain, ContextSteps
  <1>5. CASE Begin(r) \/ Note(r) \/ NoteFails(r)
    BY <1>0, <1>5 DEF Begin, Note, NoteFails, Noted, Plain, ContextSteps
  <1>6. CASE Sync(r) \/ Keep(r)
    BY <1>0, <1>6 DEF Sync, Keep, Synced, Plain, ContextSteps
  <1>7. CASE Ending(r)
    BY <1>0, <1>7 DEF Ending, Stop, Close, Plain, ContextSteps
  <1> QED
    BY <1>1, <1>2, <1>3, <1>4, <1>5, <1>6, <1>7, Arrive(r) \/ Serving(r)
       DEF Serving, Handle, Shared, Flush

LEMMA MainPlain ==
  ASSUME Control, Main
  PROVE  Plain("main")
  <1>0. wanted \in BOOLEAN
    BY DEF Control, TypeOK
  <1>1. CASE Begin("main") \/ Note("main") \/ NoteFails("main")
    BY <1>0, <1>1 DEF Begin, Note, NoteFails, Noted, Plain, ContextSteps
  <1>2. CASE Sync("main") \/ Keep("main")
    BY <1>0, <1>2 DEF Sync, Keep, Synced, Plain, ContextSteps
  <1>3. CASE Return \/ Exit
    BY <1>0, <1>3 DEF Return, Exit, Plain, ContextSteps
  <1> QED BY <1>1, <1>2, <1>3, Main DEF Main, Shared, Flush

LEMMA TimerPlain ==
  ASSUME Control, Timer \/ IdleFires
  PROVE  Plain("timer")
  <1>0. wanted \in BOOLEAN
    BY DEF Control, TypeOK
  <1>1. CASE Begin("timer") \/ Note("timer") \/ NoteFails("timer")
    BY <1>0, <1>1 DEF Begin, Note, NoteFails, Noted, Plain, ContextSteps
  <1>2. CASE SeesEnd \/ Ending("timer") \/ IdleFires
    BY <1>0, <1>2 DEF SeesEnd, Ending, Stop, Close, IdleFires, Plain, ContextSteps
  <1> QED BY <1>1, <1>2, Timer \/ IdleFires DEF Timer, Shared

LEMMA WorkerPlain ==
  ASSUME Control, Worker
  PROVE  Plain("worker")
  <1>0. wanted \in BOOLEAN
    BY DEF Control, TypeOK
  <1>1. CASE Take \/ WorkerEnds \/ Look \/ Refresh
    BY <1>0, <1>1 DEF Take, WorkerEnds, Look, Refresh, Plain, ContextSteps
  <1>2. CASE Send \/ Reload \/ Settle
    BY <1>0, <1>2 DEF Send, Reload, Settle, Plain, ContextSteps
  <1> QED BY <1>1, <1>2, Worker DEF Worker

LEMMA PlainScalars ==
  ASSUME Control, NEW g \in Goroutine, Plain(g)
  PROVE  Scalars
  <1>1. /\ context \in Context /\ claimed \in BOOLEAN /\ key \in BOOLEAN
        /\ changes \in 0 .. MaxChanges
        /\ answered \subseteq [by: Request, strict: BOOLEAN]
        /\ go[g] \in Memory
    BY DEF Control, TypeOK
  <1>2. context' \in Context /\ (context.cancelled => context'.cancelled)
    BY <1>1, ContextLasts DEF Plain
  <1>3. claimed' \in BOOLEAN /\ (Once /\ claimed => claimed')
    BY <1>1, ConstantsAssumption DEF Plain
  <1>4. g \in Request => [by |-> g, strict |-> go[g].strict] \in [by: Request, strict: BOOLEAN]
    BY <1>1 DEF Memory
  <1>5. answered' \subseteq [by: Request, strict: BOOLEAN]
    BY <1>1, <1>4 DEF Plain
  <1> QED BY <1>1, <1>2, <1>3, <1>5 DEF Plain, Scalars, Lasts

LEMMA WorldScalars ==
  ASSUME Control, World
  PROVE  Scalars
  <1>1. /\ context \in Context /\ claimed \in BOOLEAN /\ key \in BOOLEAN /\ wanted \in BOOLEAN
        /\ changes \in 0 .. MaxChanges
        /\ answered \subseteq [by: Request, strict: BOOLEAN]
    BY DEF Control, TypeOK
  <1>2. context' \in ContextSteps /\ UNCHANGED <<claimed, wanted, answered>>
    BY DEF World, Signal, MaxRuntime, Expire, Change, Forget, ContextSteps
  <1>3. key' \in BOOLEAN
    BY <1>1 DEF World, Signal, MaxRuntime, Expire, Change, Forget
  <1>4. changes' \in 0 .. MaxChanges
    <2>1. UNCHANGED changes \/ (changes < MaxChanges /\ changes' = changes + 1)
      BY DEF World, Signal, MaxRuntime, Expire, Change, Forget
    <2> QED BY <1>1, <2>1, ConstantsAssumption
  <1> QED BY <1>1, <1>2, <1>3, <1>4, ContextLasts DEF Scalars, Lasts

LEMMA NextScalars ==
  ASSUME Control, Next
  PROVE  Scalars
  <1>1. (\E g \in Goroutine : Plain(g)) \/ World
    BY Names, Actors, RequestPlain, MainPlain, TimerPlain, WorkerPlain
  <1> QED BY <1>1, PlainScalars, WorldScalars

-----------------------------------------------------------------------------
(* The goroutines stay where they may be.                                  *)

LEMMA TurnsControl ==
  ASSUME Control, NEW g \in Goroutine, Turns(g), Becomes(g), Scalars, Typed
  PROVE  Control'
  <1>0. /\ Lasts /\ Placed /\ Locked /\ Cancelled /\ OneClaims
        /\ go \in [Goroutine -> Memory] /\ go' \in [Goroutine -> Memory]
        /\ \A h \in Goroutine : h # g => go'[h] = go[h]
    BY DEF Control, Scalars, Turns, Only, TypeOK
  <1>1. TypeOK'
    BY <1>0 DEF TypeOK, Typed, Scalars, Lasts, Turns
  <1>2. Locked'
    <2> SUFFICES ASSUME NEW h \in Goroutine, HoldsIn(h, go'[h])
                 PROVE  mu' = h
      BY DEF Locked, Holds
    <2>1. CASE h = g
      BY <2>1 DEF Turns
    <2>2. CASE h # g
      <3>1. mu = h
        BY <1>0, <2>2 DEF Locked, Holds
      <3> QED BY <2>2, <3>1, Names DEF Turns
    <2> QED BY <2>1, <2>2
  <1>3. Placed'
    <2> SUFFICES ASSUME NEW h \in Goroutine
                 PROVE  PlacedIn(h, go'[h])
      BY DEF Placed
    <2> QED BY <1>0 DEF Placed, Turns
  <1>4. Cancelled'
    <2>1. CASE g = "main"
      BY <2>1 DEF Cancelled, Becomes
    <2>2. CASE g # "main"
      BY <1>0, <2>2, Names DEF Cancelled, Lasts
    <2> QED BY <2>1, <2>2
  <1>5. OneClaims'
    <2> SUFFICES ASSUME Once, NEW r \in Request, NEW s \in Request, go'[r].eligible
                 PROVE  claimed' /\ (go'[s].eligible => r = s)
      BY DEF OneClaims
    <2>1. /\ \A q \in Request : go'[q].eligible => go[q].eligible \/ (q = g /\ ~claimed /\ claimed' = Once)
      BY <1>0, Names DEF Becomes
    <2>2. \A p, q \in Request : go[p].eligible => claimed /\ (go[q].eligible => p = q)
      BY <1>0 DEF OneClaims
    <2> QED BY <1>0, <2>1, <2>2 DEF Lasts
  <1> QED BY <1>1, <1>2, <1>3, <1>4, <1>5 DEF Control

LEMMA WorldControl ==
  ASSUME Control, UNCHANGED <<mu, go, claimed>>, Scalars, Typed
  PROVE  Control'
  <1>1. TypeOK'
    BY DEF Control, TypeOK, Typed, Scalars, Lasts
  <1>2. Locked' /\ Placed' /\ OneClaims'
    BY DEF Control, Locked, Holds, Placed, OneClaims
  <1>3. Cancelled'
    BY DEF Control, Cancelled, Scalars, Lasts
  <1> QED BY <1>1, <1>2, <1>3 DEF Control

LEMMA ControlInductive ==
  ASSUME Control, Ledgers, Next
  PROVE  Control'
  BY NextTurns, NextScalars, NextDerived, TurnsControl, WorldControl DEF Derived

-----------------------------------------------------------------------------
(* The events stay sound.                                                  *)

\* A request moves only by its own actions.
LEMMA OwnMoves ==
  ASSUME Control, Next, NEW r \in Request
  PROVE  go'[r] = go[r] \/ Arrive(r) \/ Serving(r)
  <1>0. r \in Goroutine /\ r # "main" /\ r # "timer" /\ r # "worker"
    BY RequestOf
  <1>1. ASSUME NEW q \in Request, Arrive(q) \/ Serving(q)
        PROVE  go'[r] = go[r] \/ Arrive(r) \/ Serving(r)
    <2>1. Only(q)
      BY <1>1, ServingTurns DEF Turns
    <2> QED BY <1>0, <1>1, <2>1 DEF Only
  <1>2. ASSUME Main \/ Timer \/ IdleFires \/ Worker
        PROVE  go'[r] = go[r]
    <2>1. Only("main") \/ Only("timer") \/ Only("worker")
      BY <1>2, MainTurns, TimerTurns, WorkerTurns DEF Turns
    <2> QED BY <1>0, <2>1 DEF Only
  <1>3. World => UNCHANGED go
    BY DEF World, Signal, MaxRuntime, Expire, Change, Forget
  <1> QED BY <1>1, <1>2, <1>3, Actors

LEMMA StaysEligible ==
  ASSUME Control, Next, NEW r \in Request, go[r].eligible
  PROVE  go'[r].eligible
  BY OwnMoves, ServingTurns DEF Becomes

LEMMA StaysPast ==
  ASSUME Control, Next, go["main"].phase \in Past
  PROVE  go'["main"].phase \in Past
  <1>1. \A g \in Goroutine : Turns(g) /\ Becomes(g) => go'["main"].phase \in Past
    BY Names DEF Turns, Becomes, Only
  <1> QED BY <1>1, NextTurns

LEMMA StaysQuiet ==
  ASSUME Control, Next, Quiet
  PROVE  Quiet'
  <1>1. context'.cancelled
    BY NextScalars DEF Scalars, Lasts, Quiet
  <1>2. go'["main"].phase \in Past
    BY StaysPast DEF Quiet
  <1>3. ASSUME NEW r \in Request
        PROVE  go'[r].phase \notin {"checking", "gating"}
    BY OwnMoves, ServingTurns DEF Becomes, Quiet
  <1> QED BY <1>1, <1>2, <1>3 DEF Quiet

\* When main notes its stop no request has the mutex.
LEMMA StopIsQuiet ==
  ASSUME Control, Control', Note("main"), go["main"].result = "stopped"
  PROVE  Quiet'
  <1>0. /\ "main" \in Goroutine /\ go \in [Goroutine -> Memory] /\ MainAt(go["main"])
        /\ go["main"].phase = "noting" /\ mu = "main"
    BY Names, GoroutineOf DEF PlacedIn, Holds, HoldsIn, Note, Busy
  <1>1. Only("main") /\ go'["main"] = After("main")
    BY <1>0, EndMoves DEF Note, Noted
  <1>2. go'["main"].phase = "syncing"
    <2>1. After("main").phase = go["main"].next
      BY <1>0, AfterType, Names
    <2> QED BY <1>0, <1>1, <2>1 DEF MainAt
  <1>3. context'.cancelled
    BY <1>2 DEF Control, Cancelled, Leaves
  <1>4. ASSUME NEW r \in Request
        PROVE  go'[r].phase \notin {"checking", "gating"}
    <2>1. r \in Goroutine /\ r # "main" /\ (go[r].phase \in Busy => mu = r)
      BY RequestOf
    <2> QED BY <1>0, <1>1, <2>1 DEF Only, Busy
  <1> QED BY <1>2, <1>3, <1>4 DEF Quiet, Past

LEMMA LedgersInductive ==
  ASSUME Control, Ledgers, Next
  PROVE  Ledgers'
  <1>0. Derived /\ Typed /\ Control' /\ TypeOK
    BY NextDerived, ControlInductive DEF Derived, Control
  <1>1. ASSUME NEW f \in {disk', current', latest'}, NEW e \in f.events
        PROVE  Sound(e)'
    <2>1. Given(e)
      BY <1>0 DEF Derived
    <2>2. CASE Added(e)
      <3>1. e.result = "allowed" => e.of \in Request /\ go'[e.of].eligible
        <4> SUFFICES ASSUME e.result = "allowed"
                     PROVE  e.of \in Request /\ go'[e.of].eligible
          OBVIOUS
        <4>1. e.of \in Request /\ go[e.of].phase = "gating"
          BY <2>2 DEF Added
        <4>2. go[e.of].eligible
          BY <4>1, RequestOf DEF RequestAt, Serves
        <4> QED BY <4>1, <4>2, StaysEligible
      <3>2. e.result = "stopped" => Quiet'
        BY <1>0, <2>2, StopIsQuiet DEF Added
      <3> QED BY <2>2, <3>1, <3>2 DEF Added, Sound
    <2>3. ASSUME NEW h \in Files, NEW d \in h.events, Same(e, d)
          PROVE  Sound(e)'
      <3>1. Sound(d)
        BY DEF Ledgers
      <3>2. e.acked => Upload(e) \in remote'
        BY <1>0, <2>3, <3>1 DEF Same, Sound, Typed
      <3>3. e.result = "allowed" => e.of \in Request /\ go'[e.of].eligible
        BY <2>3, <3>1, StaysEligible DEF Same, Sound
      <3>4. e.result = "stopped" => Quiet'
        BY <2>3, <3>1, StaysQuiet DEF Same, Sound
      <3> QED BY <3>2, <3>3, <3>4 DEF Sound
    <2> QED BY <2>1, <2>2, <2>3 DEF Given
  <1>2. go'["worker"].acks \subseteq remote'
    BY <1>0 DEF Derived
  <1>3. ASSUME NEW r \in Request, go'[r].phase = "marking"
        PROVE  Made(r, "allowed") \in remote'
    <2>1. CASE go'[r] = go[r]
      BY <1>0, <1>3, <2>1 DEF Ledgers, Typed
    <2>2. CASE Arrive(r) \/ Serving(r)
      <3>1. Post(r)
        BY <1>3, <2>2, RequestFlow
      <3> QED BY <3>1 DEF Post
    <2> QED BY <2>1, <2>2, OwnMoves
  <1> QED BY <1>1, <1>2, <1>3 DEF Ledgers, Files

LEMMA InitControl ==
  ASSUME Init
  PROVE  Control /\ Ledgers
  <1> DEFINE main == [At("waiting") EXCEPT !.result = "started", !.next = "serving"]
  <1>1. /\ main \in Memory /\ main.phase = "waiting" /\ main.result = "started"
        /\ main.next = "serving"
    <2>1. At("waiting") \in Memory /\ At("waiting").phase = "waiting"
      BY AtType DEF Phase
    <2> QED BY <2>1 DEF Memory, Phase
  <1>2. \A p \in {"off", "waiting"} :
          /\ At(p) \in Memory /\ At(p).phase = p /\ At(p).result = "none" /\ At(p).next = "done"
          /\ At(p).eligible = FALSE /\ At(p).acks = {}
    <2>1. {"off", "waiting"} \subseteq Phase
      BY DEF Phase
    <2> QED BY <2>1, AtType
  <1>3. go = [g \in Goroutine |-> IF g = "main" THEN main
                                  ELSE IF g \in Request THEN At("off") ELSE At("waiting")]
    BY DEF Init
  <1> HIDE DEF main
  <1>4. /\ go \in [Goroutine -> Memory] /\ go["main"] = main
        /\ go["timer"] = At("waiting") /\ go["worker"] = At("waiting")
        /\ \A r \in Request : go[r] = At("off")
    BY <1>1, <1>2, <1>3, Names
  <1>5. disk \in StateFile /\ disk.events = {} /\ current = disk /\ latest = disk
    BY VaultType DEF Init
  <1>6. TypeOK
    <2>1. remote \subseteq Event /\ (\A e \in remote : ~e.acked)
      BY DEF Init
    <2>2. context \in Context
      BY DEF Init, Context
    <2>3. changes \in 0 .. MaxChanges
      BY ConstantsAssumption DEF Init
    <2>4. /\ key \in BOOLEAN /\ mu \in Goroutine \cup {"none"} /\ wanted \in BOOLEAN
          /\ claimed \in BOOLEAN /\ answered \subseteq [by: Request, strict: BOOLEAN]
      BY DEF Init
    <2> QED BY <1>4, <1>5, <2>1, <2>2, <2>3, <2>4 DEF TypeOK
  <1>7. Placed
    <2>1. ASSUME NEW g \in Goroutine
          PROVE  PlacedIn(g, go[g])
      BY <1>1, <1>2, <1>4, Names DEF PlacedIn, MainAt, TimerAt, WorkerAt, RequestAt, Serves
    <2> QED BY <2>1 DEF Placed
  <1>8. Locked
    <2>1. ASSUME NEW g \in Goroutine
          PROVE  ~HoldsIn(g, go[g])
      <3>1. go[g].phase \in {"off", "waiting"}
        BY <1>1, <1>2, <1>4 DEF Goroutine
      <3> QED BY <3>1 DEF HoldsIn, Busy
    <2> QED BY <2>1 DEF Locked, Holds
  <1>9. Cancelled
    BY <1>1, <1>4 DEF Cancelled, Leaves
  <1>10. OneClaims
    BY <1>2, <1>4 DEF OneClaims
  <1>11. Ledgers
    BY <1>2, <1>4, <1>5 DEF Ledgers, Files
  <1> QED BY <1>6, <1>7, <1>8, <1>9, <1>10, <1>11 DEF Control

LEMMA LedgersStutter ==
  ASSUME Control, Ledgers, UNCHANGED vars
  PROVE  Control' /\ Ledgers'
  BY DEF vars, Control, TypeOK, Locked, Holds, Placed, Cancelled, OneClaims, Ledgers, Files, Sound,
         Quiet

\* Who has the mutex, which request a --once broker took, and what the events
\* of every copy of the ledger tell of the requests, main and the control plane.
THEOREM LedgersInvariance == Spec => [](Control /\ Ledgers)
  <1>1. Control /\ Ledgers /\ [Next]_vars => (Control /\ Ledgers)'
    BY ControlInductive, LedgersInductive, LedgersStutter
  <1> QED BY <1>1, InitControl, PTL DEF Spec

\* A broker started with --once releases the value to one request at most,
\* however many come, however they overlap and whatever fails.
THEOREM OneIsServed == Spec => []OnceReleasesOne
  <1>1. Control /\ Ledgers => OnceReleasesOne
    <2> SUFFICES ASSUME Control, Ledgers, Once
                 PROVE  Cardinality(Releasing(disk.events)) <= 1
      BY DEF OnceReleasesOne
    <2>1. \A e \in disk.events : e.result = "allowed" => e.of \in Request /\ go[e.of].eligible
      BY DEF Ledgers, Files, Sound
    <2>2. \A r, s \in Request : go[r].eligible /\ go[s].eligible => r = s
      BY DEF Control, OneClaims
    <2>3. \A x, y \in Releasing(disk.events) : x = y
      BY <2>1, <2>2 DEF Releasing
    <2>4. CASE Releasing(disk.events) = {}
      BY <2>4, FS_EmptySet
    <2>5. CASE Releasing(disk.events) # {}
      <3>1. PICK x : x \in Releasing(disk.events)
        BY <2>5
      <3>2. Releasing(disk.events) = {x}
        BY <2>3, <3>1
      <3> QED BY <3>2, FS_Singleton
    <2> QED BY <2>4, <2>5
  <1> QED BY <1>1, LedgersInvariance, PTL

-----------------------------------------------------------------------------
(* The mutex: who has it works on what the state file holds.               *)

\* A request that neither adds nor marks nor uploads: it has the mutex only
\* after it has loaded the file, or because it had it before.
LEMMA RequestTakes ==
  ASSUME Control, NEW r \in Request, Arrive(r) \/ Serving(r),
         ~(Note(r) \/ Gate(r) \/ Mark(r) \/ Block(r) \/ Sync(r) \/ Keep(r))
  PROVE  /\ UNCHANGED disk
         /\ UNCHANGED current \/ (current' = disk /\ mu \in {r, "none"})
         /\ go'[r].phase \in Busy =>
              /\ go'[r].phase # "keeping"
              /\ \/ current' = disk /\ mu \in {r, "none"}
                 \/ Holds(r) /\ go[r].phase # "keeping" /\ UNCHANGED current
  <1>0. /\ r \in Goroutine \ {"worker"} /\ Turns(r) /\ r # "none"
        /\ (Holds(r) <=> go[r].phase \in Busy) /\ (Holds(r) => mu = r)
        /\ (HoldsIn(r, go'[r]) <=> go'[r].phase \in Busy)
    BY RequestOf, ServingTurns DEF Holds, HoldsIn
  <1>1. UNCHANGED disk /\ (UNCHANGED current \/ current' = disk)
    BY RequestData
  <1>2. UNCHANGED current \/ mu \in {r, "none"}
    <2>1. CASE Begin(r) \/ Enter(r)
      BY <2>1 DEF Begin, Enter
    <2>2. CASE CheckFails(r) \/ Read(r)
      BY <1>0, <2>2 DEF CheckFails, Read, Busy
    <2>3. CASE Arrive(r) \/ Refuse(r) \/ Claim(r) \/ Malformed(r) \/ Call(r) \/ EnterFails(r)
      BY <2>3 DEF Arrive, Refuse, Claim, Malformed, Call, EnterFails
    <2>4. CASE CheckPasses(r) \/ Post(r) \/ PostFails(r) \/ Answer(r) \/ TooLate(r)
      BY <2>4 DEF CheckPasses, Post, PostFails, Answer, TooLate
    <2>5. CASE NoteFails(r) \/ Ending(r)
      BY <2>5 DEF NoteFails, Ending, Stop, Close
    <2> QED
      BY <2>1, <2>2, <2>3, <2>4, <2>5, Arrive(r) \/ Serving(r) DEF Serving, Handle, Shared, Flush
  <1>3. ASSUME go'[r].phase \in Busy
        PROVE  /\ go'[r].phase # "keeping"
               /\ \/ current' = disk /\ mu \in {r, "none"}
                  \/ Holds(r) /\ go[r].phase # "keeping" /\ UNCHANGED current
    <2>1. /\ go'[r].phase # "keeping"
          /\ current' = disk \/ Enter(r) \/ CheckPasses(r) \/ Post(r) \/ PostFails(r)
      BY <1>3, RequestFlow DEF Busy
    <2>2. CASE current' = disk \/ Enter(r)
      BY <1>0, <1>3, <2>1, <2>2 DEF Turns, Enter
    <2>3. CASE CheckPasses(r) \/ Post(r) \/ PostFails(r)
      BY <1>0, <2>1, <2>3 DEF CheckPasses, Post, PostFails, Busy
    <2> QED BY <2>1, <2>2, <2>3
  <1> QED BY <1>1, <1>2, <1>3

Timely ==
  changes = 0 =>
    /\ \A g \in Goroutine \ {"worker"} : Holds(g) => current.stamp = disk.stamp
    /\ go["worker"].phase = "marking" => latest.stamp = disk.stamp

\* What a goroutine but the worker does to the stamps.
Timed(g) ==
  /\ UNCHANGED <<latest, changes>>
  /\ \/ UNCHANGED <<disk, current>>
     \/ mu = g
     \/ mu = "none" /\ UNCHANGED disk
  /\ HoldsIn(g, go'[g]) => current'.stamp = disk'.stamp

LEMMA SavesTimed ==
  ASSUME Control, Timely, changes = 0, UNCHANGED <<latest, changes>>,
         NEW g \in Goroutine \ {"worker"}, Holds(g), NEW events, Kept(events)
  PROVE  Timed(g)
  <1>1. mu = g /\ current.stamp = disk.stamp
    BY GoroutineOf DEF Timely
  <1>2. current'.stamp = disk'.stamp
    BY <1>1 DEF Kept
  <1> QED BY <1>1, <1>2 DEF Timed

LEMMA SyncTimed ==
  ASSUME Control, Timely, changes = 0, UNCHANGED changes,
         NEW g \in Goroutine \ {"worker"}, Holds(g), Sync(g)
  PROVE  Timed(g)
  <1>1. mu = g /\ current.stamp = disk.stamp
    BY GoroutineOf DEF Timely
  <1>2. UNCHANGED <<disk, latest>> /\ current'.stamp = current.stamp
    BY SyncSends DEF Control
  <1> QED BY <1>1, <1>2 DEF Timed

LEMMA RequestTimed ==
  ASSUME Control, Timely, changes = 0, NEW r \in Request, Arrive(r) \/ Serving(r)
  PROVE  Timed(r)
  <1>0. /\ r \in Goroutine \ {"worker"} /\ TypeOK /\ r # "main"
        /\ (Holds(r) <=> go[r].phase \in Busy) /\ (Holds(r) => mu = r)
        /\ (HoldsIn(r, go'[r]) <=> go'[r].phase \in Busy)
        /\ RequestAt(go[r])
    BY RequestOf DEF Control, Holds, HoldsIn
  <1>1. UNCHANGED <<latest, changes>>
    BY RequestPlain, RequestData DEF Plain, Note, Gate, Mark, Block, Sync, Keep
  <1>2. CASE Note(r) \/ Gate(r) \/ Mark(r) \/ Block(r) \/ Keep(r)
    <2>1. Holds(r)
      BY <1>0, <1>2 DEF Note, Gate, Mark, Block, Keep, Busy
    <2>2. Note(r) => go[r].result # "none"
      BY <1>0 DEF Note, RequestAt
    <2>3. \E events : Kept(events)
      BY <1>0, <1>2, <2>2, WhoKeeps, GateKeeps, MarkKeeps, BlockKeeps, KeepKeeps
    <2> QED BY <1>0, <1>1, <2>1, <2>3, SavesTimed
  <1>3. CASE Sync(r)
    <2>1. Holds(r)
      BY <1>0, <1>3 DEF Sync, Busy
    <2> QED BY <1>0, <1>1, <1>3, <2>1, SyncTimed
  <1>4. CASE ~(Note(r) \/ Gate(r) \/ Mark(r) \/ Block(r) \/ Sync(r) \/ Keep(r))
    <2>1. /\ UNCHANGED disk
          /\ UNCHANGED current \/ (current' = disk /\ mu \in {r, "none"})
          /\ go'[r].phase \in Busy =>
               current' = disk \/ (Holds(r) /\ UNCHANGED current)
      BY <1>4, RequestTakes
    <2> QED BY <1>0, <1>1, <2>1 DEF Timed, Timely
  <1> QED BY <1>2, <1>3, <1>4

\* Main and the timer, if the state file can be loaded.
LEMMA OwnTimed ==
  ASSUME "load" \notin Faults, Control, Timely, changes = 0, NEW g \in {"main", "timer"},
         g = "main" => Main, g = "timer" => Timer \/ IdleFires
  PROVE  Timed(g)
  <1>0. /\ g \in Goroutine \ {"worker"} /\ TypeOK /\ Turns(g)
        /\ (Holds(g) <=> go[g].phase \in Busy) /\ (Holds(g) => mu = g)
        /\ (HoldsIn(g, go'[g]) <=> go'[g].phase \in Busy)
        /\ g \in Goroutine /\ go \in [Goroutine -> Memory]
    BY Names, GoroutineOf, MainTurns, TimerTurns DEF Control, Holds, HoldsIn
  <1>1. UNCHANGED <<latest, changes>>
    <2>1. CASE g = "main"
      BY <2>1 DEF Main, Shared, Flush, Begin, Note, NoteFails, Sync, Keep, Return, Exit
    <2>2. CASE g = "timer"
      BY <2>2 DEF Timer, Shared, Ending, Begin, Note, NoteFails, SeesEnd, Stop, Close, IdleFires
    <2> QED BY <2>1, <2>2
  <1>2. CASE Begin(g)
    BY <1>1, <1>2 DEF Begin, Timed
  <1>3. CASE Note(g)
    <2>1. Holds(g) /\ go[g].result # "none"
      <3>1. PlacedIn(g, go[g]) /\ go[g].phase = "noting"
        BY <1>0, <1>3, GoroutineOf DEF Note
      <3> QED BY <1>0, <3>1 DEF PlacedIn, MainAt, TimerAt, Busy
    <2>2. \E events : Kept(events)
      BY <1>0, <1>3, <2>1, WhoKeeps
    <2> QED BY <1>0, <1>1, <2>1, <2>2, SavesTimed
  <1>4. CASE Flush(g)
    <2>1. Holds(g)
      BY <1>0, <1>4 DEF Flush, Sync, Keep, Busy
    <2>2. Keep(g) => Kept(current.events)
      BY <1>0, KeepKeeps
    <2> QED BY <1>0, <1>1, <1>4, <2>1, <2>2, SavesTimed, SyncTimed DEF Flush
  <1>5. CASE Return /\ g = "main"
    <2>1. UNCHANGED <<disk, current>> /\ go'[g].phase = "waiting"
      <3>1. /\ go'[g] = [At("waiting") EXCEPT !.result = "stopped", !.next = "syncing"]
            /\ UNCHANGED <<disk, current>>
        BY <1>0, <1>5 DEF Return
      <3> QED BY <3>1 DEF At
    <2> QED BY <1>0, <1>1, <2>1 DEF Timed, Busy
  <1>6. CASE IdleFires /\ g = "timer"
    <2>1. UNCHANGED <<disk, current>> /\ go'[g].phase = "waiting"
      BY <1>0, <1>6 DEF IdleFires, Memory
    <2> QED BY <1>0, <1>1, <2>1 DEF Timed, Busy
  <1>7. CASE \/ Exit /\ g = "main"
             \/ (SeesEnd \/ Ending("timer")) /\ g = "timer"
    <2>1. /\ UNCHANGED <<disk, current>>
          /\ \E phase \in {"stopping", "closing", "done"} : Goto(g, phase)
      BY <1>7 DEF Exit, SeesEnd, Ending, Stop, Close
    <2>2. go'[g].phase \in {"stopping", "closing", "done"}
      BY <1>0, <2>1, GotoMoves DEF Phase
    <2> QED BY <1>0, <1>1, <2>1, <2>2 DEF Timed, Busy
  <1> QED
    BY <1>2, <1>3, <1>4, <1>5, <1>6, <1>7 DEF Main, Timer, Shared, NoteFails

LEMMA TimedTimely ==
  ASSUME Control, Timely, changes = 0, NEW g \in Goroutine \ {"worker"}, Turns(g), Timed(g)
  PROVE  Timely'
  <1>0. "worker" \in Goroutine /\ g # "none"
    BY Names
  <1>1. ASSUME NEW h \in Goroutine, h # g, Holds(h)
        PROVE  UNCHANGED <<disk, current>>
    <2>1. mu = h /\ h # "none"
      BY <1>1, GoroutineOf, Names
    <2> QED BY <1>1, <2>1 DEF Timed
  <1>2. \A h \in Goroutine : h # g => go'[h] = go[h]
    BY DEF Turns, Only
  <1>3. ASSUME NEW h \in Goroutine \ {"worker"}, HoldsIn(h, go'[h])
        PROVE  current'.stamp = disk'.stamp
    <2>1. CASE h = g
      BY <1>3, <2>1 DEF Timed
    <2>2. CASE h # g
      <3>1. Holds(h)
        BY <1>2, <1>3, <2>2 DEF Holds
      <3> QED BY <1>1, <2>2, <3>1 DEF Timely
    <2> QED BY <2>1, <2>2
  <1>4. go'["worker"].phase = "marking" => latest'.stamp = disk'.stamp
    <2>1. go["worker"].phase = "marking" => Holds("worker")
      BY DEF Holds, HoldsIn
    <2> QED BY <1>0, <1>1, <1>2, <2>1 DEF Timely, Timed
  <1> QED BY <1>3, <1>4 DEF Timely, Timed, Holds

\* The worker saves under the mutex, unless its session is renewed.
LEMMA WorkerTimely ==
  ASSUME "unauthorized" \notin Faults, Control, Timely, changes = 0, Worker
  PROVE  Timely'
  <1>0. /\ "worker" \in Goroutine /\ go \in [Goroutine -> Memory] /\ Only("worker") /\ TypeOK
    BY Names, GoroutineOf, WorkerTurns DEF Turns, Control
  <1>1. UNCHANGED <<current, changes>>
    BY Worker DEF Worker, Take, WorkerEnds, Look, Refresh, Send, Reload, Settle
  <1>2. \A h \in Goroutine \ {"worker"} : go'[h] = go[h]
    BY <1>0 DEF Only
  <1>3. CASE Settle
    <2>1. Rest /\ go["worker"].phase = "marking"
      BY <1>3 DEF Settle
    <2>2. go'["worker"].phase = "waiting"
      BY <2>1, RestMoves
    <2>3. mu = "worker"
      BY <1>0, <2>1, GoroutineOf DEF Holds, HoldsIn
    <2>4. \A h \in Goroutine \ {"worker"} : ~Holds(h)
      BY <2>3, GoroutineOf
    <2> QED BY <1>2, <2>2, <2>4 DEF Timely, Holds
  <1>4. CASE ~Settle
    <2>1. UNCHANGED disk
      BY <1>4, Worker DEF Worker, Take, WorkerEnds, Look, Refresh, Send, Reload
    <2>2. go'["worker"].phase = "marking" => latest' = disk'
      <3>1. CASE Take \/ WorkerEnds
        <4>1. \E phase \in {"checking", "done"} : Goto("worker", phase)
          BY <3>1 DEF Take, WorkerEnds
        <4> QED BY <1>0, <4>1, GotoMoves DEF Phase
      <3>2. CASE Look
        <4>1. Rest \/ Goto("worker", "posting")
          BY <3>2 DEF Look
        <4> QED BY <1>0, <4>1, RestMoves, GotoMoves DEF Phase
      <3>3. CASE Send
        <4>1. \/ Rest
              \/ \E acks \in SUBSET Pending(latest) :
                   go' = [go EXCEPT !["worker"].phase = "calling", !["worker"].acks = acks]
          BY <3>3 DEF Send
        <4>2. ASSUME NEW acks,
                     go' = [go EXCEPT !["worker"].phase = "calling", !["worker"].acks = acks]
              PROVE  go'["worker"].phase = "calling"
          BY <1>0, <4>2 DEF Memory
        <4> QED BY <4>1, <4>2, RestMoves
      <3>4. CASE Reload
        <4>1. Rest \/ latest' = disk
          BY <3>4 DEF Reload
        <4> QED BY <2>1, <4>1, RestMoves
      <3> QED BY <1>4, <3>1, <3>2, <3>3, <3>4, Worker DEF Worker, Refresh
    <2> QED BY <1>1, <1>2, <2>1, <2>2 DEF Timely, Holds
  <1> QED BY <1>3, <1>4

LEMMA TimelyInductive ==
  ASSUME {"load", "unauthorized"} \cap Faults = {}, Control, Timely, Next
  PROVE  Timely'
  <1>0. changes \in Nat
    BY DEF Control, TypeOK
  <1>1. changes' = changes \/ changes' = changes + 1
    BY RequestPlain, MainPlain, TimerPlain, WorkerPlain, Actors
       DEF Plain, World, Signal, MaxRuntime, Expire, Change, Forget
  <1>2. CASE changes # 0
    <2>1. changes' # 0
      BY <1>0, <1>1, <1>2
    <2> QED BY <2>1 DEF Timely
  <1>3. CASE changes = 0
    <2>1. ASSUME NEW r \in Request, Arrive(r) \/ Serving(r)
          PROVE  Timely'
      <3>1. r \in Goroutine \ {"worker"} /\ Turns(r)
        BY <2>1, Names, ServingTurns
      <3>2. Timed(r)
        BY <1>3, <2>1, RequestTimed
      <3> QED BY <1>3, <3>1, <3>2, TimedTimely
    <2>2. CASE Main
      <3>1. "main" \in Goroutine \ {"worker"} /\ Turns("main")
        BY <2>2, Names, MainTurns
      <3>2. Timed("main")
        BY <1>3, <2>2, OwnTimed
      <3> QED BY <1>3, <3>1, <3>2, TimedTimely
    <2>3. CASE Timer \/ IdleFires
      <3>1. "timer" \in Goroutine \ {"worker"} /\ Turns("timer")
        BY <2>3, Names, TimerTurns
      <3>2. Timed("timer")
        BY <1>3, <2>3, OwnTimed
      <3> QED BY <1>3, <3>1, <3>2, TimedTimely
    <2>4. CASE Worker
      BY <1>3, <2>4, WorkerTimely
    <2>5. CASE World
      <3>1. CASE Change \/ Forget
        <4>1. changes' # 0
          BY <1>3, <3>1 DEF Change, Forget
        <4> QED BY <4>1 DEF Timely
      <3>2. CASE Signal \/ MaxRuntime \/ Expire
        BY <3>2 DEF Signal, MaxRuntime, Expire, Timely, Holds
      <3> QED BY <2>5, <3>1, <3>2 DEF World
    <2> QED BY <2>1, <2>2, <2>3, <2>4, <2>5, Actors
  <1> QED BY <1>2, <1>3

\* The mutex is enough, even when writes or requests fail: until another
\* process changes the vault, a goroutine that is about to save finds the
\* state it loaded.
THEOREM OwnSavesAreCurrent ==
  ASSUME {"load", "unauthorized"} \cap Faults = {}
  PROVE  Spec => []OwnSavesCurrent
  <1>1. Init => Control /\ Ledgers /\ Timely
    <2> SUFFICES ASSUME Init
                 PROVE  Timely
      BY InitControl
    <2>1. current = disk /\ latest = disk
      BY DEF Init
    <2> QED BY <2>1 DEF Timely
  <1>2. Control /\ Ledgers /\ Timely /\ [Next]_vars => (Control /\ Ledgers /\ Timely)'
    <2>1. CASE Next
      BY <2>1, ControlInductive, LedgersInductive, TimelyInductive
    <2>2. CASE UNCHANGED vars
      <3>1. Timely => Timely'
        BY <2>2 DEF vars, Timely, Holds
      <3> QED BY <2>2, <3>1, LedgersStutter
    <2> QED BY <2>1, <2>2
  <1>3. Control /\ Timely => OwnSavesCurrent
    <2> SUFFICES ASSUME Control, Timely, changes = 0
                 PROVE  OwnSavesCurrent
      BY DEF OwnSavesCurrent
    <2>1. ASSUME NEW g \in Goroutine \ {"worker"},
                 go[g].phase \in {"noting", "gating", "posting", "marking", "blocking", "syncing",
                                  "keeping"}
          PROVE  mu = g /\ disk.stamp = current.stamp
      <3>1. Holds(g)
        BY <2>1 DEF Holds, HoldsIn, Busy
      <3> QED BY <2>1, <3>1, GoroutineOf DEF Timely
    <2>2. go["worker"].phase = "marking" => mu = "worker" /\ disk.stamp = latest.stamp
      <3>1. go["worker"].phase = "marking" => Holds("worker")
        BY DEF Holds, HoldsIn
      <3> QED BY <3>1, GoroutineOf, Names DEF Timely
    <2> QED BY <2>1, <2>2 DEF OwnSavesCurrent
  <1> QED BY <1>1, <1>2, <1>3, PTL DEF Spec

-----------------------------------------------------------------------------
(* When nothing fails and nobody else comes in between.                    *)

\* The end of the ledger: main's stop is noted, and all that counts is marked.
Settled(E) ==
  /\ \E e \in E : e.result = "stopped"
  /\ \A e \in E : e.result \in {"started", "stopped", "allowed"} => e.acked

\* Who has the mutex works on what the file holds, or has only marked more.
Works(phase, f) ==
  IF phase = "keeping"
    THEN f.stamp = disk.stamp /\ (Settled(disk.events) => Settled(f.events))
    ELSE f = disk

\* Main's last steps: it has noted its stop, then what it uploaded is marked,
\* then the marks are saved.
Final ==
  /\ go["main"].phase = "syncing" => \E e \in disk.events : e.result = "stopped"
  /\ go["main"].phase = "keeping" => Settled(current.events)
  /\ go["main"].phase \in {"closing", "done"} => Settled(disk.events)

Calm ==
  changes = 0 =>
    /\ disk.linked /\ current.linked /\ latest.linked
    /\ \A g \in Goroutine \ {"worker"} : Holds(g) => Works(go[g].phase, current)
    /\ go["worker"].phase = "marking" => latest = disk
    /\ Final

LEMMA SettledMarked ==
  ASSUME NEW E \in SUBSET Event, NEW acks
  PROVE  Settled(E) => Settled(Marked(E, acks))
  <1> DEFINE x(d) == [d EXCEPT !.acked = @ \/ Upload(d) \in acks]
  <1>0. \A d \in E : x(d).result = d.result /\ (d.acked => x(d).acked)
    <2> SUFFICES ASSUME NEW d \in E
                 PROVE  x(d).result = d.result /\ (d.acked => x(d).acked)
      OBVIOUS
    <2> QED BY MarkedElement
  <1>3. Marked(E, acks) = {x(d) : d \in E}
    BY DEF Marked
  <1> HIDE DEF x
  <1>1. \A e \in Marked(E, acks) : \E d \in E : e.result = d.result /\ (d.acked => e.acked)
    BY <1>0, <1>3
  <1>2. \A d \in E : \E e \in Marked(E, acks) : e.result = d.result
    BY <1>0, <1>3
  <1> QED BY <1>1, <1>2 DEF Settled

LEMMA SettledMade ==
  ASSUME NEW E, NEW of \in Request \cup {"broker"}, NEW result \in {"idle", "denied", "failed"}
  PROVE  Settled(E) => Settled(E \cup {Made(of, result)})
  <1>0. result \in {"started", "stopped", "idle", "allowed", "denied", "failed"}
    OBVIOUS
  <1>1. Made(of, result).result = result
    BY <1>0, MadeType
  <1> QED BY <1>1 DEF Settled

\* When saves do not fail and the copy is current, it is saved.
LEMMA SavedNow ==
  ASSUME "write" \notin Faults, TypeOK, current.stamp = disk.stamp, NEW events, Kept(events),
         SaveCurrent(events) \/ SaveCurrentFails(events)
  PROVE  /\ current' = disk' /\ disk'.events = events /\ disk'.linked = current.linked
  BY DEF SaveCurrentFails, SaveFails, SaveCurrent, Kept

\* What a goroutine but the worker may do while all is calm.
Calmly(g) ==
  /\ UNCHANGED <<latest, changes>>
  /\ \/ UNCHANGED <<disk, current>>
     \/ mu = g
     \/ mu = "none" /\ UNCHANGED disk
  /\ disk'.linked /\ current'.linked
  /\ HoldsIn(g, go'[g]) => Works(go[g].phase, current)'
  /\ Settled(disk.events) => Settled(disk'.events)

\* It saves the current store, in a phase in which that is what the file holds.
LEMMA SavesCalmly ==
  ASSUME "write" \notin Faults, Control, Calm, changes = 0, UNCHANGED <<latest, changes>>,
         NEW g \in Goroutine \ {"worker"}, Holds(g), NEW events, Kept(events),
         SaveCurrent(events) \/ SaveCurrentFails(events),
         Settled(disk.events) => Settled(events),
         HoldsIn(g, go'[g]) => go'[g].phase # "keeping"
  PROVE  Calmly(g) /\ current' = disk' /\ disk'.events = events
  <1>1. current.stamp = disk.stamp /\ current.linked /\ mu = g /\ TypeOK
    BY GoroutineOf DEF Calm, Works, Control
  <1>2. current' = disk' /\ disk'.events = events /\ disk'.linked = current.linked
    BY <1>1, SavedNow
  <1>3. HoldsIn(g, go'[g]) => Works(go[g].phase, current)'
    BY <1>2 DEF Works
  <1>4. disk'.linked /\ current'.linked
    BY <1>1, <1>2
  <1>5. Settled(disk.events) => Settled(disk'.events)
    BY <1>2
  <1> QED BY <1>1, <1>2, <1>3, <1>4, <1>5 DEF Calmly

LEMMA RequestCalmly ==
  ASSUME Faults \subseteq {"accept"}, Control, Ledgers, Calm, changes = 0,
         NEW r \in Request, Arrive(r) \/ Serving(r)
  PROVE  Calmly(r)
  <1>0. /\ r \in Goroutine \ {"worker"} /\ TypeOK /\ Turns(r) /\ r # "main" /\ r # "none"
        /\ (Holds(r) <=> go[r].phase \in Busy) /\ (Holds(r) => mu = r)
        /\ (HoldsIn(r, go'[r]) <=> go'[r].phase \in Busy)
        /\ disk.linked /\ current.linked
        /\ Holds(r) => Works(go[r].phase, current)
        /\ "write" \notin Faults
        /\ RequestAt(go[r])
    BY RequestOf, ServingTurns DEF Control, Holds, HoldsIn, Calm
  <1>1. UNCHANGED <<latest, changes>>
    BY RequestPlain, RequestData DEF Plain, Note, Gate, Mark, Block, Sync, Keep
  <1>2. CASE Note(r)
    <2>1. Holds(r) /\ go[r].result \in {"denied", "failed"} /\ About(r) = r
          /\ go[r].phase = "noting"
      BY <1>0, <1>2 DEF Note, Busy, RequestAt, About
    <2> DEFINE events == current.events \cup {Made(r, go[r].result)}
    <2>2. Kept(events) /\ (SaveCurrent(events) \/ SaveCurrentFails(events))
      BY <1>0, <1>2, <2>1, WhoKeeps DEF Note
    <2>3. Settled(current.events) => Settled(events)
      BY <2>1, SettledMade
    <2>4. go'[r].phase \notin Busy
      BY <1>0, <1>2, RequestEnds DEF Note, Noted, Busy
    <2> HIDE DEF events
    <2> QED BY <1>0, <1>1, <2>1, <2>2, <2>3, <2>4, SavesCalmly DEF Works
  <1>3. CASE Gate(r)
    <2>1. Holds(r) /\ go[r].phase = "gating"
      BY <1>0, <1>3 DEF Gate, Busy
    <2> DEFINE events == current.events \cup {Made(r, "allowed")}
    <2>2. Kept(events) /\ (SaveCurrent(events) \/ SaveCurrentFails(events))
      BY <1>0, <1>3, GateKeeps DEF Gate
    <2>3. ~Settled(disk.events)
      BY <2>1 DEF Settled, Ledgers, Files, Sound, Quiet
    <2>4. go'[r].phase # "keeping"
      <3>1. CASE End(r)
        BY <3>1, RequestEnds
      <3>2. ASSUME NEW phase \in {"posting", "syncing"}, Goto(r, phase)
            PROVE  go'[r].phase # "keeping"
        BY <3>2, RequestGoes DEF Phase
      <3> QED BY <1>3, <3>1, <3>2 DEF Gate
    <2> HIDE DEF events
    <2> QED BY <1>0, <1>1, <2>1, <2>2, <2>3, <2>4, SavesCalmly
  <1>4. CASE Mark(r)
    <2>1. Holds(r) /\ go[r].phase = "marking"
      BY <1>0, <1>4 DEF Mark, Busy
    <2> DEFINE events == Marked(current.events, {Made(r, "allowed")})
    <2>2. Kept(events) /\ (SaveCurrent(events) \/ SaveCurrentFails(events))
      BY <1>0, <1>4, MarkKeeps DEF Mark
    <2>3. Settled(current.events) => Settled(events)
      BY <1>0, FilesOf, SettledMarked
    <2>4. go'[r].phase # "keeping"
      <3>1. ASSUME NEW phase \in {"reading", "blocking"}, Goto(r, phase)
            PROVE  go'[r].phase # "keeping"
        BY <3>1, RequestGoes DEF Phase
      <3> QED BY <1>4, <3>1 DEF Mark
    <2> HIDE DEF events
    <2> QED BY <1>0, <1>1, <2>1, <2>2, <2>3, <2>4, SavesCalmly DEF Works
  <1>5. CASE Block(r)
    <2>1. Holds(r) /\ go[r].phase = "blocking"
      BY <1>0, <1>5 DEF Block, Busy
    <2> DEFINE events == current.events \cup {Made(r, "failed")}
    <2>2. Kept(events) /\ (SaveCurrent(events) \/ SaveCurrentFails(events))
      BY <1>0, <1>5, BlockKeeps DEF Block
    <2>3. Settled(current.events) => Settled(events)
      BY SettledMade
    <2>4. go'[r].phase \notin Busy
      BY <1>0, <1>5, RequestEnds DEF Block, Busy
    <2> HIDE DEF events
    <2> QED BY <1>0, <1>1, <2>1, <2>2, <2>3, <2>4, SavesCalmly DEF Works
  <1>6. CASE Keep(r)
    <2>1. Holds(r) /\ go[r].phase = "keeping"
      BY <1>0, <1>6 DEF Keep, Busy
    <2>2. Kept(current.events)
          /\ (SaveCurrent(current.events) \/ SaveCurrentFails(current.events))
      BY <1>0, <1>6, KeepKeeps DEF Keep
    <2>3. go'[r].phase # "keeping"
      BY <1>0, <1>6, RequestGoes DEF Keep, Synced, Phase
    <2> QED BY <1>0, <1>1, <2>1, <2>2, <2>3, SavesCalmly DEF Works
  <1>7. CASE Sync(r)
    <2>1. Holds(r) /\ go[r].phase = "syncing" /\ current = disk /\ mu = r
      BY <1>0, <1>7 DEF Sync, Busy, Works
    <2>2. PICK acks \in SUBSET Pending(current) :
                 current' = current \/ current'.events = Marked(current.events, acks)
      BY <1>0, <1>7, SyncSends
    <2>3. UNCHANGED disk /\ current'.stamp = current.stamp /\ current'.linked = current.linked
      BY <1>0, <1>7, SyncSends
    <2>4. Settled(disk.events) => Settled(current'.events)
      BY <1>0, <2>1, <2>2, FilesOf, SettledMarked
    <2>5. go'[r].phase # "keeping" => current' = current
      <3>1. CASE Goto(r, "keeping")
        BY <3>1, RequestGoes DEF Phase
      <3> QED BY <1>7, <3>1 DEF Sync
    <2> QED BY <1>0, <1>1, <2>1, <2>3, <2>4, <2>5 DEF Calmly, Works
  <1>8. CASE ~(Note(r) \/ Gate(r) \/ Mark(r) \/ Block(r) \/ Sync(r) \/ Keep(r))
    <2>1. /\ UNCHANGED disk
          /\ UNCHANGED current \/ (current' = disk /\ mu \in {r, "none"})
          /\ go'[r].phase \in Busy =>
               /\ go'[r].phase # "keeping"
               /\ \/ current' = disk /\ mu \in {r, "none"}
                  \/ Holds(r) /\ go[r].phase # "keeping" /\ UNCHANGED current
      BY <1>8, RequestTakes
    <2> QED BY <1>0, <1>1, <2>1 DEF Calmly, Works
  <1> QED BY <1>2, <1>3, <1>4, <1>5, <1>6, <1>7, <1>8

\* Nothing that counts is left unmarked when everything pending was marked.
LEMMA AllSettled ==
  ASSUME NEW f \in StateFile, f.linked, \E e \in f.events : e.result = "stopped"
  PROVE  Settled(Marked(f.events, Pending(f))) /\ (Pending(f) = {} => Settled(f.events))
  <1> DEFINE x(d) == [d EXCEPT !.acked = @ \/ Upload(d) \in Pending(f)]
  <1>1. f.events \subseteq Event
    BY DEF StateFile
  <1>2. \A d \in f.events : ~d.acked => Upload(d) \in Pending(f)
    BY DEF Pending
  <1>3. \A d \in f.events : x(d).result = d.result /\ x(d).acked
    <2> SUFFICES ASSUME NEW d \in f.events
                 PROVE  x(d).result = d.result /\ x(d).acked
      OBVIOUS
    <2>1. d \in Event /\ d.acked \in BOOLEAN
      BY <1>1 DEF Event
    <2> QED BY <1>2, <2>1, MarkedElement
  <1>4. Marked(f.events, Pending(f)) = {x(d) : d \in f.events}
    BY DEF Marked
  <1> HIDE DEF x
  <1>5. Settled(Marked(f.events, Pending(f)))
    BY <1>3, <1>4 DEF Settled
  <1>6. Pending(f) = {} => \A d \in f.events : d.acked
    BY <1>2
  <1> QED BY <1>5, <1>6 DEF Settled

LEMMA MainCalmly ==
  ASSUME Faults \subseteq {"accept"}, Control, Ledgers, Calm, changes = 0, Main
  PROVE  Calmly("main") /\ Final'
  <1> DEFINE m == go["main"]
             n == go'["main"]
  <1>0. /\ "main" \in Goroutine \ {"worker"} /\ "main" # "worker" /\ TypeOK /\ Turns("main")
        /\ (Holds("main") <=> m.phase \in Busy) /\ (Holds("main") => mu = "main")
        /\ (HoldsIn("main", n) <=> n.phase \in Busy)
        /\ disk.linked /\ current.linked
        /\ Holds("main") => Works(m.phase, current)
        /\ Final
        /\ "write" \notin Faults /\ "load" \notin Faults /\ "network" \notin Faults
        /\ MainAt(m) /\ m \in Memory /\ go \in [Goroutine -> Memory]
        /\ disk \in StateFile /\ current \in StateFile
    BY Names, GoroutineOf, FilesOf, MainTurns DEF Control, Holds, HoldsIn, Calm, PlacedIn
  <1>1. UNCHANGED <<latest, changes>>
    <2>1. UNCHANGED changes
      BY MainPlain DEF Plain
    <2>2. UNCHANGED latest
      BY Main DEF Main, Shared, Flush, Begin, Note, NoteFails, Sync, Keep, Return, Exit
    <2> QED BY <2>1, <2>2
  <1>2. CASE Begin("main")
    <2>1. n.phase = "noting" /\ current' = disk /\ UNCHANGED disk /\ mu = "none"
      BY <1>0, <1>2, GotoMoves DEF Begin, Phase
    <2> QED BY <1>0, <1>1, <2>1 DEF Calmly, Works, Final
  <1>3. CASE Note("main")
    <2>1. /\ Holds("main") /\ m.phase = "noting" /\ m.result \in {"started", "stopped"}
          /\ m.next = IF m.result = "started" THEN "serving" ELSE "syncing"
          /\ About("main") = "broker"
      BY <1>0, <1>3, Names DEF Note, Busy, MainAt, About
    <2> DEFINE events == current.events \cup {Made("broker", m.result)}
    <2>2. Kept(events) /\ (SaveCurrent(events) \/ SaveCurrentFails(events))
      BY <1>0, <1>3, <2>1, WhoKeeps DEF Note
    <2>3. ~Settled(disk.events)
      BY <2>1 DEF Settled, Ledgers, Files, Sound, Quiet, Past
    <2>4. n.phase = m.next
      BY <1>0, <1>3, EndMoves, AfterType, Names DEF Note, Noted
    <2>5. Made("broker", m.result).result = m.result /\ Made("broker", m.result) \in events
      BY DEF Made
    <2> HIDE DEF events
    <2>6. Calmly("main") /\ current' = disk' /\ disk'.events = events
      BY <1>0, <1>1, <2>1, <2>2, <2>3, <2>4, SavesCalmly
    <2>7. Final'
      BY <2>1, <2>4, <2>5, <2>6 DEF Final
    <2> QED BY <2>6, <2>7
  <1>4. CASE Sync("main")
    <2>1. Holds("main") /\ m.phase = "syncing" /\ current = disk /\ mu = "main"
          /\ \E e \in disk.events : e.result = "stopped"
      BY <1>0, <1>4 DEF Sync, Busy, Works, Final
    <2>2. \/ Pending(current) = {} /\ Goto("main", "closing") /\ UNCHANGED current
          \/ /\ Goto("main", "keeping")
             /\ current' = [current EXCEPT !.events = Marked(@, Pending(current))]
      BY <1>0, <1>4 DEF Sync, Uploaded, Synced
    <2>3. UNCHANGED disk /\ current'.stamp = current.stamp /\ current'.linked = current.linked
      BY <1>0, <1>4, SyncSends
    <2>4. Settled(Marked(current.events, Pending(current)))
          /\ (Pending(current) = {} => Settled(current.events))
      BY <1>0, <2>1, AllSettled
    <2>5. CASE Pending(current) = {} /\ Goto("main", "closing") /\ UNCHANGED current
      <3>1. n.phase = "closing"
        BY <1>0, <2>5, GotoMoves DEF Phase
      <3> QED BY <1>0, <1>1, <2>1, <2>3, <2>4, <2>5, <3>1 DEF Calmly, Final, Busy
    <2>6. CASE Goto("main", "keeping")
               /\ current' = [current EXCEPT !.events = Marked(@, Pending(current))]
      <3>1. n.phase = "keeping"
        BY <1>0, <2>6, GotoMoves DEF Phase
      <3>2. current'.events = Marked(current.events, Pending(current))
        BY <1>0, <2>6 DEF StateFile
      <3> QED BY <1>0, <1>1, <2>1, <2>3, <2>4, <3>1, <3>2 DEF Calmly, Final, Works
    <2> QED BY <2>2, <2>5, <2>6
  <1>5. CASE Keep("main")
    <2>1. Holds("main") /\ m.phase = "keeping" /\ Settled(current.events)
      BY <1>0, <1>5 DEF Keep, Busy, Final
    <2>2. Kept(current.events)
          /\ (SaveCurrent(current.events) \/ SaveCurrentFails(current.events))
      BY <1>0, <1>5, KeepKeeps DEF Keep
    <2>3. n.phase = "closing"
      BY <1>0, <1>5, GotoMoves DEF Keep, Synced, Phase
    <2>4. Calmly("main") /\ disk'.events = current.events
      BY <1>0, <1>1, <2>1, <2>2, <2>3, SavesCalmly
    <2> QED BY <2>1, <2>3, <2>4 DEF Final
  <1>6. CASE Return
    <2>1. n.phase = "waiting" /\ UNCHANGED <<disk, current>>
      <3>1. n = [At("waiting") EXCEPT !.result = "stopped", !.next = "syncing"]
            /\ UNCHANGED <<disk, current>>
        BY <1>0, <1>6 DEF Return
      <3> QED BY <3>1 DEF At
    <2> QED BY <1>0, <1>1, <2>1 DEF Calmly, Final, Busy
  <1>7. CASE Exit
    <2>1. m.phase = "closing" /\ n.phase = "done" /\ UNCHANGED <<disk, current>>
      BY <1>0, <1>7, GotoMoves DEF Exit, Phase
    <2> QED BY <1>0, <1>1, <2>1 DEF Calmly, Final, Busy
  <1> QED
    BY <1>0, <1>2, <1>3, <1>4, <1>5, <1>6, <1>7, Main DEF Main, Shared, Flush, NoteFails

LEMMA TimerCalmly ==
  ASSUME Faults \subseteq {"accept"}, Control, Ledgers, Calm, changes = 0, Timer \/ IdleFires
  PROVE  Calmly("timer")
  <1> DEFINE m == go["timer"]
             n == go'["timer"]
  <1>0. /\ "timer" \in Goroutine \ {"worker"} /\ "timer" # "worker" /\ TypeOK /\ Turns("timer")
        /\ "timer" \notin Request
        /\ (Holds("timer") <=> m.phase \in Busy)
        /\ (HoldsIn("timer", n) <=> n.phase \in Busy)
        /\ disk.linked /\ current.linked
        /\ Holds("timer") => Works(m.phase, current)
        /\ "write" \notin Faults /\ "load" \notin Faults
        /\ TimerAt(m) /\ m \in Memory /\ go \in [Goroutine -> Memory]
    BY Names, GoroutineOf, TimerTurns DEF Control, Holds, HoldsIn, Calm, PlacedIn
  <1>1. UNCHANGED <<latest, changes>>
    BY Timer \/ IdleFires DEF Timer, Shared, Ending, Begin, Note, NoteFails, SeesEnd, Stop, Close,
                              IdleFires
  <1>2. CASE Begin("timer")
    <2>1. n.phase = "noting" /\ current' = disk /\ UNCHANGED disk /\ mu = "none"
      BY <1>0, <1>2, GotoMoves DEF Begin, Phase
    <2> QED BY <1>0, <1>1, <2>1 DEF Calmly, Works
  <1>3. CASE Note("timer")
    <2>1. Holds("timer") /\ m.phase = "noting" /\ m.result = "idle" /\ About("timer") = "broker"
      BY <1>0, <1>3 DEF Note, Busy, TimerAt, About
    <2> DEFINE events == current.events \cup {Made("broker", "idle")}
    <2>2. Kept(events) /\ (SaveCurrent(events) \/ SaveCurrentFails(events))
      BY <1>0, <1>3, <2>1, WhoKeeps DEF Note
    <2>3. Settled(current.events) => Settled(events)
      BY SettledMade
    <2>4. n.phase \in {"done", "stopping"}
      BY <1>0, <1>3, EndMoves, AfterType, ZenonT(40) DEF Note, Noted, TimerAt
    <2> HIDE DEF events
    <2> QED BY <1>0, <1>1, <2>1, <2>2, <2>3, <2>4, SavesCalmly DEF Works
  <1>4. CASE SeesEnd \/ Ending("timer") \/ IdleFires
    <2>1. UNCHANGED <<disk, current>>
      BY <1>4 DEF SeesEnd, Ending, Stop, Close, IdleFires
    <2>2. n.phase \in {"stopping", "closing", "done", "waiting"}
      <3>1. CASE IdleFires
        BY <1>0, <3>1 DEF IdleFires, Memory
      <3>2. CASE SeesEnd \/ Ending("timer")
        <4>1. \E phase \in {"stopping", "closing", "done"} : Goto("timer", phase)
          BY <3>2 DEF SeesEnd, Ending, Stop, Close
        <4> QED BY <1>0, <4>1, GotoMoves DEF Phase
      <3> QED BY <1>4, <3>1, <3>2
    <2> QED BY <1>0, <1>1, <2>1, <2>2 DEF Calmly, Busy
  <1> QED BY <1>0, <1>2, <1>3, <1>4, Timer \/ IdleFires DEF Timer, Shared, NoteFails

\* What one of them did leaves all the others calm.
LEMMA CalmlyCalm ==
  ASSUME Control, Calm, changes = 0, NEW g \in Goroutine \ {"worker"}, Turns(g), Calmly(g),
         g = "main" => Final'
  PROVE  Calm'
  <1>0. /\ disk.linked /\ current.linked /\ latest.linked
        /\ \A h \in Goroutine \ {"worker"} : Holds(h) => Works(go[h].phase, current)
        /\ go["worker"].phase = "marking" => latest = disk
        /\ Final
        /\ UNCHANGED <<latest, changes>> /\ disk'.linked /\ current'.linked
        /\ g \in Goroutine /\ g # "none" /\ "worker" \in Goroutine /\ "main" \in Goroutine
        /\ "main" # "worker"
    BY Names DEF Calm, Calmly
  <1>1. ASSUME NEW h \in Goroutine, h # g, Holds(h)
        PROVE  UNCHANGED <<disk, current>>
    <2>1. mu = h /\ h # "none"
      BY <1>1, GoroutineOf, Names
    <2> QED BY <1>1, <2>1 DEF Calmly
  <1>2. ASSUME NEW h \in Goroutine \ {"worker"}, HoldsIn(h, go'[h])
        PROVE  Works(go[h].phase, current)'
    <2>1. CASE h = g
      BY <1>2, <2>1 DEF Calmly
    <2>2. CASE h # g
      <3>1. go'[h] = go[h]
        BY <2>2 DEF Turns, Only
      <3>2. Holds(h)
        BY <1>2, <3>1 DEF Holds
      <3>3. UNCHANGED <<disk, current>>
        BY <1>1, <2>2, <3>2
      <3> QED BY <1>0, <3>1, <3>2, <3>3 DEF Works
    <2> QED BY <2>1, <2>2
  <1>3. go'["worker"].phase = "marking" => latest' = disk'
    <2>1. go'["worker"] = go["worker"]
      BY <1>0 DEF Turns, Only
    <2>2. go["worker"].phase = "marking" => Holds("worker")
      BY DEF Holds, HoldsIn
    <2> QED BY <1>0, <1>1, <2>1, <2>2
  <1>4. Final'
    <2>1. CASE g = "main"
      BY <2>1
    <2>2. CASE g # "main"
      <3>1. go'["main"] = go["main"]
        BY <1>0, <2>2 DEF Turns, Only
      <3>2. go["main"].phase \in {"syncing", "keeping"} => UNCHANGED <<disk, current>>
        BY <1>0, <1>1, <2>2 DEF Holds, HoldsIn, Busy
      <3>3. Settled(disk.events) => Settled(disk'.events)
        BY DEF Calmly
      <3> QED BY <1>0, <3>1, <3>2, <3>3 DEF Final
    <2> QED BY <2>1, <2>2
  <1> QED BY <1>0, <1>2, <1>3, <1>4 DEF Calm, Holds

\* The worker saves what it loaded under the mutex, with more marks.
LEMMA WorkerCalm ==
  ASSUME Faults \subseteq {"accept"}, Control, Calm, changes = 0, Worker
  PROVE  Calm'
  <1> DEFINE m == go["worker"]
  <1>0. /\ disk.linked /\ current.linked /\ latest.linked
        /\ \A h \in Goroutine \ {"worker"} : Holds(h) => Works(go[h].phase, current)
        /\ m.phase = "marking" => latest = disk
        /\ Final
        /\ "worker" \in Goroutine /\ "main" \in Goroutine /\ "main" # "worker"
        /\ "unauthorized" \notin Faults /\ "load" \notin Faults
        /\ go \in [Goroutine -> Memory]
        /\ Turns("worker") /\ Only("worker")
    BY Names, GoroutineOf, WorkerTurns DEF Calm, Turns
  <1>1. UNCHANGED <<current, changes>>
    BY <1>0, Worker DEF Worker, Take, WorkerEnds, Look, Refresh, Send, Reload, Settle
  <1>2. Vault(FALSE).linked
    BY DEF Vault
  <1>3. \A h \in Goroutine \ {"worker"} : go'[h] = go[h]
    BY <1>0 DEF Only
  <1>4. SUFFICES /\ disk'.linked /\ latest'.linked
                 /\ \A h \in Goroutine \ {"worker"} : Holds(h) => Works(go[h].phase, current)'
                 /\ go'["worker"].phase = "marking" => latest' = disk'
                 /\ Final'
    <2>1. \A h \in Goroutine \ {"worker"} : HoldsIn(h, go'[h]) => Holds(h)
      BY <1>3 DEF Holds
    <2> QED BY <1>0, <1>1, <2>1 DEF Calm, Holds
  <1>5. CASE UNCHANGED disk
    <2>1. latest'.linked /\ (go'["worker"].phase = "marking" => latest' = disk')
      <3>1. CASE Take \/ WorkerEnds
        <4>1. UNCHANGED latest /\ \E phase \in {"checking", "done"} : Goto("worker", phase)
          BY <3>1 DEF Take, WorkerEnds
        <4> QED BY <1>0, <4>1, GotoMoves DEF Phase
      <3>2. CASE Look
        <4>1. Rest \/ (latest' = disk /\ Goto("worker", "posting"))
          BY <3>2 DEF Look
        <4> QED BY <1>0, <1>2, <4>1, RestMoves, GotoMoves DEF Phase
      <3>3. CASE Send
        <4>1. \/ Rest
              \/ /\ UNCHANGED latest
                 /\ \E acks \in SUBSET Pending(latest) :
                      go' = [go EXCEPT !["worker"].phase = "calling", !["worker"].acks = acks]
          BY <3>3 DEF Send
        <4>2. ASSUME NEW acks,
                     go' = [go EXCEPT !["worker"].phase = "calling", !["worker"].acks = acks]
              PROVE  go'["worker"].phase = "calling"
          BY <1>0, <4>2 DEF Memory
        <4> QED BY <1>0, <1>2, <4>1, <4>2, RestMoves
      <3>4. CASE Reload
        <4>1. latest' = disk
          BY <1>0, <3>4 DEF Reload
        <4> QED BY <1>0, <1>5, <4>1
      <3>5. CASE Settle
        BY <1>0, <1>2, <3>5, RestMoves DEF Settle
      <3> QED
        BY <1>0, <3>1, <3>2, <3>3, <3>4, <3>5, Worker DEF Worker, Refresh
    <2> QED BY <1>0, <1>1, <1>3, <1>5, <2>1 DEF Works, Final
  <1>6. CASE ~UNCHANGED disk
    <2>1. Settle
      BY <1>0, <1>6, Worker DEF Worker, Take, WorkerEnds, Look, Refresh, Send, Reload
    <2>2. m.phase = "marking" /\ mu = "worker" /\ latest = disk
      BY <1>0, <2>1, GoroutineOf DEF Settle, Holds, HoldsIn
    <2>3. /\ Rest
          /\ disk' = [latest EXCEPT !.stamp = @ + 1,
                                    !.events = Marked(latest.events, go["worker"].acks)]
      BY <1>6, <2>1 DEF Settle, Saves, SaveFails
    <2>4. latest' = Vault(FALSE) /\ go'["worker"].phase = "waiting"
      BY <2>3, RestMoves
    <2>5. disk'.events = Marked(disk.events, go["worker"].acks) /\ disk'.linked
      BY <1>0, <2>2, <2>3, FilesOf DEF StateFile, Control
    <2>6. Settled(disk.events) => Settled(disk'.events)
      BY <2>5, FilesOf, SettledMarked DEF Control
    <2>7. \A h \in Goroutine \ {"worker"} : ~Holds(h)
      BY <2>2, GoroutineOf
    <2>8. Final'
      <3>1. go["main"].phase \notin {"syncing", "keeping"}
        BY <1>0, <2>7 DEF Holds, HoldsIn, Busy
      <3> QED BY <1>0, <1>3, <2>6, <3>1 DEF Final
    <2> QED BY <1>2, <2>4, <2>5, <2>7, <2>8
  <1> QED BY <1>5, <1>6

LEMMA CalmInductive ==
  ASSUME Faults \subseteq {"accept"}, Control, Ledgers, Calm, Next
  PROVE  Calm'
  <1>0. changes \in Nat
    BY DEF Control, TypeOK
  <1>1. CASE changes # 0
    <2>1. changes' = changes \/ changes' = changes + 1
      BY RequestPlain, MainPlain, TimerPlain, WorkerPlain, Actors
         DEF Plain, World, Signal, MaxRuntime, Expire, Change, Forget
    <2>2. changes' # 0
      BY <1>0, <1>1, <2>1
    <2> QED BY <2>2 DEF Calm
  <1>2. CASE changes = 0
    <2>1. ASSUME NEW r \in Request, Arrive(r) \/ Serving(r)
          PROVE  Calm'
      <3>1. r \in Goroutine \ {"worker"} /\ r # "main" /\ Turns(r)
        BY <2>1, Names, ServingTurns
      <3>2. Calmly(r)
        BY <1>2, <2>1, RequestCalmly
      <3> QED BY <1>2, <3>1, <3>2, CalmlyCalm
    <2>2. CASE Main
      <3>1. "main" \in Goroutine \ {"worker"} /\ Turns("main")
        BY <2>2, Names, MainTurns
      <3>2. Calmly("main") /\ Final'
        BY <1>2, <2>2, MainCalmly
      <3> QED BY <1>2, <3>1, <3>2, CalmlyCalm
    <2>3. CASE Timer \/ IdleFires
      <3>1. "timer" \in Goroutine \ {"worker"} /\ Turns("timer")
        BY <2>3, Names, TimerTurns
      <3>2. Calmly("timer")
        BY <1>2, <2>3, TimerCalmly
      <3> QED BY <1>2, <3>1, <3>2, CalmlyCalm
    <2>4. CASE Worker
      BY <1>2, <2>4, WorkerCalm
    <2>5. CASE World
      <3>1. CASE Change \/ Forget
        <4>1. changes' = changes + 1
          BY <3>1 DEF Change, Forget
        <4> QED BY <1>2, <4>1 DEF Calm
      <3>2. CASE Signal \/ MaxRuntime \/ Expire
        BY <3>2 DEF Signal, MaxRuntime, Expire, Calm, Holds, Works, Final
      <3> QED BY <2>5, <3>1, <3>2 DEF World
    <2> QED BY <2>1, <2>2, <2>3, <2>4, <2>5, Actors
  <1> QED BY <1>1, <1>2

\* Without faults the mutex is enough, however many requests come and however
\* the broker is stopped: as long as no other process changes the vault, no
\* save of one goroutine makes that of another fail, and at the end all that
\* counts is recorded and marked as such.
THEOREM MutexIsEnough ==
  ASSUME Faults \subseteq {"accept"}
  PROVE  Spec => []MutexSuffices
  <1>1. Init => Calm
    <2> SUFFICES ASSUME Init
                 PROVE  Calm
      OBVIOUS
    <2>1. Control
      BY InitControl
    <2>2. \A g \in Goroutine : go[g].phase \in {"waiting", "off"}
      BY DEF Init, At
    <2>3. \A g \in Goroutine : ~Holds(g)
      BY <2>2 DEF Holds, HoldsIn, Busy
    <2>4. disk.linked /\ current = disk /\ latest = disk
      BY DEF Init, Vault
    <2>5. go["main"].phase = "waiting" /\ go["worker"].phase = "waiting"
      BY Names DEF Init, At
    <2> QED BY <2>3, <2>4, <2>5 DEF Calm, Final
  <1>2. Control /\ Ledgers /\ Calm /\ [Next]_vars => (Control /\ Ledgers /\ Calm)'
    <2>1. CASE Next
      BY <2>1, ControlInductive, LedgersInductive, CalmInductive
    <2>2. CASE UNCHANGED vars
      <3>1. Calm => Calm'
        BY <2>2 DEF vars, Calm, Holds, Works, Final
      <3> QED BY <2>2, <3>1, LedgersStutter
    <2> QED BY <2>1, <2>2
  <1>3. Calm => SyncedAtExit
    BY DEF Calm, Final, Settled, Running, SyncedAtExit
  <1>4. Spec => []OwnSavesCurrent
    <2>1. {"load", "unauthorized"} \cap Faults = {}
      OBVIOUS
    <2> QED BY <2>1, OwnSavesAreCurrent
  <1>5. OwnSavesCurrent /\ SyncedAtExit => MutexSuffices
    BY DEF MutexSuffices
  <1>6. Init => Control /\ Ledgers
    BY InitControl
  <1> QED BY <1>1, <1>2, <1>3, <1>4, <1>5, <1>6, PTL DEF Spec

-----------------------------------------------------------------------------
(* The files: which of what was loaded is still what the state file holds. *)

\* A file that was loaded and has the stamp of the state file is the state
\* file, but for events that were added and could not be saved.
Descends(f) ==
  /\ f.stamp <= disk.stamp
  /\ f.stamp = disk.stamp =>
       /\ f.granted = disk.granted
       /\ Releasing(disk.events) \subseteq Releasing(f.events)

\* It has no release that the state file does not have.
Grounded(f) == Releasing(f.events) \subseteq Releasing(disk.events)

\* The worker's copy counts from when it is loaded to when it is forgotten.
Uploads == {"posting", "syncing", "calling", "marking"}

\* Main could not load the file to note its stop and flushes an older copy,
\* which may hold a release that was never saved.
Stale ==
  /\ "load" \in Faults
  /\ go["main"].phase \in {"syncing", "keeping"}
  /\ \A f \in Files : \A e \in f.events : e.result # "stopped"

Copies ==
  /\ Descends(current)
  /\ go["worker"].phase \in Uploads => Descends(latest)
  /\ Grounded(latest)
  /\ \A g \in Goroutine \ {"worker"} : Holds(g) => Grounded(current) \/ Stale

-----------------------------------------------------------------------------
(* The requests: what each has achieved where it is.                       *)

Entry(r) == [by |-> r, secret |-> "value"]

Achieves(r, m) ==
  /\ m.phase = "gating" => current.granted
  /\ m.phase \in {"posting", "marking", "blocking", "syncing", "keeping", "reading", "answering"}
       => Entry(r) \in Releasing(disk.events)
  /\ m.phase \in {"syncing", "keeping"} => ~current.strict
  /\ m.phase = "reading" /\ current.strict => Entry(r) \in Releasing(remote)
  /\ m.phase = "answering" /\ m.strict => Entry(r) \in Releasing(remote)

Achieved == \A r \in Request : Achieves(r, go[r])

\* What was told is in the file, if the file could always be loaded.
Told == "load" \in Faults \/ AllowedIsLocal

BInv == Control /\ Ledgers /\ Copies /\ Achieved /\ Told


-----------------------------------------------------------------------------
(* Releases.                                                               *)

LEMMA ReleasingMade ==
  ASSUME NEW E, NEW of \in Request \cup {"broker"},
         NEW result \in {"started", "stopped", "idle", "allowed", "denied", "failed"}
  PROVE  Releasing(E \cup {Made(of, result)}) =
           IF result = "allowed" THEN Releasing(E) \cup {Entry(of)} ELSE Releasing(E)
  <1>1. Made(of, result).of = of /\ Made(of, result).result = result
    BY MadeType, ZenonT(40)
  <1> QED BY <1>1 DEF Releasing, Entry

LEMMA ReleasingMarked ==
  ASSUME NEW E \in SUBSET Event, NEW acks
  PROVE  Releasing(Marked(E, acks)) = Releasing(E)
  <1>1. \A d \in E : LET x == [d EXCEPT !.acked = @ \/ Upload(d) \in acks] IN
                     x.of = d.of /\ x.result = d.result
    BY MarkedElement
  <1>2. \A e \in Marked(E, acks) : \E d \in E : e.of = d.of /\ e.result = d.result
    BY <1>1 DEF Marked
  <1>3. \A d \in E : \E e \in Marked(E, acks) : e.of = d.of /\ e.result = d.result
    BY <1>1 DEF Marked
  <1>4. Releasing(Marked(E, acks)) \subseteq Releasing(E)
    BY <1>2 DEF Releasing
  <1>5. Releasing(E) \subseteq Releasing(Marked(E, acks))
    BY <1>3 DEF Releasing
  <1> QED BY <1>4, <1>5

\* What is sent of a file was in it, and what was told before stays told.
LEMMA ReleasingSent ==
  ASSUME NEW f \in StateFile, NEW sent \in SUBSET Pending(f)
  PROVE  /\ Releasing(remote) \subseteq Releasing(remote \cup sent)
         /\ Releasing(remote \cup sent) \subseteq Releasing(remote) \cup Releasing(f.events)
  <1>1. f.events \subseteq Event
    BY DEF StateFile
  <1>2. \A e \in sent : \E d \in f.events : e.of = d.of /\ e.result = d.result
    <2> SUFFICES ASSUME NEW e \in sent
                 PROVE  \E d \in f.events : e.of = d.of /\ e.result = d.result
      OBVIOUS
    <2>1. PICK d \in f.events : e = Upload(d)
      BY DEF Pending
    <2>2. d \in Event
      BY <1>1
    <2> QED BY <2>1, <2>2, UploadType
  <1> QED BY <1>2 DEF Releasing

LEMMA EntryOf ==
  ASSUME NEW r \in Request
  PROVE  Made(r, "allowed") \in remote => Entry(r) \in Releasing(remote)
  <1>1. Made(r, "allowed").of = r /\ Made(r, "allowed").result = "allowed"
    BY MadeType
  <1> QED BY <1>1 DEF Releasing, Entry

-----------------------------------------------------------------------------
(* What a step does to the copies.                                         *)

Grows ==
  /\ Releasing(disk.events) \subseteq Releasing(disk'.events)
  /\ Releasing(remote) \subseteq Releasing(remote')
  /\ disk.stamp <= disk'.stamp

\* What every step keeps of Copies.
Copied ==
  /\ Grows
  /\ Descends(current)'
  /\ go'["worker"].phase \in Uploads => Descends(latest)'
  /\ Grounded(latest)'

\* What g does to the ledgers, unless main flushes a stale copy.
Honest(g) ==
  ~Stale =>
    /\ Releasing(remote') \subseteq Releasing(remote) \cup Releasing(disk.events)
    /\ disk'.granted = disk.granted
    /\ \/ Releasing(disk'.events) = Releasing(disk.events)
       \/ /\ g \in Request /\ go[g].phase = "gating" /\ disk.granted
          /\ Releasing(disk'.events) = Releasing(disk.events) \cup {Entry(g)}

LEMMA StampsOf ==
  ASSUME TypeOK
  PROVE  disk.stamp \in Nat /\ current.stamp \in Nat /\ latest.stamp \in Nat
  BY FilesOf DEF StateFile

LEMMA SilentCopied ==
  ASSUME TypeOK, Copies, UNCHANGED <<disk, current, latest>>,
         Releasing(remote) \subseteq Releasing(remote'),
         go'["worker"].phase \in Uploads => go["worker"].phase \in Uploads
  PROVE  Copied
  BY StampsOf DEF Copies, Copied, Grows, Descends, Grounded

LEMMA LoadCopied ==
  ASSUME TypeOK, Copies, current' = disk, UNCHANGED <<disk, latest, remote>>,
         go'["worker"].phase \in Uploads => go["worker"].phase \in Uploads
  PROVE  Copied /\ Grounded(current)'
  BY StampsOf DEF Copies, Copied, Grows, Descends, Grounded

\* A save of the current store, with nothing taken out of it.
LEMMA KeptCopied ==
  ASSUME TypeOK, Copies, NEW events, Kept(events), UNCHANGED <<latest, remote>>,
         Releasing(current.events) \subseteq Releasing(events),
         go'["worker"].phase \in Uploads => go["worker"].phase \in Uploads
  PROVE  Copied
  <1>1. CASE disk' = current' /\ disk.stamp = current.stamp /\ disk'.stamp = disk.stamp + 1
    <2>1. Releasing(disk.events) \subseteq Releasing(current.events)
      BY <1>1 DEF Copies, Descends
    <2>2. Releasing(disk'.events) = Releasing(events)
      BY <1>1 DEF Kept
    <2>3. Grows
      BY <1>1, <2>1, <2>2, StampsOf DEF Grows
    <2>4. Descends(current)'
      BY <1>1, StampsOf DEF Descends
    <2>5. go'["worker"].phase \in Uploads => Descends(latest)'
      BY <1>1, StampsOf DEF Copies, Descends
    <2>6. Grounded(latest)'
      BY <2>3 DEF Copies, Grounded, Grows
    <2> QED BY <2>3, <2>4, <2>5, <2>6 DEF Copied
  <1>2. CASE disk' = disk /\ current'.stamp = current.stamp
    <2>1. Releasing(current'.events) = Releasing(events) /\ current'.granted = current.granted
      BY DEF Kept
    <2> QED BY <1>2, <2>1, StampsOf DEF Copies, Copied, Grows, Descends, Grounded
  <1> QED BY <1>1, <1>2 DEF Kept

\* A save that adds no release leaves the ones of the state file as they are,
\* if the copy had no other.
LEMMA KeptGrounded ==
  ASSUME Copies, NEW events, Kept(events), Releasing(events) = Releasing(current.events),
         Grounded(current)
  PROVE  /\ Grounded(current)'
         /\ Releasing(disk'.events) = Releasing(disk.events)
         /\ disk'.granted = disk.granted
  <1>1. current'.events = events /\ current'.granted = current.granted
    BY DEF Kept
  <1>2. CASE disk' = current' /\ disk.stamp = current.stamp
    BY <1>1, <1>2 DEF Copies, Descends, Grounded
  <1>3. CASE disk' = disk
    BY <1>1, <1>3 DEF Grounded
  <1> QED BY <1>2, <1>3 DEF Kept

LEMMA Firm ==
  ASSUME Control, Copies, NEW g \in Goroutine \ {"worker"}, Holds(g), g # "main"
  PROVE  Grounded(current) /\ mu = g
  <1>1. mu = g /\ (go["main"].phase \in Busy => mu = "main")
    BY Names, GoroutineOf DEF Holds, HoldsIn
  <1>2. ~Stale
    BY <1>1 DEF Stale, Busy
  <1> QED BY <1>1, <1>2 DEF Copies

LEMMA WorkerStays ==
  ASSUME NEW g \in Goroutine \ {"worker"}, Turns(g)
  PROVE  go'["worker"].phase \in Uploads => go["worker"].phase \in Uploads
  BY Names DEF Turns, Only

\* A goroutine that has the mutex saves the current store and adds no release.
LEMMA KeptSteps ==
  ASSUME Control, Copies, NEW g \in Goroutine \ {"worker"}, Turns(g), Holds(g),
         NEW events, Kept(events), UNCHANGED <<latest, remote>>,
         Releasing(events) = Releasing(current.events)
  PROVE  /\ Copied /\ Honest(g) /\ mu = g
         /\ ~Stale => Grounded(current)'
  <1>1. Copied
    BY WorkerStays, KeptCopied DEF Control
  <1>2. mu = g
    BY GoroutineOf
  <1>3. ASSUME ~Stale
        PROVE  Grounded(current)
    BY <1>3 DEF Copies
  <1>4. Honest(g)
    BY <1>3, KeptGrounded DEF Honest
  <1> QED BY <1>1, <1>2, <1>3, <1>4, KeptGrounded

LEMMA SyncSteps ==
  ASSUME Control, Copies, NEW g \in Goroutine \ {"worker"}, Turns(g), Holds(g), Sync(g)
  PROVE  /\ Copied /\ Honest(g) /\ mu = g
         /\ ~Stale => Grounded(current)'
         /\ current'.strict = current.strict
  <1>0. TypeOK /\ mu = g /\ current \in StateFile /\ current.events \in SUBSET Event
    BY GoroutineOf, FilesOf DEF Control
  <1>1. PICK acks \in SUBSET Pending(current), sent \in SUBSET Pending(current) :
               /\ remote' = remote \cup sent
               /\ current' = current \/ current'.events = Marked(current.events, acks)
    BY <1>0, SyncSends
  <1>2. /\ UNCHANGED <<disk, latest>>
        /\ current'.stamp = current.stamp /\ current'.granted = current.granted
        /\ current'.strict = current.strict
    BY <1>0, SyncSends
  <1>3. Releasing(current'.events) = Releasing(current.events)
    BY <1>0, <1>1, ReleasingMarked
  <1>4. /\ Releasing(remote) \subseteq Releasing(remote')
        /\ Releasing(remote') \subseteq Releasing(remote) \cup Releasing(current.events)
    BY <1>0, <1>1, ReleasingSent
  <1>5. Copied
    BY <1>0, <1>2, <1>3, <1>4, StampsOf, WorkerStays
       DEF Copies, Copied, Grows, Descends, Grounded
  <1>6. ASSUME ~Stale
        PROVE  Grounded(current)
    BY <1>6 DEF Copies
  <1>7. Honest(g)
    BY <1>2, <1>4, <1>6 DEF Honest, Grounded
  <1>8. ~Stale => Grounded(current)'
    BY <1>2, <1>3, <1>6 DEF Grounded
  <1> QED BY <1>0, <1>2, <1>5, <1>7, <1>8

LEMMA SilentSteps ==
  ASSUME Control, Copies, NEW g \in Goroutine \ {"worker"}, Turns(g),
         UNCHANGED <<disk, current, latest, remote>>
  PROVE  Copied /\ Honest(g)
  <1>1. Copied
    BY WorkerStays, SilentCopied DEF Control
  <1> QED BY <1>1 DEF Honest

LEMMA LoadSteps ==
  ASSUME Control, Copies, NEW g \in Goroutine \ {"worker"}, Turns(g),
         current' = disk, UNCHANGED <<disk, latest, remote>>
  PROVE  Copied /\ Honest(g) /\ Grounded(current)'
  <1>1. Copied /\ Grounded(current)'
    BY WorkerStays, LoadCopied DEF Control
  <1> QED BY <1>1 DEF Honest

\* Only its owner changes the current store.
Owned(g) == UNCHANGED current \/ mu = g \/ mu = "none"

LEMMA RequestCopied ==
  ASSUME BInv, NEW r \in Request, Arrive(r) \/ Serving(r)
  PROVE  /\ Copied /\ Honest(r) /\ Owned(r)
         /\ go'[r].phase \in Busy => Grounded(current)'
  <1>0. /\ Control /\ Copies /\ TypeOK /\ Turns(r) /\ RequestAt(go[r])
        /\ r \in Goroutine \ {"worker"} /\ r # "main"
        /\ (Holds(r) <=> go[r].phase \in Busy)
        /\ Achieves(r, go[r])
    BY RequestOf, ServingTurns DEF BInv, Control, Holds, HoldsIn, Achieved
  <1>1. Holds(r) => Grounded(current) /\ mu = r /\ ~Stale
    <2>1. go["main"].phase \in Busy => mu = "main"
      BY <1>0, Names, GoroutineOf DEF Holds, HoldsIn
    <2> QED BY <1>0, <2>1, Firm DEF Stale, Busy
  <1>2. CASE UNCHANGED <<disk, current, latest, remote>>
    <2>1. Copied /\ Honest(r)
      BY <1>0, <1>2, SilentSteps
    <2>2. ASSUME go'[r].phase \in Busy
          PROVE  Grounded(current)'
      <3>1. CASE current' = disk
        BY <1>2, <3>1 DEF Grounded
      <3>2. CASE current' # disk
        <4>1. \/ Enter(r) \/ CheckPasses(r) \/ Gate(r) \/ Post(r) \/ PostFails(r) \/ Mark(r)
              \/ Sync(r) \/ Keep(r)
          BY <1>0, <2>2, <3>2, RequestFlow DEF Busy
        <4>2. ~Enter(r)
          BY <3>2 DEF Enter
        <4>3. go[r].phase \in Busy
          BY <4>1, <4>2 DEF CheckPasses, Gate, Post, PostFails, Mark, Sync, Keep, Busy
        <4> QED BY <1>0, <1>1, <1>2, <4>3 DEF Grounded
      <3> QED BY <3>1, <3>2
    <2> QED BY <1>2, <2>1, <2>2 DEF Owned
  <1>3. CASE current' = disk /\ UNCHANGED <<disk, latest, remote>>
    <2>1. Copied /\ Honest(r) /\ Grounded(current)'
      BY <1>0, <1>3, LoadSteps
    <2>2. Owned(r)
      <3>1. CASE go'[r].phase \in Busy
        BY <1>0, <3>1, Names DEF Turns, HoldsIn, Owned
      <3>2. CASE go'[r].phase \notin Busy /\ current' # current
        <4>1. CASE Note(r) \/ Gate(r) \/ Mark(r) \/ Block(r) \/ Sync(r) \/ Keep(r)
          <5>1. go[r].phase \in Busy
            BY <4>1 DEF Note, Gate, Mark, Block, Sync, Keep, Busy
          <5> QED BY <1>0, <1>1, <5>1 DEF Owned
        <4>2. CASE Begin(r) \/ Enter(r)
          BY <4>2 DEF Begin, Enter, Owned
        <4>3. CASE CheckFails(r) \/ Read(r)
          <5>1. go[r].phase \in Busy
            BY <4>3 DEF CheckFails, Read, Busy
          <5> QED BY <1>0, <1>1, <5>1 DEF Owned
        <4>4. CASE Arrive(r) \/ Refuse(r) \/ Claim(r) \/ Malformed(r) \/ Call(r) \/ EnterFails(r)
          BY <3>2, <4>4 DEF Arrive, Refuse, Claim, Malformed, Call, EnterFails
        <4>5. CASE CheckPasses(r) \/ Post(r) \/ PostFails(r) \/ Answer(r) \/ TooLate(r)
          BY <3>2, <4>5 DEF CheckPasses, Post, PostFails, Answer, TooLate
        <4>6. CASE NoteFails(r) \/ Ending(r)
          BY <3>2, <4>6 DEF NoteFails, Ending, Stop, Close
        <4> QED
          BY <4>1, <4>2, <4>3, <4>4, <4>5, <4>6, Arrive(r) \/ Serving(r)
             DEF Serving, Handle, Shared, Flush
      <3> QED BY <3>1, <3>2 DEF Owned
    <2> QED BY <2>1, <2>2
  <1>4. CASE /\ go[r].phase = "posting" /\ UNCHANGED <<disk, current, latest>>
             /\ remote' = remote \cup {Made(r, "allowed")}
    <2>1. Holds(r)
      BY <1>0, <1>4 DEF Busy
    <2>2. Entry(r) \in Releasing(disk.events)
      BY <1>0, <1>4 DEF Achieves
    <2>3. Releasing(remote') = Releasing(remote) \cup {Entry(r)}
      BY <1>4, ReleasingMade
    <2>4. Copied
      BY <1>0, <1>4, <2>3, WorkerStays, SilentCopied
    <2>5. Honest(r)
      BY <1>4, <2>2, <2>3 DEF Honest
    <2>6. Grounded(current)'
      BY <1>1, <1>4, <2>1 DEF Grounded
    <2> QED BY <1>4, <2>4, <2>5, <2>6 DEF Owned
  <1>5. CASE Note(r)
    <2>1. Holds(r) /\ go[r].result \in {"denied", "failed"} /\ About(r) = r
      BY <1>0, <1>5 DEF Note, Busy, RequestAt, About
    <2>2. Kept(current.events \cup {Made(r, go[r].result)}) /\ UNCHANGED <<latest, remote>>
      BY <1>0, <1>5, <2>1, WhoKeeps DEF Note
    <2>3. Releasing(current.events \cup {Made(r, go[r].result)}) = Releasing(current.events)
      <3>1. Releasing(current.events \cup {Made(r, "denied")}) = Releasing(current.events)
        BY ReleasingMade
      <3>2. Releasing(current.events \cup {Made(r, "failed")}) = Releasing(current.events)
        BY ReleasingMade
      <3> QED BY <2>1, <3>1, <3>2
    <2> QED BY <1>0, <1>1, <2>1, <2>2, <2>3, KeptSteps DEF Owned
  <1>6. CASE Gate(r)
    <2> DEFINE events == current.events \cup {Made(r, "allowed")}
    <2>1. Holds(r) /\ current.granted
      BY <1>0, <1>6 DEF Gate, Busy, Achieves
    <2>2. Kept(events) /\ UNCHANGED <<latest, remote>>
      BY <1>0, <1>6, GateKeeps DEF Gate
    <2>3. Releasing(events) = Releasing(current.events) \cup {Entry(r)}
      BY ReleasingMade
    <2> HIDE DEF events
    <2>4. Copied
      BY <1>0, <2>2, <2>3, WorkerStays, KeptCopied
    <2>5. Honest(r)
      <3>1. CASE disk' = current' /\ disk.stamp = current.stamp
        <4>1. /\ Releasing(disk.events) = Releasing(current.events)
              /\ disk.granted = current.granted
          BY <1>0, <1>1, <2>1, <3>1 DEF Copies, Descends, Grounded
        <4>2. disk'.granted = current.granted /\ disk'.events = events
          BY <2>2, <3>1 DEF Kept
        <4> QED BY <1>6, <2>1, <2>2, <2>3, <4>1, <4>2 DEF Honest, Gate
      <3>2. CASE disk' = disk
        BY <2>2, <3>2 DEF Honest
      <3> QED BY <2>2, <3>1, <3>2 DEF Kept
    <2>6. ASSUME go'[r].phase \in Busy
          PROVE  Grounded(current)'
      <3>1. CASE current' = disk
        BY <2>4, <3>1 DEF Grounded, Copied, Grows
      <3>2. CASE SaveCurrent(events)
        BY <3>2 DEF SaveCurrent, Grounded
      <3>3. CASE current' # disk /\ ~SaveCurrent(events)
        <4>1. \/ Enter(r) \/ CheckPasses(r) \/ Post(r) \/ PostFails(r) \/ Mark(r)
              \/ Sync(r) \/ Keep(r)
          BY <1>0, <2>6, <3>3, RequestFlow DEF Busy, events
        <4> QED
          BY <1>6, <4>1 DEF Gate, Enter, CheckPasses, Post, PostFails, Mark, Sync, Keep
      <3> QED BY <3>1, <3>2, <3>3
    <2> QED BY <1>1, <2>1, <2>4, <2>5, <2>6 DEF Owned
  <1>7. CASE Mark(r)
    <2>1. Holds(r)
      BY <1>0, <1>7 DEF Mark, Busy
    <2>2. /\ Kept(Marked(current.events, {Made(r, "allowed")}))
          /\ UNCHANGED <<latest, remote>>
      BY <1>0, <1>7, MarkKeeps DEF Mark
    <2>3. Releasing(Marked(current.events, {Made(r, "allowed")})) = Releasing(current.events)
      BY <1>0, FilesOf, ReleasingMarked
    <2> QED BY <1>0, <1>1, <2>1, <2>2, <2>3, KeptSteps DEF Owned
  <1>8. CASE Block(r)
    <2>1. Holds(r)
      BY <1>0, <1>8 DEF Block, Busy
    <2>2. Kept(current.events \cup {Made(r, "failed")}) /\ UNCHANGED <<latest, remote>>
      BY <1>0, <1>8, BlockKeeps DEF Block
    <2>3. Releasing(current.events \cup {Made(r, "failed")}) = Releasing(current.events)
      BY ReleasingMade
    <2> QED BY <1>0, <1>1, <2>1, <2>2, <2>3, KeptSteps DEF Owned
  <1>9. CASE Sync(r)
    <2>1. Holds(r)
      BY <1>0, <1>9 DEF Sync, Busy
    <2> QED BY <1>0, <1>1, <1>9, <2>1, SyncSteps DEF Owned
  <1>10. CASE Keep(r)
    <2>1. Holds(r)
      BY <1>0, <1>10 DEF Keep, Busy
    <2>2. Kept(current.events) /\ UNCHANGED <<latest, remote>>
      BY <1>0, <1>10, KeepKeeps DEF Keep
    <2> QED BY <1>0, <1>1, <2>1, <2>2, KeptSteps DEF Owned
  <1> QED BY <1>2, <1>3, <1>4, <1>5, <1>6, <1>7, <1>8, <1>9, <1>10, RequestData

LEMMA RequestAchieves ==
  ASSUME BInv, NEW r \in Request, Arrive(r) \/ Serving(r)
  PROVE  Achieves(r, go[r])'
  <1>0. /\ Control /\ Copies /\ TypeOK /\ Ledgers
        /\ Releasing(disk.events) \subseteq Releasing(disk'.events)
        /\ Releasing(remote) \subseteq Releasing(remote')
        /\ Achieves(r, go[r])
        /\ current.strict \in BOOLEAN
    BY RequestCopied, FilesOf DEF BInv, Control, Copied, Grows, Achieved, StateFile
  <1> DEFINE p == go'[r].phase
  <1>1. CASE p \in {"arrived", "claimed", "calling", "checking", "noting", "waiting", "stopping",
                    "closing", "done"}
    BY <1>1 DEF Achieves
  <1>2. CASE p = "gating" /\ CheckPasses(r)
    BY <1>2 DEF CheckPasses, Achieves
  <1>3. CASE /\ p \in {"posting", "syncing"} /\ SaveCurrent(current.events \cup {Made(r, "allowed")})
             /\ p = "syncing" => ~current.strict
             /\ Gate(r)
    <2>1. Kept(current.events \cup {Made(r, "allowed")})
      BY <1>0, <1>3, GateKeeps
    <2>2. disk'.events = current.events \cup {Made(r, "allowed")} /\ current'.strict = current.strict
      BY <1>3, <2>1 DEF Kept, SaveCurrent
    <2>3. Entry(r) \in Releasing(disk'.events)
      <3>1. Releasing(current.events \cup {Made(r, "allowed")})
              = Releasing(current.events) \cup {Entry(r)}
        BY ReleasingMade
      <3> QED BY <2>2, <3>1
    <2> QED BY <1>3, <2>2, <2>3 DEF Achieves
  <1>4. CASE p = "marking" /\ Post(r)
    BY <1>0, <1>4 DEF Post, Achieves
  <1>5. CASE p = "blocking" /\ (PostFails(r) \/ Mark(r))
    BY <1>0, <1>5 DEF PostFails, Mark, Achieves
  <1>6. CASE p = "reading" /\ Mark(r)
    <2>1. Made(r, "allowed") \in remote /\ go[r].phase = "marking"
      BY <1>0, <1>6 DEF Mark, Ledgers
    <2>2. Entry(r) \in Releasing(remote')
      BY <1>0, <2>1, EntryOf
    <2> QED BY <1>0, <1>6, <2>1, <2>2 DEF Achieves
  <1>7. CASE p \in {"reading", "keeping"} /\ (Sync(r) \/ Keep(r))
    <2>1. go[r].phase \in {"syncing", "keeping"}
      BY <1>7 DEF Sync, Keep
    <2>2. current'.strict = current.strict
      BY <1>0, <1>7, SyncSends, KeepKeeps DEF Kept
    <2> QED BY <1>0, <1>7, <2>1, <2>2 DEF Achieves
  <1>8. CASE p = "answering" /\ Read(r) /\ go'[r].strict = current.strict
    BY <1>0, <1>8 DEF Read, Achieves
  <1> QED BY <1>0, <1>1, <1>2, <1>3, <1>4, <1>5, <1>6, <1>7, <1>8, RequestFlow

\* No stop comes into the files but by main's note of it.
NoStop == \A f \in Files : \A e \in f.events : e.result # "stopped"

LEMMA StaysUnstopped ==
  ASSUME Derived, NoStop, ~Note("main")
  PROVE  NoStop'
  <1> SUFFICES ASSUME NEW f \in {disk', current', latest'}, NEW e \in f.events
               PROVE  e.result # "stopped"
    BY DEF NoStop, Files
  <1>1. Given(e)
    BY DEF Derived
  <1> QED BY <1>1 DEF Given, Added, Same, NoStop

LEMMA MainCopied ==
  ASSUME BInv, Main
  PROVE  /\ Copied /\ Honest("main") /\ Owned("main")
         /\ go'["main"].phase \in Busy => (Grounded(current) \/ Stale)'
  <1> DEFINE m == go["main"]
             n == go'["main"]
  <1>0. /\ Control /\ Copies /\ TypeOK /\ Ledgers /\ Turns("main") /\ MainAt(m)
        /\ "main" \in Goroutine \ {"worker"} /\ go \in [Goroutine -> Memory]
        /\ (Holds("main") <=> m.phase \in Busy)
    BY Names, GoroutineOf, MainTurns DEF BInv, Control, Holds, HoldsIn, PlacedIn
  <1>1. Holds("main") => mu = "main" /\ (Grounded(current) \/ Stale)
    BY <1>0, GoroutineOf DEF Copies
  <1>2. CASE Begin("main")
    <2>1. mu = "none" /\ current' = disk /\ UNCHANGED <<disk, latest, remote>>
      BY <1>2 DEF Begin
    <2> QED BY <1>0, <2>1, LoadSteps DEF Owned
  <1>3. CASE Note("main")
    <2>1. Holds("main") /\ ~Stale /\ m.result \in {"started", "stopped"}
          /\ About("main") = "broker"
      BY <1>0, <1>3, Names DEF Note, Busy, Stale, MainAt, About
    <2>2. Kept(current.events \cup {Made("broker", m.result)}) /\ UNCHANGED <<latest, remote>>
      BY <1>0, <1>3, <2>1, WhoKeeps DEF Note
    <2>3. Releasing(current.events \cup {Made("broker", m.result)}) = Releasing(current.events)
      <3>1. Releasing(current.events \cup {Made("broker", "started")}) = Releasing(current.events)
        BY ReleasingMade
      <3>2. Releasing(current.events \cup {Made("broker", "stopped")}) = Releasing(current.events)
        BY ReleasingMade
      <3> QED BY <2>1, <3>1, <3>2
    <2> QED BY <1>0, <2>1, <2>2, <2>3, KeptSteps DEF Owned
  <1>4. CASE NoteFails("main")
    <2>1. /\ UNCHANGED <<disk, current, latest, remote>> /\ "load" \in Faults
          /\ m.phase = "waiting"
      BY <1>4 DEF NoteFails, ToNote
    <2>2. Copied /\ Honest("main")
      BY <1>0, <2>1, SilentSteps
    <2>3. ASSUME n.phase \in Busy
          PROVE  Stale'
      <3>1. n.phase = m.next
        BY <1>0, <1>4, EndMoves, AfterType, Names DEF NoteFails, Noted
      <3>2. n.phase = "syncing"
        BY <1>0, <2>1, <2>3, <3>1 DEF MainAt, Busy
      <3>3. NoStop
        BY <1>0, <2>1 DEF NoStop, Ledgers, Sound, Quiet, Past
      <3> QED BY <2>1, <3>2, <3>3 DEF Stale, NoStop, Files
    <2> QED BY <2>1, <2>2, <2>3 DEF Owned
  <1>5. CASE Return \/ Exit
    <2>1. UNCHANGED <<disk, current, latest, remote>>
      BY <1>5 DEF Return, Exit
    <2>2. n.phase \notin Busy
      <3>1. CASE Exit
        BY <1>0, <3>1, GotoMoves DEF Exit, Phase, Busy
      <3>2. CASE Return
        <4>1. At("waiting") \in Memory /\ At("waiting").phase = "waiting"
          BY AtType DEF Phase
        <4>2. n = [At("waiting") EXCEPT !.result = "stopped", !.next = "syncing"]
          BY <1>0, <3>2 DEF Return
        <4> QED BY <4>1, <4>2 DEF Memory, Busy
      <3> QED BY <1>5, <3>1, <3>2
    <2> QED BY <1>0, <2>1, <2>2, SilentSteps DEF Owned
  <1>6. CASE Sync("main")
    <2>1. Holds("main") /\ ~Note("main")
      BY <1>0, <1>6 DEF Sync, Busy, Note
    <2>2. /\ Copied /\ Honest("main") /\ mu = "main"
          /\ ~Stale => Grounded(current)'
      BY <1>0, <1>6, <2>1, SyncSteps
    <2>3. ASSUME Stale, n.phase \in Busy
          PROVE  Stale'
      <3>1. NoStop'
        BY <1>0, <2>1, <2>3, MainDerived, StaysUnstopped DEF Stale, NoStop
      <3>2. n.phase \in {"keeping", "closing"}
        <4>1. Goto("main", "keeping") \/ Goto("main", "closing")
          BY <1>6 DEF Sync, Synced
        <4> QED BY <1>0, <4>1, GotoMoves DEF Phase
      <3> QED BY <2>3, <3>1, <3>2 DEF Stale, NoStop, Busy
    <2> QED BY <2>2, <2>3 DEF Owned
  <1>7. CASE Keep("main")
    <2>1. Holds("main")
      BY <1>0, <1>7 DEF Keep, Busy
    <2>2. Kept(current.events) /\ UNCHANGED <<latest, remote>>
      BY <1>0, <1>7, KeepKeeps DEF Keep
    <2>3. Copied /\ Honest("main") /\ mu = "main"
      BY <1>0, <2>1, <2>2, KeptSteps
    <2>4. n.phase \notin Busy
      BY <1>0, <1>7, GotoMoves DEF Keep, Synced, Phase, Busy
    <2> QED BY <2>3, <2>4 DEF Owned
  <1> QED BY <1>2, <1>3, <1>4, <1>5, <1>6, <1>7, Main DEF Main, Shared, Flush

LEMMA TimerCopied ==
  ASSUME BInv, Timer \/ IdleFires
  PROVE  /\ Copied /\ Honest("timer") /\ Owned("timer")
         /\ go'["timer"].phase \in Busy => Grounded(current)'
  <1> DEFINE m == go["timer"]
             n == go'["timer"]
  <1>0. /\ Control /\ Copies /\ TypeOK /\ Turns("timer") /\ TimerAt(m)
        /\ "timer" \in Goroutine \ {"worker"} /\ "timer" # "main"
        /\ go \in [Goroutine -> Memory]
        /\ (Holds("timer") <=> m.phase \in Busy)
    BY Names, GoroutineOf, TimerTurns DEF BInv, Control, Holds, HoldsIn, PlacedIn
  <1>1. CASE Begin("timer")
    <2>1. mu = "none" /\ current' = disk /\ UNCHANGED <<disk, latest, remote>>
      BY <1>1 DEF Begin
    <2> QED BY <1>0, <2>1, LoadSteps DEF Owned
  <1>2. CASE Note("timer")
    <2>1. /\ Holds("timer") /\ Grounded(current) /\ m.result = "idle"
          /\ About("timer") = "broker"
      BY <1>0, <1>2, Firm, Names DEF Note, Busy, TimerAt, About
    <2>2. Kept(current.events \cup {Made("broker", "idle")}) /\ UNCHANGED <<latest, remote>>
      BY <1>0, <1>2, <2>1, WhoKeeps DEF Note
    <2>3. Releasing(current.events \cup {Made("broker", "idle")}) = Releasing(current.events)
      BY ReleasingMade
    <2>4. Copied /\ Honest("timer") /\ mu = "timer"
      BY <1>0, <2>1, <2>2, <2>3, KeptSteps
    <2>5. Grounded(current)'
      BY <1>0, <2>1, <2>2, <2>3, KeptGrounded
    <2> QED BY <2>4, <2>5 DEF Owned
  <1>3. CASE NoteFails("timer") \/ SeesEnd \/ Ending("timer") \/ IdleFires
    <2>1. UNCHANGED <<disk, current, latest, remote>>
      BY <1>3 DEF NoteFails, SeesEnd, Ending, Stop, Close, IdleFires
    <2>2. n.phase \notin Busy
      <3>1. CASE NoteFails("timer")
        BY <1>0, <3>1, EndMoves, AfterType, Names DEF NoteFails, Noted, TimerAt, Busy
      <3>2. CASE SeesEnd \/ Ending("timer")
        BY <1>0, <3>2, GotoMoves DEF SeesEnd, Ending, Stop, Close, Phase, Busy
      <3>3. CASE IdleFires
        BY <1>0, <3>3 DEF IdleFires, Memory, Busy
      <3> QED BY <1>3, <3>1, <3>2, <3>3
    <2> QED BY <1>0, <2>1, <2>2, SilentSteps DEF Owned
  <1> QED BY <1>1, <1>2, <1>3, Timer \/ IdleFires DEF Timer, Shared

LEMMA WorkerCopied ==
  ASSUME BInv, Worker
  PROVE  Copied /\ Honest("worker") /\ UNCHANGED current
  <1> DEFINE m == go["worker"]
             n == go'["worker"]
  <1>0. /\ Control /\ Copies /\ TypeOK /\ "worker" \in Goroutine /\ "worker" \notin Request
        /\ go \in [Goroutine -> Memory]
        /\ disk.stamp \in Nat /\ current.stamp \in Nat /\ latest.stamp \in Nat
        /\ latest \in StateFile /\ latest.events \in SUBSET Event
    BY Names, GoroutineOf, StampsOf, FilesOf DEF BInv, Control
  <1>1. UNCHANGED current
    BY DEF Worker, Take, WorkerEnds, Look, Refresh, Send, Reload, Settle
  <1>2. ASSUME Rest
        PROVE  /\ n.phase \notin Uploads /\ Releasing(latest'.events) = {}
    <2>1. n.phase = "waiting" /\ latest' = Vault(FALSE)
      BY <1>0, <1>2, RestMoves
    <2>2. Vault(FALSE).events = {}
      BY VaultType
    <2> QED BY <2>1, <2>2 DEF Uploads, Releasing
  <1>3. ASSUME NEW phase \in Phase, Goto("worker", phase)
        PROVE  n.phase = phase
    BY <1>0, <1>3, GotoMoves
  \* Nothing is written.
  <1>4. ASSUME UNCHANGED <<disk, remote>>,
               \/ latest' = latest /\ (n.phase \in Uploads => m.phase \in Uploads)
               \/ latest' = disk
               \/ Rest
        PROVE  Copied /\ Honest("worker")
    <2>1. Grows /\ Descends(current)'
      BY <1>0, <1>1, <1>4 DEF Copies, Grows, Descends
    <2>2. /\ n.phase \in Uploads => Descends(latest)'
          /\ Grounded(latest)'
      <3>1. CASE latest' = latest /\ (n.phase \in Uploads => m.phase \in Uploads)
        BY <1>0, <1>4, <3>1 DEF Copies, Descends, Grounded
      <3>2. CASE latest' = disk
        BY <1>0, <1>4, <3>2 DEF Descends, Grounded
      <3>3. CASE Rest
        BY <1>2, <3>3 DEF Grounded
      <3> QED BY <1>4, <3>1, <3>2, <3>3
    <2> QED BY <1>4, <2>1, <2>2 DEF Copied, Honest
  \* What was loaded is written, with other marks at most.
  <1>5. ASSUME m.phase \in Uploads, UNCHANGED remote,
               disk.stamp = latest.stamp, disk'.stamp = disk.stamp + 1,
               Releasing(disk'.events) = Releasing(latest.events), disk'.granted = latest.granted,
               latest' = disk' \/ Rest
        PROVE  Copied /\ Honest("worker")
    <2>1. /\ Releasing(latest.events) = Releasing(disk.events)
          /\ latest.granted = disk.granted
      BY <1>0, <1>5 DEF Copies, Descends, Grounded
    <2>2. Grows /\ Descends(current)'
      BY <1>0, <1>1, <1>5, <2>1 DEF Copies, Grows, Descends
    <2>3. /\ n.phase \in Uploads => Descends(latest)'
          /\ Grounded(latest)'
      <3>1. CASE latest' = disk'
        BY <1>0, <1>5, <3>1 DEF Descends, Grounded
      <3>2. CASE Rest
        BY <1>2, <3>2 DEF Grounded
      <3> QED BY <1>5, <3>1, <3>2
    <2> QED BY <1>5, <2>1, <2>2, <2>3 DEF Copied, Honest
  <1>6. CASE Take \/ WorkerEnds
    <2>1. UNCHANGED <<disk, remote, latest>>
      BY <1>6 DEF Take, WorkerEnds
    <2>2. n.phase \notin Uploads
      BY <1>3, <1>6 DEF Take, WorkerEnds, Phase, Uploads
    <2> QED BY <1>1, <1>4, <2>1, <2>2
  <1>7. CASE Look \/ Reload
    BY <1>1, <1>4, <1>7 DEF Look, Reload
  <1>8. CASE Refresh
    <2>1. m.phase \in Uploads /\ UNCHANGED remote
      BY <1>8 DEF Refresh, Uploads
    <2> QED BY <1>0, <1>1, <1>4, <1>5, <1>8, <2>1, RefreshSaves
  <1>9. CASE Send
    <2>1. PICK acks \in SUBSET Pending(latest), sent \in SUBSET Pending(latest) :
                 /\ remote' = remote \cup sent
                 /\ \/ Rest
                    \/ UNCHANGED latest
      BY <1>0, <1>9, SendSends
    <2>2. UNCHANGED disk /\ m.phase \in Uploads
      BY <1>9 DEF Send, Uploads
    <2>3. /\ Releasing(remote) \subseteq Releasing(remote')
          /\ Releasing(remote') \subseteq Releasing(remote) \cup Releasing(latest.events)
      BY <1>0, <2>1, ReleasingSent
    <2>4. Grows /\ Descends(current)'
      BY <1>0, <1>1, <2>2, <2>3 DEF Copies, Grows, Descends
    <2>5. /\ n.phase \in Uploads => Descends(latest)'
          /\ Grounded(latest)'
      <3>1. CASE UNCHANGED latest
        BY <1>0, <2>2, <3>1 DEF Copies, Descends, Grounded
      <3>2. CASE Rest
        BY <1>2, <3>2 DEF Grounded
      <3> QED BY <2>1, <3>1, <3>2
    <2>6. Honest("worker")
      BY <1>0, <2>2, <2>3 DEF Copies, Grounded, Honest
    <2> QED BY <1>1, <2>4, <2>5, <2>6 DEF Copied
  <1>10. CASE Settle
    <2>1. m.phase \in Uploads /\ UNCHANGED remote
      BY <1>10 DEF Settle, Uploads
    <2>2. Releasing(Marked(latest.events, m.acks)) = Releasing(latest.events)
      BY <1>0, ReleasingMarked
    <2> QED BY <1>0, <1>1, <1>4, <1>5, <1>10, <2>1, <2>2, SettleSaves
  <1> QED BY <1>6, <1>7, <1>8, <1>9, <1>10, Worker DEF Worker

LEMMA WorldCopied ==
  ASSUME BInv, World
  PROVE  /\ Copied
         /\ UNCHANGED <<mu, go, current, latest, remote, answered>>
         /\ Releasing(disk'.events) = Releasing(disk.events)
  <1>0. TypeOK /\ Copies /\ disk.stamp \in Nat /\ current.stamp \in Nat /\ latest.stamp \in Nat
    BY StampsOf DEF BInv, Control
  <1>1. UNCHANGED <<mu, go, current, latest, remote, answered>>
    BY DEF World, Signal, MaxRuntime, Expire, Change, Forget
  <1>2. UNCHANGED disk \/ (disk'.stamp = disk.stamp + 1 /\ disk'.events = disk.events)
    BY <1>0, ChangeSaves DEF World, Signal, MaxRuntime, Expire, Forget
  <1>3. Releasing(disk'.events) = Releasing(disk.events)
    BY <1>2
  <1>4. Copied
    BY <1>0, <1>1, <1>2, <1>3 DEF Copies, Copied, Grows, Descends, Grounded
  <1> QED BY <1>1, <1>3, <1>4

-----------------------------------------------------------------------------
(* The invariant.                                                          *)

\* What a goroutine's step does, whichever it is.
Steps(g) ==
  /\ Turns(g) /\ Copied /\ Honest(g) /\ Owned(g)
  /\ g # "worker" /\ HoldsIn(g, go'[g]) => (Grounded(current) \/ Stale)'
  /\ g \in Request => Arrive(g) \/ Serving(g)

LEMMA NextSteps ==
  ASSUME BInv, Next
  PROVE  (\E g \in Goroutine : Steps(g)) \/ World
  <1>0. Control
    BY DEF BInv
  <1>1. ASSUME NEW r \in Request, Arrive(r) \/ Serving(r)
        PROVE  r \in Goroutine /\ Steps(r)
    BY <1>0, <1>1, Names, RequestCopied, ServingTurns DEF Steps, HoldsIn
  <1>2. ASSUME Main
        PROVE  Steps("main")
    BY <1>0, <1>2, Names, MainCopied, MainTurns DEF Steps, HoldsIn
  <1>3. ASSUME Timer \/ IdleFires
        PROVE  Steps("timer")
    BY <1>0, <1>3, Names, TimerCopied, TimerTurns DEF Steps, HoldsIn
  <1>4. ASSUME Worker
        PROVE  Steps("worker")
    BY <1>0, <1>4, Names, WorkerCopied, WorkerTurns DEF Steps, Owned
  <1> QED BY <1>1, <1>2, <1>3, <1>4, Names, Actors

LEMMA StaysStale ==
  ASSUME BInv, Next, Stale, go'["main"] = go["main"]
  PROVE  Stale'
  <1>1. Derived /\ ~Note("main")
    BY NextDerived DEF BInv, Stale, Note
  <1> QED BY <1>1, StaysUnstopped DEF Stale, NoStop

LEMMA CopiesInductive ==
  ASSUME BInv, Next
  PROVE  Copies' /\ Grows
  <1>0. Control /\ Copies
    BY DEF BInv
  <1>1. ASSUME NEW g \in Goroutine, Steps(g)
        PROVE  Copies' /\ Grows
    <2>1. Copied /\ Turns(g) /\ Owned(g) /\ Only(g)
      BY <1>1 DEF Steps, Turns
    <2>2. ASSUME NEW h \in Goroutine \ {"worker"}, HoldsIn(h, go'[h])
          PROVE  (Grounded(current) \/ Stale)'
      <3>1. CASE h = g
        BY <1>1, <2>2, <3>1 DEF Steps
      <3>2. CASE h # g
        <4>1. go'[h] = go[h] /\ Holds(h)
          BY <2>1, <2>2, <3>2 DEF Only, Holds
        <4>2. mu = h /\ (Grounded(current) \/ Stale)
          BY <1>0, <4>1, GoroutineOf DEF Copies
        <4>3. UNCHANGED current
          BY <2>1, <3>2, <4>2, Names DEF Owned
        <4>4. CASE Grounded(current)
          BY <2>1, <4>3, <4>4 DEF Copied, Grows, Grounded
        <4>5. CASE Stale
          <5>1. h = "main"
            BY <1>0, <4>2, <4>5, Names, GoroutineOf DEF Stale, Holds, HoldsIn, Busy
          <5> QED BY <4>1, <4>5, <5>1, StaysStale
        <4> QED BY <4>2, <4>4, <4>5
      <3> QED BY <3>1, <3>2
    <2> QED BY <2>1, <2>2 DEF Copies, Copied, Holds
  <1>2. CASE World
    <2>1. Copied /\ UNCHANGED <<go, current>>
      BY <1>2, WorldCopied
    <2>2. ASSUME NEW h \in Goroutine \ {"worker"}, HoldsIn(h, go'[h])
          PROVE  (Grounded(current) \/ Stale)'
      <3>1. Grounded(current) \/ Stale
        BY <1>0, <2>1, <2>2 DEF Copies, Holds
      <3>2. CASE Grounded(current)
        BY <2>1, <3>2 DEF Copied, Grows, Grounded
      <3> QED BY <2>1, <3>1, <3>2, StaysStale
    <2> QED BY <2>1, <2>2 DEF Copies, Copied, Holds
  <1> QED BY <1>1, <1>2, NextSteps

LEMMA AchievedInductive ==
  ASSUME BInv, Next
  PROVE  Achieved'
  <1>0. /\ Control /\ Achieved
        /\ Releasing(disk.events) \subseteq Releasing(disk'.events)
        /\ Releasing(remote) \subseteq Releasing(remote')
    BY CopiesInductive DEF BInv, Grows
  <1> SUFFICES ASSUME NEW r \in Request
               PROVE  Achieves(r, go[r])'
    BY DEF Achieved
  <1>1. CASE Arrive(r) \/ Serving(r)
    BY <1>1, RequestAchieves
  <1>2. CASE go'[r] = go[r] /\ ~(Arrive(r) \/ Serving(r))
    <2>1. go[r].phase \in Busy => mu = r
      BY <1>0, RequestOf
    <2>2. go[r].phase \in Busy => UNCHANGED current
      <3>1. ASSUME NEW g \in Goroutine, Steps(g), go[r].phase \in Busy
            PROVE  UNCHANGED current
        BY <1>2, <2>1, <3>1, Names DEF Steps, Owned
      <3> QED BY <3>1, NextSteps, WorldCopied
    <2>3. Achieves(r, go[r])
      BY <1>0 DEF Achieved
    <2> QED BY <1>0, <1>2, <2>2, <2>3 DEF Achieves, Busy
  <1> QED BY <1>0, <1>1, <1>2, OwnMoves

LEMMA ToldInductive ==
  ASSUME BInv, Next
  PROVE  Told'
  <1> SUFFICES ASSUME "load" \notin Faults
               PROVE  AllowedIsLocal'
    BY DEF Told
  <1>1. AllowedIsLocal /\ ~Stale /\ Grows
    BY CopiesInductive DEF BInv, Told, Stale
  <1>2. Releasing(remote') \subseteq Releasing(remote) \cup Releasing(disk.events)
    <2>1. ASSUME NEW g \in Goroutine, Steps(g)
          PROVE  Releasing(remote') \subseteq Releasing(remote) \cup Releasing(disk.events)
      BY <1>1, <2>1 DEF Steps, Honest
    <2>2. World => UNCHANGED remote
      BY WorldCopied
    <2> QED BY <2>1, <2>2, NextSteps
  <1> QED BY <1>1, <1>2 DEF AllowedIsLocal, Grows

LEMMA InitBInv ==
  ASSUME Init
  PROVE  BInv
  <1>1. Control /\ Ledgers
    BY InitControl
  <1>2. disk \in StateFile /\ disk.stamp = 0 /\ disk.events = {}
    BY VaultType DEF Init
  <1>3. current = disk /\ latest = disk /\ Releasing(remote) = {}
    BY DEF Init, Releasing
  <1>4. Copies
    BY <1>2, <1>3 DEF Copies, Descends, Grounded
  <1>5. \A r \in Request : go[r].phase = "off"
    <2>1. ASSUME NEW r \in Request
          PROVE  go[r] = At("off")
      BY Names DEF Init
    <2>2. At("off").phase = "off"
      BY AtType DEF Phase
    <2> QED BY <2>1, <2>2
  <1>6. Achieved
    BY <1>5 DEF Achieved, Achieves
  <1>7. Told
    BY <1>3 DEF Told, AllowedIsLocal
  <1> QED BY <1>1, <1>4, <1>6, <1>7 DEF BInv

\* All of it together: the goroutines, the ledgers, the loaded copies, and what
\* each request has achieved where it is.
THEOREM BrokerInvariance == Spec => []BInv
  <1>1. BInv /\ [Next]_vars => BInv'
    <2>1. ASSUME BInv, Next
          PROVE  BInv'
      <3>1. Control' /\ Ledgers'
        BY <2>1, ControlInductive, LedgersInductive DEF BInv
      <3> QED BY <2>1, <3>1, CopiesInductive, AchievedInductive, ToldInductive DEF BInv
    <2>2. ASSUME BInv, UNCHANGED vars
          PROVE  BInv'
      <3>1. Control' /\ Ledgers'
        BY <2>2, LedgersStutter DEF BInv
      <3>2. Copies' /\ Achieved' /\ Told'
        BY <2>2 DEF vars, BInv, Copies, Descends, Grounded, Holds, Stale, Files, Achieved, Achieves,
                    Told, AllowedIsLocal
      <3> QED BY <3>1, <3>2 DEF BInv
    <2> QED BY <2>1, <2>2
  <1> QED BY <1>1, InitBInv, PTL DEF Spec

-----------------------------------------------------------------------------
(* What follows.                                                           *)

\* The ledger has no release after the broker's stop, whatever fails and
\* however many requests were still being handled.
THEOREM NothingIsReleasedLater == Spec => NothingAfterStop
  <1>1. ASSUME BInv, Next, NEW e \in disk.events, e.result = "stopped"
        PROVE  Releasing(disk'.events) = Releasing(disk.events)
    <2>1. ~Stale /\ Quiet
      BY <1>1 DEF Stale, Files, BInv, Ledgers, Sound
    <2>2. ASSUME NEW g \in Goroutine, Steps(g)
          PROVE  Releasing(disk'.events) = Releasing(disk.events)
      <3>1. g \in Request => go[g].phase # "gating"
        BY <2>1 DEF Quiet
      <3> QED BY <2>1, <2>2, <3>1 DEF Steps, Honest
    <2>3. World => Releasing(disk'.events) = Releasing(disk.events)
      BY <1>1, WorldCopied
    <2> QED BY <1>1, <2>2, <2>3, NextSteps
  <1>2. BInv /\ [Next]_vars =>
          [(\E e \in disk.events : e.result = "stopped") =>
             Releasing(disk'.events) = Releasing(disk.events)]_vars
    BY <1>1
  <1> QED BY <1>2, BrokerInvariance, PTL DEF Spec, NothingAfterStop

\* Whatever fails, the local ledger takes no event for synced that the control
\* plane does not have.
THEOREM AckedAreRecorded == Spec => []AckedIsRecorded
  <1>1. Control /\ Ledgers => AckedIsRecorded
    BY DEF Ledgers, Files, Sound, AckedIsRecorded
  <1> QED BY <1>1, LedgersInvariance, PTL

\* If the state file can be loaded whenever it is wanted, the control plane
\* hears of no release that the local ledger does not have.
THEOREM BrokerLedgersAgree ==
  ASSUME "load" \notin Faults
  PROVE  Spec => []LedgersAgree
  <1>1. BInv => LedgersAgree
    BY DEF BInv, Control, Ledgers, Files, Sound, Told, AckedIsRecorded, LedgersAgree
  <1> QED BY <1>1, BrokerInvariance, PTL

-----------------------------------------------------------------------------
(* The promise of the gate.                                                *)

\* A step changes the file, what was told or what was answered.
LEMMA OneAtATime ==
  ASSUME Control, Next
  PROVE  /\ UNCHANGED disk \/ UNCHANGED remote
         /\ UNCHANGED answered \/ \E r \in Request : Answer(r)
  <1>1. ASSUME NEW r \in Request, Arrive(r) \/ Serving(r)
        PROVE  /\ UNCHANGED disk \/ UNCHANGED remote
               /\ UNCHANGED answered \/ Answer(r)
    <2>1. UNCHANGED disk \/ UNCHANGED remote
      BY <1>1, RequestData DEF Note, Gate, Mark, Block, Sync, Keep
    <2>2. UNCHANGED answered \/ Answer(r)
      <3>1. CASE Arrive(r) \/ Refuse(r) \/ Claim(r) \/ Malformed(r) \/ Call(r) \/ Enter(r)
        BY <3>1 DEF Arrive, Refuse, Claim, Malformed, Call, Enter
      <3>2. CASE EnterFails(r) \/ CheckFails(r) \/ CheckPasses(r) \/ Gate(r) \/ Post(r)
        BY <3>2 DEF EnterFails, CheckFails, CheckPasses, Gate, Post
      <3>3. CASE PostFails(r) \/ Mark(r) \/ Block(r) \/ Read(r) \/ TooLate(r)
        BY <3>3 DEF PostFails, Mark, Block, Read, TooLate
      <3>4. CASE Shared(r) \/ Flush(r) \/ Ending(r)
        BY <3>4 DEF Shared, Begin, Note, NoteFails, Flush, Sync, Keep, Ending, Stop, Close
      <3> QED BY <1>1, <3>1, <3>2, <3>3, <3>4 DEF Serving, Handle
    <2> QED BY <2>1, <2>2
  <1>2. ASSUME Main \/ Timer \/ IdleFires
        PROVE  (UNCHANGED disk \/ UNCHANGED remote) /\ UNCHANGED answered
    <2>1. CASE Shared("main") \/ Flush("main") \/ Return \/ Exit
      BY <2>1 DEF Shared, Begin, Note, NoteFails, Flush, Sync, Keep, Return, Exit
    <2>2. CASE SeesEnd \/ Shared("timer") \/ Ending("timer") \/ IdleFires
      BY <2>2 DEF SeesEnd, Shared, Begin, Note, NoteFails, Ending, Stop, Close, IdleFires
    <2> QED BY <1>2, <2>1, <2>2 DEF Main, Timer
  <1>3. ASSUME Worker \/ World
        PROVE  (UNCHANGED disk \/ UNCHANGED remote) /\ UNCHANGED answered
    <2>1. CASE Worker
      BY <2>1 DEF Worker, Take, WorkerEnds, Look, Refresh, Send, Reload, Settle
    <2>2. CASE World
      BY <2>2 DEF World, Signal, MaxRuntime, Expire, Change, Forget
    <2> QED BY <1>3, <2>1, <2>2
  <1> QED BY <1>1, <1>2, <1>3, Actors

\* What the broker's clients got, as ReleaseGate names it.
Got(A) == {[by |-> a.by, secret |-> "value", strict |-> a.strict] : a \in A}

LEMMA AnswerIsGateStep ==
  ASSUME BInv, NEW r \in Request, Answer(r)
  PROVE  Promise!Release
  <1> DEFINE x == [by |-> r, secret |-> "value", strict |-> go[r].strict]
  <1>1. /\ UNCHANGED <<disk, remote>> /\ go[r].phase = "answering"
        /\ answered' = answered \cup {[by |-> r, strict |-> go[r].strict]}
    BY DEF Answer
  <1>2. Got(answered') = Got(answered) \cup {x}
    <2> DEFINE z == [by |-> r, strict |-> go[r].strict]
    <2>1. z.by = r /\ z.strict = go[r].strict /\ answered' = answered \cup {z}
      BY <1>1
    <2> HIDE DEF z
    <2> QED BY <2>1 DEF Got
  <1>3. /\ Entry(r) \in Releasing(disk.events)
        /\ go[r].strict => Entry(r) \in Releasing(remote)
    BY <1>1 DEF BInv, Achieved, Achieves
  <1>4. Promise!Entry(x) = Entry(r) /\ x.strict = go[r].strict
    BY DEF Promise!Entry, Entry
  <1> HIDE DEF x
  <1>5. \A y \in Got(answered') \ Got(answered) : y = x
    BY <1>2
  <1>6. /\ Got(answered) \subseteq Got(answered')
        /\ \A y \in Got(answered') \ Got(answered) :
             /\ Promise!Entry(y) \in Releasing(disk.events)
             /\ y.strict => Promise!Entry(y) \in Releasing(remote)
    BY <1>2, <1>3, <1>4, <1>5
  <1> QED BY <1>1, <1>6 DEF Promise!Release, Got

LEMMA NextIsGateStep ==
  ASSUME "load" \notin Faults, BInv, BInv', Next
  PROVE  [Promise!Next]_(Promise!vars)
  <1>0. Control /\ Grows /\ ~Stale /\ Releasing(remote') \subseteq Releasing(disk'.events)
    BY CopiesInductive DEF BInv, Stale, Told, AllowedIsLocal
  <1>1. CASE World
    <2>1. UNCHANGED <<remote, answered>> /\ Releasing(disk'.events) = Releasing(disk.events)
      BY <1>1, WorldCopied
    <2>2. Promise!SetPolicy
      BY <2>1 DEF Promise!SetPolicy
    <2> QED BY <2>2 DEF Promise!Next
  <1>2. CASE \E r \in Request : Answer(r)
    <2>1. Promise!Release
      BY <1>2, AnswerIsGateStep
    <2> QED BY <2>1 DEF Promise!Next
  <1>3. ASSUME NEW g \in Goroutine, Steps(g), UNCHANGED answered
        PROVE  [Promise!Next]_(Promise!vars)
    <2>1. Honest(g)
      BY <1>3 DEF Steps
    <2>2. CASE UNCHANGED disk
      <3>1. Promise!Tell
        BY <1>0, <1>3, <2>2 DEF Promise!Tell, Grows
      <3> QED BY <3>1 DEF Promise!Next
    <2>3. CASE UNCHANGED remote /\ disk' # disk
      <3>1. disk'.granted = disk.granted
        BY <1>0, <2>1 DEF Honest
      <3>2. CASE Releasing(disk'.events) = Releasing(disk.events)
        BY <1>3, <2>3, <3>1, <3>2 DEF Promise!vars
      <3>3. CASE /\ g \in Request /\ disk.granted
                 /\ Releasing(disk'.events) = Releasing(disk.events) \cup {Entry(g)}
        <4>1. {[by |-> g, secret |-> s] : s \in {"value"}} = {Entry(g)}
          BY DEF Entry
        <4>2. Promise!Append(g, {"value"})
          BY <1>3, <2>3, <3>1, <3>3, <4>1 DEF Promise!Append
        <4> QED BY <3>3, <4>2 DEF Promise!Next
      <3> QED BY <1>0, <2>1, <3>2, <3>3 DEF Honest
    <2> QED BY <1>0, <2>2, <2>3, OneAtATime
  <1> QED BY <1>0, <1>1, <1>2, <1>3, NextSteps, OneAtATime

\* If the state file can be loaded whenever it is wanted, every behaviour of
\* the broker, its clients and the other processes is one of ReleaseGate: no
\* value is answered but under an event that the policy in force allowed, that
\* the ledger holds and, in a strict envelope, the control plane too.
THEOREM BrokerKeepsPromise ==
  ASSUME "load" \notin Faults
  PROVE  Spec => ImplementsReleaseGate
  <1>1. Init => Promise!Init
    <2> SUFFICES ASSUME Init
                 PROVE  Promise!Init
      OBVIOUS
    <2>1. disk.granted = TRUE /\ disk.events = {}
      BY VaultType DEF Init
    <2> QED BY <2>1 DEF Init, Promise!Init, Releasing
  <1>2. BInv /\ BInv' /\ [Next]_vars => [Promise!Next]_(Promise!vars)
    <2>1. UNCHANGED vars => UNCHANGED Promise!vars
      BY DEF vars, Promise!vars
    <2> QED BY <2>1, NextIsGateStep
  <1> QED BY <1>1, <1>2, BrokerInvariance, PTL DEF Spec, ImplementsReleaseGate, Promise!Spec

=============================================================================
