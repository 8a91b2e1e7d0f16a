------------------------------- MODULE Broker -------------------------------
(***************************************************************************)
(* The local broker: one process whose goroutines serve a secret to        *)
(* clients.                                                                *)
(*                                                                         *)
(* The main goroutine starts and stops the server; one goroutine per       *)
(* request runs the HTTP handler; one waits for the idle timer or the end  *)
(* of the context; one, the worker, uploads audit events when asked to.    *)
(* A mutex guards everything they do to the vault, except that the worker  *)
(* talks to the control plane without it.  Every one of them loads the     *)
(* state file anew each time it has the mutex.  Other processes change the *)
(* file at any time, and then a save between a load and the next is        *)
(* refused; so it is when an audit of the broker meets one of theirs.      *)
(*                                                                         *)
(* Requests ask for one secret.  Timers fire whenever they may.            *)
(***************************************************************************)
EXTENDS Naturals, FiniteSets

CONSTANTS
  Request,     \* the requests clients send
  Once,        \* the broker was started with --once
  MaxChanges,  \* bound: changes of the vault by other processes
  Ends,        \* what may end it: "idle", "signal", "expiry", "runtime"
  Faults       \* what may go wrong: "network", "write", "load", "accept", "unauthorized"

ASSUME ConstantsAssumption ==
  /\ Once \in BOOLEAN
  /\ MaxChanges \in Nat
  /\ {"main", "timer", "worker", "none"} \cap Request = {}

VARIABLES
  disk,     \* the state file
  key,      \* the keystore has the secret's data key
  remote,   \* events the control plane has recorded
  mu,       \* the goroutine that holds the mutex
  go,       \* the goroutines
  current,  \* runtimeStore.current: the state loaded last under the mutex
  latest,   \* the state the worker loaded last
  wanted,   \* an upload is asked for: a channel of capacity one
  claimed,  \* the one request of a --once broker has come
  context,  \* how far the server's life has come
  changes   \* changes made by other processes so far

\* History: the requests that were answered with a value.
VARIABLE answered

vars == <<disk, key, remote, mu, go, current, latest, wanted, claimed, context, changes, answered>>

-----------------------------------------------------------------------------
(* State.                                                                  *)

Goroutine == Request \cup {"main", "timer", "worker"}

\* An event is named by what it is about; a request appends at most one of
\* each result.
Event ==
  [of: Request \cup {"broker"}, result: {"started", "stopped", "idle", "allowed", "denied", "failed"},
   acked: BOOLEAN]

\* Mutant: a new event counts as synced.
MadeMarked(of, result) == [of |-> of, result |-> result, acked |-> TRUE]

Made(of, result) == [of |-> of, result |-> result, acked |-> FALSE]

Upload(e) == [e EXCEPT !.acked = FALSE]

StateFile ==
  [stamp:   Nat,            \* stands for the bytes
   events:  SUBSET Event,
   granted: BOOLEAN,        \* CheckPolicy lets this runtime read the secret
   strict:  BOOLEAN,        \* its envelope is strict
   kept:    BOOLEAN,        \* it exists
   linked:  BOOLEAN]        \* there is a control-plane session

\* signalled: the process was told to end; cancelled: the server's context is
\* over; closed: its listener is; expired: the token is.
Context == [signalled: BOOLEAN, cancelled: BOOLEAN, closed: BOOLEAN, expired: BOOLEAN]

Phase ==
  {"off", "waiting", "noting", "stopping", "closing", "done",
   "arrived", "claimed", "calling", "checking", "gating", "posting", "marking",
   "blocking", "syncing", "keeping", "reading", "answering", "serving"}

\* result: the event it is about to note, and next: where it goes then;
\* eligible: its end stops a --once broker; strict: the value it has was;
\* acks: what the worker was told.
Memory ==
  [phase: Phase, result: {"none", "started", "stopped", "idle", "denied", "failed"}, next: Phase,
   eligible: BOOLEAN, strict: BOOLEAN, acks: SUBSET Event]

TypeOK ==
  /\ disk \in StateFile
  /\ key \in BOOLEAN
  /\ remote \subseteq Event /\ \A e \in remote : ~e.acked
  /\ mu \in Goroutine \cup {"none"}
  /\ go \in [Goroutine -> Memory]
  /\ current \in StateFile
  /\ latest \in StateFile
  /\ wanted \in BOOLEAN
  /\ claimed \in BOOLEAN
  /\ context \in Context
  /\ changes \in 0 .. MaxChanges
  /\ answered \subseteq [by: Request, strict: BOOLEAN]

Vault(strict) ==
  [stamp |-> 0, events |-> {}, granted |-> TRUE, strict |-> strict, kept |-> TRUE, linked |-> TRUE]

At(phase) ==
  [phase |-> phase, result |-> "none", next |-> "done", eligible |-> FALSE, strict |-> FALSE,
   acks |-> {}]

\* The broker is ready and about to say so.
Init ==
  /\ disk \in {Vault(FALSE), Vault(TRUE)}
  /\ key = TRUE
  /\ remote = {}
  /\ mu = "none"
  /\ go = [g \in Goroutine |->
             IF g = "main" THEN [At("waiting") EXCEPT !.result = "started", !.next = "serving"]
             ELSE IF g \in Request THEN At("off") ELSE At("waiting")]
  /\ current = disk
  /\ latest = disk
  /\ wanted = FALSE
  /\ claimed = FALSE
  /\ context = [signalled |-> FALSE, cancelled |-> FALSE, closed |-> FALSE, expired |-> FALSE]
  /\ changes = 0
  /\ answered = {}


-----------------------------------------------------------------------------
(* What the goroutines share.                                              *)

\* The process ends with its main goroutine, whatever the others are doing.
Running == go["main"].phase # "done"

\* The context of a request is over.
Over == context.cancelled \/ context.expired

Goto(g, phase) == go' = [go EXCEPT ![g].phase = phase]

\* A goroutine is done with what it was at; the end of the request that a
\* --once broker took stops it.
After(g) ==
  [At(IF g \in Request /\ Once /\ go[g].eligible THEN "stopping" ELSE go[g].next)
     EXCEPT !.eligible = go[g].eligible]

End(g) == go' = [go EXCEPT ![g] = After(g)]

\* FileStore.Save of f with these events.
Saves(f, events) ==
  /\ disk.stamp = f.stamp
  /\ disk' = [f EXCEPT !.stamp = @ + 1, !.events = events]

SaveFails(f) == (disk.stamp # f.stamp \/ "write" \in Faults) /\ UNCHANGED disk

\* A save of the current store, and what that holds afterwards.
SaveCurrent(events) == Saves(current, events) /\ current' = disk'
SaveCurrentFails(events) == SaveFails(current) /\ current' = [current EXCEPT !.events = events]

Pending(f) == {Upload(e) : e \in {d \in f.events : f.linked /\ ~d.acked}}

\* Mutant: every event in the state counts as acknowledged.
MarkedAll(E, acks) == {[e EXCEPT !.acked = TRUE] : e \in E}

Marked(E, acks) == {[e EXCEPT !.acked = @ \/ Upload(e) \in acks] : e \in E}

\* Best-effort upload of U, which is one batch as a broker has one workspace:
\* whether the control plane recorded it and what it acknowledged.
Uploaded(U, acks) ==
  \E sent \in {U} \cup (IF "network" \in Faults THEN {{}} ELSE {}) :
    /\ acks \subseteq sent
    /\ "network" \notin Faults => acks = sent
    /\ remote' = remote \cup sent

-----------------------------------------------------------------------------
(* Events of the broker itself: brokerRuntimeStore.audit.                  *)

About(g) == IF g \in Request THEN g ELSE "broker"

ToNote(g) == go[g].phase = "waiting" /\ go[g].result # "none"

\* Mutant: the event is added to what was loaded before.
BeginStale(g) ==
  /\ Running
  /\ ToNote(g) /\ mu = "none"
  /\ mu' = g
  /\ Goto(g, "noting")
  /\ UNCHANGED <<disk, key, remote, current, latest, wanted, claimed, context, changes, answered>>

\* The goroutine takes the mutex and loads the state.
Begin(g) ==
  /\ Running
  /\ ToNote(g) /\ mu = "none"
  /\ mu' = g
  /\ Goto(g, "noting")
  /\ current' = disk
  /\ UNCHANGED <<disk, key, remote, latest, wanted, claimed, context, changes, answered>>

\* An upload is asked for and the mutex let go; main goes on to flush instead.
Noted(g) ==
  LET stopped == go[g].result = "stopped" IN
  /\ mu' = IF stopped THEN g ELSE "none"
  /\ wanted' = (wanted \/ ~stopped)
  /\ End(g)

\* The event is added and saved if possible.
Note(g) ==
  LET events == current.events \cup {Made(About(g), go[g].result)} IN
  /\ Running
  /\ go[g].phase = "noting"
  /\ SaveCurrent(events) \/ SaveCurrentFails(events)
  /\ Noted(g)
  /\ UNCHANGED <<key, remote, latest, claimed, context, changes, answered>>

\* The state cannot be loaded: the event is lost.
NoteFails(g) ==
  /\ Running
  /\ "load" \in Faults
  /\ ToNote(g) /\ mu = "none"
  /\ Noted(g)
  /\ UNCHANGED <<disk, key, remote, current, latest, claimed, context, changes, answered>>

-----------------------------------------------------------------------------
(* A request: the HTTP handler of broker.Run.                              *)

\* The handler notes a denial, once it has the mutex.
Deny(r) == go' = [go EXCEPT ![r].phase = "waiting", ![r].result = "denied"]

Arrive(r) ==
  /\ go["main"].phase = "serving" /\ ~context.closed
  /\ go[r].phase = "off"
  /\ Goto(r, "arrived")
  /\ UNCHANGED <<disk, key, remote, mu, current, latest, wanted, claimed, context, changes, answered>>

\* It has the wrong method or token, or comes too late, or comes second.
Refuse(r) ==
  /\ Running
  /\ go[r].phase = "arrived"
  /\ Deny(r)
  /\ UNCHANGED <<disk, key, remote, mu, current, latest, wanted, claimed, context, changes, answered>>

\* Mutant: whether another request was first is not looked at again.
ClaimAny(r) ==
  /\ Running
  /\ go[r].phase = "arrived"
  /\ ~context.expired
  /\ claimed' = Once
  /\ go' = [go EXCEPT ![r].phase = "claimed", ![r].eligible = TRUE]
  /\ UNCHANGED <<disk, key, remote, mu, current, latest, wanted, context, changes, answered>>

\* It is authorized and, if only one may be, the first.
Claim(r) ==
  /\ Running
  /\ go[r].phase = "arrived"
  /\ ~context.expired
  /\ ~claimed
  /\ claimed' = Once
  /\ go' = [go EXCEPT ![r].phase = "claimed", ![r].eligible = TRUE]
  /\ UNCHANGED <<disk, key, remote, mu, current, latest, wanted, context, changes, answered>>

\* Its body is bad or came too late.
Malformed(r) ==
  /\ Running
  /\ go[r].phase = "claimed"
  /\ Deny(r)
  /\ UNCHANGED <<disk, key, remote, mu, current, latest, wanted, claimed, context, changes, answered>>

Call(r) ==
  /\ Running
  /\ go[r].phase = "claimed"
  /\ ~context.expired
  /\ Goto(r, "calling")
  /\ UNCHANGED <<disk, key, remote, mu, current, latest, wanted, claimed, context, changes, answered>>

\* Mutant: a request that had to wait for the mutex is served all the same.
EnterLate(r) ==
  /\ Running
  /\ go[r].phase = "calling" /\ mu = "none"
  /\ mu' = r
  /\ current' = disk
  /\ Goto(r, "checking")
  /\ UNCHANGED <<disk, key, remote, latest, wanted, claimed, context, changes, answered>>

\* handleBrokerValueRequest begins: the handler has the mutex, the context is
\* not over, and the state loads.
Enter(r) ==
  /\ Running
  /\ go[r].phase = "calling" /\ mu = "none"
  /\ ~Over
  /\ mu' = r
  /\ current' = disk
  /\ Goto(r, "checking")
  /\ UNCHANGED <<disk, key, remote, latest, wanted, claimed, context, changes, answered>>

\* Mutant: the early return forgets the mutex.
EnterFailsLocked(r) ==
  /\ Running
  /\ go[r].phase = "calling" /\ mu = "none"
  /\ Over \/ "load" \in Faults
  /\ mu' = r
  /\ End(r)
  /\ UNCHANGED <<disk, key, remote, current, latest, wanted, claimed, context, changes, answered>>

EnterFails(r) ==
  /\ Running
  /\ go[r].phase = "calling" /\ mu = "none"
  /\ Over \/ "load" \in Faults
  /\ End(r)
  /\ UNCHANGED <<disk, key, remote, mu, current, latest, wanted, claimed, context, changes, answered>>

\* With the mutex held, the state is loaded again, if it can be, and an event
\* noted.
NoteNow(r, result) ==
  \/ /\ current' = disk
     /\ go' = [go EXCEPT ![r].phase = "noting", ![r].result = result]
     /\ UNCHANGED <<mu, wanted>>
  \/ /\ "load" \in Faults
     /\ mu' = "none"
     /\ wanted' = TRUE
     /\ End(r)
     /\ UNCHANGED current

\* The request is not for this broker or has no path, the policy denies it,
\* or the secret is not there or cannot be read.
CheckFails(r) ==
  /\ Running
  /\ go[r].phase = "checking"
  /\ \/ NoteNow(r, "denied")
     \/ current.granted /\ ~(current.kept /\ key) /\ NoteNow(r, "failed")
  /\ UNCHANGED <<disk, key, remote, latest, claimed, context, changes, answered>>

CheckPasses(r) ==
  /\ Running
  /\ go[r].phase = "checking"
  /\ current.granted /\ current.kept /\ key
  /\ Goto(r, "gating")
  /\ UNCHANGED <<disk, key, remote, mu, current, latest, wanted, claimed, context, changes, answered>>

\* Mutant: the event is saved with its mark only.
GateUnsaved(r) ==
  /\ Running
  /\ go[r].phase = "gating"
  /\ current' = [current EXCEPT !.events = @ \cup {Made(r, "allowed")}]
  /\ Goto(r, IF current.strict THEN "posting" ELSE "syncing")
  /\ UNCHANGED <<disk, key, remote, mu, latest, wanted, claimed, context, changes, answered>>

\* gateSecretRelease: the event is appended and saved, or the request fails;
\* the mutex is kept until the value is there.
Gate(r) ==
  LET events == current.events \cup {Made(r, "allowed")} IN
  /\ Running
  /\ go[r].phase = "gating"
  /\ \/ /\ SaveCurrent(events)
        /\ Goto(r, IF current.strict THEN "posting" ELSE "syncing")
        /\ UNCHANGED mu
     \/ /\ SaveCurrentFails(events)
        /\ mu' = "none"
        /\ End(r)
  /\ UNCHANGED <<key, remote, latest, wanted, claimed, context, changes, answered>>

\* Mutant: a strict event that was not acknowledged does not block.
PostFailsGoesOn(r) ==
  /\ Running
  /\ go[r].phase = "posting"
  /\ ~current.linked \/ "network" \in Faults
  /\ Goto(r, "marking")
  /\ UNCHANGED <<disk, key, remote, mu, current, latest, wanted, claimed, context, changes, answered>>

\* A strict event is recorded and acknowledged.
Post(r) ==
  /\ Running
  /\ go[r].phase = "posting"
  /\ current.linked
  /\ remote' = remote \cup {Made(r, "allowed")}
  /\ Goto(r, "marking")
  /\ UNCHANGED <<disk, key, mu, current, latest, wanted, claimed, context, changes, answered>>

\* There is no session, or the request or its answer is lost or late.
PostFails(r) ==
  /\ Running
  /\ go[r].phase = "posting"
  /\ \/ ~current.linked /\ UNCHANGED remote
     \/ /\ current.linked /\ "network" \in Faults
        /\ remote' \in {remote, remote \cup {Made(r, "allowed")}}
  /\ Goto(r, "blocking")
  /\ UNCHANGED <<disk, key, mu, current, latest, wanted, claimed, context, changes, answered>>

\* The mark is saved; a save that fails counts as a missing acknowledgement.
Mark(r) ==
  LET events == Marked(current.events, {Made(r, "allowed")}) IN
  /\ Running
  /\ go[r].phase = "marking"
  /\ \/ SaveCurrent(events) /\ Goto(r, "reading")
     \/ SaveCurrentFails(events) /\ Goto(r, "blocking")
  /\ UNCHANGED <<key, remote, mu, latest, wanted, claimed, context, changes, answered>>

\* A "failed" event is saved if possible, and the request fails.
Block(r) ==
  LET events == current.events \cup {Made(r, "failed")} IN
  /\ Running
  /\ go[r].phase = "blocking"
  /\ SaveCurrent(events) \/ SaveCurrentFails(events)
  /\ mu' = "none"
  /\ End(r)
  /\ UNCHANGED <<key, remote, latest, wanted, claimed, context, changes, answered>>

\* After an upload under the mutex a request reads the value; main lets the
\* mutex go and tells the worker to end.
Synced(g) ==
  IF g = "main"
    THEN /\ Goto(g, "closing")
         /\ mu' = "none"
         /\ context' = [context EXCEPT !.signalled = TRUE]
    ELSE Goto(g, "reading") /\ UNCHANGED <<mu, context>>

\* syncRuntimeAuditBestEffort, of the current store.
Sync(g) ==
  LET U == Pending(current) IN
  /\ Running
  /\ go[g].phase = "syncing"
  /\ \E acks \in SUBSET U :
       /\ Uploaded(U, acks)
       /\ \/ acks = {} /\ Synced(g) /\ UNCHANGED current
          \/ /\ acks # {}
             /\ Goto(g, "keeping")
             /\ current' = [current EXCEPT !.events = Marked(@, acks)]
             /\ UNCHANGED <<mu, context>>
  /\ UNCHANGED <<disk, key, latest, wanted, claimed, changes, answered>>

\* What was acknowledged is saved if possible.
Keep(g) ==
  /\ Running
  /\ go[g].phase = "keeping"
  /\ SaveCurrent(current.events) \/ SaveCurrentFails(current.events)
  /\ Synced(g)
  /\ UNCHANGED <<key, remote, latest, wanted, claimed, changes, answered>>

\* GetSecret; the key may be gone, or the request's time may be over.
Read(r) ==
  /\ Running
  /\ go[r].phase = "reading"
  /\ \/ ~key /\ NoteNow(r, "failed")
     \/ /\ key /\ Over
        /\ mu' = "none"
        /\ End(r)
        /\ UNCHANGED <<current, wanted>>
     \/ /\ key /\ ~Over
        /\ mu' = "none"
        /\ wanted' = TRUE
        /\ go' = [go EXCEPT ![r].phase = "answering", ![r].strict = current.strict]
        /\ UNCHANGED current
  /\ UNCHANGED <<disk, key, remote, latest, claimed, context, changes, answered>>

\* The value is written to the client, unless the token has expired by now.
Answer(r) ==
  /\ Running
  /\ go[r].phase = "answering"
  /\ ~context.expired
  /\ answered' = answered \cup {[by |-> r, strict |-> go[r].strict]}
  /\ End(r)
  /\ UNCHANGED <<disk, key, remote, mu, current, latest, wanted, claimed, context, changes>>

\* It has: the value is not written.
TooLate(r) ==
  /\ Running
  /\ go[r].phase = "answering"
  /\ context.expired
  /\ Deny(r)
  /\ UNCHANGED <<disk, key, remote, mu, current, latest, wanted, claimed, context, changes, answered>>

-----------------------------------------------------------------------------
(* Stopping.                                                               *)

\* The goroutine that waits for the idle timer or the end of the context; when
\* both have come it takes either.
SeesEnd ==
  /\ Running
  /\ go["timer"].phase = "waiting" /\ go["timer"].result = "none"
  /\ context.cancelled
  /\ Goto("timer", "stopping")
  /\ UNCHANGED <<disk, key, remote, mu, current, latest, wanted, claimed, context, changes, answered>>

IdleFires ==
  /\ Running
  /\ "idle" \in Ends
  /\ go["timer"].phase = "waiting" /\ go["timer"].result = "none"
  /\ go' = [go EXCEPT !["timer"].result = "idle", !["timer"].next = "stopping"]
  /\ UNCHANGED <<disk, key, remote, mu, current, latest, wanted, claimed, context, changes, answered>>

\* stop: the context is cancelled, then the listener closed.
Stop(g) ==
  /\ Running
  /\ go[g].phase = "stopping"
  /\ context' = [context EXCEPT !.cancelled = TRUE]
  /\ Goto(g, "closing")
  /\ UNCHANGED <<disk, key, remote, mu, current, latest, wanted, claimed, changes, answered>>

Close(g) ==
  /\ Running
  /\ go[g].phase = "closing"
  /\ context' = [context EXCEPT !.closed = TRUE]
  /\ Goto(g, "done")
  /\ UNCHANGED <<disk, key, remote, mu, current, latest, wanted, claimed, changes, answered>>

\* Serve returns, whether or not requests are still being handled, and main
\* notes the stop and flushes.
Return ==
  /\ go["main"].phase = "serving"
  /\ context.closed \/ "accept" \in Faults
  /\ go' = [go EXCEPT !["main"] = [At("waiting") EXCEPT !.result = "stopped", !.next = "syncing"]]
  /\ context' = [context EXCEPT !.cancelled = TRUE, !.closed = TRUE]
  /\ UNCHANGED <<disk, key, remote, mu, current, latest, wanted, claimed, changes, answered>>

\* The worker has ended and the command with it.
Exit ==
  /\ go["main"].phase = "closing"
  /\ go["worker"].phase = "done"
  /\ Goto("main", "done")
  /\ UNCHANGED <<disk, key, remote, mu, current, latest, wanted, claimed, context, changes, answered>>

-----------------------------------------------------------------------------
(* The worker: startRuntimeAuditSyncWorker.                                *)

\* The worker is done with an upload and forgets what it loaded.
Rest ==
  /\ go' = [go EXCEPT !["worker"] = At("waiting")]
  /\ latest' = Vault(FALSE)

Take ==
  /\ Running
  /\ go["worker"].phase = "waiting" /\ wanted
  /\ wanted' = FALSE
  /\ Goto("worker", "checking")
  /\ UNCHANGED <<disk, key, remote, mu, current, latest, claimed, context, changes, answered>>

WorkerEnds ==
  /\ Running
  /\ go["worker"].phase = "waiting" /\ context.signalled
  /\ Goto("worker", "done")
  /\ UNCHANGED <<disk, key, remote, mu, current, latest, wanted, claimed, context, changes, answered>>

\* It takes the mutex, loads the state, and lets the mutex go.
Look ==
  /\ Running
  /\ go["worker"].phase = "checking" /\ mu = "none"
  /\ \/ /\ Pending(disk) # {}
        /\ latest' = disk
        /\ Goto("worker", "posting")
     \/ /\ Pending(disk) = {} \/ "load" \in Faults
        /\ Rest
  /\ UNCHANGED <<disk, key, remote, mu, current, wanted, claimed, context, changes, answered>>

\* The control plane finds the access token outdated: a new one is stored and
\* the state that was loaded is saved, without the mutex.  A save that fails
\* ends the upload.
Refresh ==
  /\ Running
  /\ go["worker"].phase = "posting"
  /\ "unauthorized" \in Faults
  /\ \/ /\ Saves(latest, latest.events)
        /\ latest' = disk'
        /\ Goto("worker", "syncing")
     \/ SaveFails(latest) /\ Rest
  /\ UNCHANGED <<key, remote, mu, current, wanted, claimed, context, changes, answered>>

\* The upload, without the mutex.
Send ==
  LET U == Pending(latest) IN
  /\ Running
  /\ go["worker"].phase \in {"posting", "syncing"}
  /\ \E acks \in SUBSET U :
       /\ Uploaded(U, acks)
       /\ \/ acks = {} /\ Rest
          \/ /\ acks # {}
             /\ go' = [go EXCEPT !["worker"].phase = "calling", !["worker"].acks = acks]
             /\ UNCHANGED latest
  /\ UNCHANGED <<disk, key, mu, current, wanted, claimed, context, changes, answered>>

\* Mutant: the marks go into the state without the mutex.
ReloadUnlocked ==
  /\ Running
  /\ go["worker"].phase = "calling"
  /\ latest' = disk
  /\ Goto("worker", "marking")
  /\ UNCHANGED <<disk, key, remote, mu, current, wanted, claimed, context, changes, answered>>

\* It takes the mutex again and loads what the state has become.
Reload ==
  /\ Running
  /\ go["worker"].phase = "calling" /\ mu = "none"
  /\ \/ /\ mu' = "worker"
        /\ latest' = disk
        /\ Goto("worker", "marking")
     \/ "load" \in Faults /\ Rest /\ UNCHANGED mu
  /\ UNCHANGED <<disk, key, remote, current, wanted, claimed, context, changes, answered>>

\* The marks are saved if possible.
Settle ==
  /\ Running
  /\ go["worker"].phase = "marking"
  /\ Saves(latest, Marked(latest.events, go["worker"].acks)) \/ SaveFails(latest)
  /\ mu' = "none"
  /\ Rest
  /\ UNCHANGED <<key, remote, current, wanted, claimed, context, changes, answered>>

-----------------------------------------------------------------------------
(* The rest of the world.                                                  *)

Signal ==
  /\ Running
  /\ "signal" \in Ends
  /\ ~context.signalled
  /\ context' = [context EXCEPT !.signalled = TRUE, !.cancelled = TRUE]
  /\ UNCHANGED <<disk, key, remote, mu, go, current, latest, wanted, claimed, changes, answered>>

MaxRuntime ==
  /\ Running
  /\ "runtime" \in Ends
  /\ ~context.cancelled
  /\ context' = [context EXCEPT !.cancelled = TRUE]
  /\ UNCHANGED <<disk, key, remote, mu, go, current, latest, wanted, claimed, changes, answered>>

Expire ==
  /\ Running
  /\ "expiry" \in Ends
  /\ ~context.expired
  /\ context' = [context EXCEPT !.expired = TRUE]
  /\ UNCHANGED <<disk, key, remote, mu, go, current, latest, wanted, claimed, changes, answered>>

\* Another process changes the policy, the mode, the secret or the session,
\* or only adds to the ledger.
Change ==
  /\ Running
  /\ changes < MaxChanges
  /\ changes' = changes + 1
  /\ \E f \in {disk, [disk EXCEPT !.granted = ~@], [disk EXCEPT !.strict = ~@],
               [disk EXCEPT !.kept = FALSE], [disk EXCEPT !.linked = ~@]} :
       disk' = [f EXCEPT !.stamp = disk.stamp + 1]
  /\ UNCHANGED <<key, remote, mu, go, current, latest, wanted, claimed, context, answered>>

\* A removed secret's key goes after the save; a revoked device's before it.
Forget ==
  /\ Running
  /\ key /\ changes < MaxChanges
  /\ changes' = changes + 1
  /\ key' = FALSE
  /\ UNCHANGED <<disk, remote, mu, go, current, latest, wanted, claimed, context, answered>>

-----------------------------------------------------------------------------
Handle(r) ==
  \/ Refuse(r)
  \/ Claim(r)
  \/ Malformed(r)
  \/ Call(r)
  \/ Enter(r)
  \/ EnterFails(r)
  \/ CheckFails(r)
  \/ CheckPasses(r)
  \/ Gate(r)
  \/ Post(r)
  \/ PostFails(r)
  \/ Mark(r)
  \/ Block(r)
  \/ Read(r)
  \/ Answer(r)
  \/ TooLate(r)

\* What requests and main have in common, or requests, main and the timer.
Shared(g) ==
  \/ Begin(g)
  \/ Note(g)
  \/ NoteFails(g)

Flush(g) == Sync(g) \/ Keep(g)

Ending(g) == Stop(g) \/ Close(g)

Serving(r) == Handle(r) \/ Shared(r) \/ Flush(r) \/ Ending(r)
Main == Shared("main") \/ Flush("main") \/ Return \/ Exit
Timer == SeesEnd \/ Shared("timer") \/ Ending("timer")
Worker == Take \/ WorkerEnds \/ Look \/ Refresh \/ Send \/ Reload \/ Settle

Next ==
  \/ \E r \in Request : Arrive(r) \/ Serving(r)
  \/ Main
  \/ Timer
  \/ IdleFires
  \/ Worker
  \/ Signal
  \/ MaxRuntime
  \/ Expire
  \/ Change
  \/ Forget

Spec == Init /\ [][Next]_vars

\* Every goroutine that can run does, the mutex goes to whoever waits for it,
\* and the longest run time ends.
FairSpec ==
  /\ Spec
  /\ \A r \in Request : WF_vars(Serving(r))
  /\ WF_vars(Main)
  /\ WF_vars(Timer)
  /\ WF_vars(Worker)
  /\ WF_vars(MaxRuntime)

-----------------------------------------------------------------------------
(* Properties.                                                             *)

Releasing(E) == {[by |-> e.of, secret |-> "value"] : e \in {d \in E : d.result = "allowed"}}

\* A broker started with --once releases the value to one request at most,
\* however the requests overlap and however its stop is delayed.
OnceReleasesOne == Once => Cardinality(Releasing(disk.events)) <= 1

\* The ledger has no release after the broker's stop: a handler that waited for
\* the mutex while the server was shut down releases nothing.
NothingAfterStop ==
  [][(\E e \in disk.events : e.result = "stopped") =>
       Releasing(disk'.events) = Releasing(disk.events)]_vars

\* The local ledger never takes an event for synced that the control plane
\* does not have, though the worker marks a newer state than it uploaded.
AckedIsRecorded ==
  \A e \in disk.events : e.acked => Upload(e) \in remote

\* The control plane never hears of a release that the local ledger does not
\* know.
AllowedIsLocal == Releasing(remote) \subseteq Releasing(disk.events)

\* The local ledger and the control plane's agree on what they share.
LedgersAgree == TypeOK /\ AckedIsRecorded /\ AllowedIsLocal

\* The mutex is enough: unless another process, or a refreshed session, has
\* come in between, a goroutine about to save finds the state it loaded.
OwnSavesCurrent ==
  changes = 0 =>
    /\ \A g \in Goroutine \ {"worker"} :
         go[g].phase \in {"noting", "gating", "posting", "marking", "blocking", "syncing", "keeping"}
           => mu = g /\ disk.stamp = current.stamp
    /\ go["worker"].phase = "marking" => mu = "worker" /\ disk.stamp = latest.stamp

\* When nothing fails, the command ends with its start, its stop and all its
\* releases recorded by the control plane and marked as such.
SyncedAtExit ==
  ~Running /\ changes = 0 =>
    /\ \E e \in disk.events : e.result = "stopped"
    /\ \A e \in disk.events : e.result \in {"started", "stopped", "allowed"} => e.acked

\* The mutex is enough for the broker's own goroutines: no save of one makes
\* that of another fail, and so nothing they recorded is missing at the end.
MutexSuffices == OwnSavesCurrent /\ SyncedAtExit

Promise == INSTANCE ReleaseGate WITH
  Secret <- {"value"},
  Command <- Request,
  policy <- IF disk.granted THEN {"value"} ELSE {},
  ledger <- Releasing(disk.events),
  told <- Releasing(remote),
  released <- {[by |-> a.by, secret |-> "value", strict |-> a.strict] : a \in answered}

\* Every answer follows an event that the policy in force allowed when it was
\* written and, in a strict envelope, that was told first.
ImplementsReleaseGate == Promise!Spec

\* The broker ends, whatever its clients, the network and the state file do:
\* nobody keeps the mutex and nobody waits for the worker in vain.
BrokerStops == <>~Running
=============================================================================
