------------------------- MODULE AuditGateProofs -------------------------
(***************************************************************************)
(* What holds of the audit gate for any processes, secrets, workspaces and *)
(* commands, any number of changes under them, and any faults.  The model  *)
(* checker follows one command of one process; what two of them could do   *)
(* to each other's events, saves and releases is shown here.               *)
(***************************************************************************)
EXTENDS AuditGate, TLAPS

-----------------------------------------------------------------------------
(* The inductive invariant.                                                *)

Uploads(E) == {Upload(e) : e \in E}

\* E has the event that allows the command n to release s.
Has(E, n, s) == \E e \in E : e.by = n /\ e.secret = s /\ e.result = "allowed"

\* Where a command was blocked, each of its releases is contradicted.
Answered(E) ==
  \A e, a \in E : e.blocks /\ a.by = e.by /\ a.result = "allowed" =>
    \E b \in E : b.by = a.by /\ b.blocks /\ b.secret = a.secret

\* Events of the first n commands, marked as synced only if they are.
EventsSound(E, rem, n) ==
  /\ \A e \in E : e.by <= n /\ (e.acked => Upload(e) \in rem)
  /\ Answered(E)

\* What a command loaded, and whether it is still what is there.
Current(f, d) ==
  /\ f.stamp <= d.stamp
  /\ f.stamp = d.stamp =>
       /\ f.link = d.link /\ f.granted = d.granted
       /\ Uploads(d.events) \subseteq Uploads(f.events)

\* Only what it has not told anybody is in a command's memory alone: its own
\* refusals and failures.
Known(r, d) ==
  \A e \in r.mem.events :
    e.by # r.id \/ e.result = "allowed" => Upload(e) \in Uploads(d.events)

NotBlocked(r, E) == \A e \in E : e.by = r.id => ~e.blocks

\* The control plane has the events of the strict secrets.
Told(r, rem) == \A s \in Strict(r) : Has(rem, r.id, s)

\* What each phase may rely on.
InPhase(r, rem, rel) ==
  /\ r.cmd # "none"
  /\ r.phase \in {"saving strict", "posting", "marking", "buffering"} => r.wants \subseteq Allowed(r.mem)
  /\ r.phase \in {"checking", "saving strict"} => \A e \in r.mem.events : e.by # r.id
  /\ r.phase \in {"posting", "marking", "blocking"} =>
       \A e \in r.mem.events : e.by = r.id /\ e.result = "allowed" => e.secret \in Strict(r)
  /\ r.phase \in {"posting", "marking", "buffering"} => \A s \in Strict(r) : Has(r.mem.events, r.id, s)
  /\ r.phase = "posting" =>
       \A e \in Batch(r), w \in Workspace \ r.todo : e.secret \in w => Upload(e) \in rem
  /\ r.phase = "marking" => \A e \in Batch(r) : Upload(e) \in rem
  /\ r.phase = "buffering" => Told(r, rem)
  /\ r.phase \in {"syncing", "keeping", "reading", "finishing"} /\ ~r.fails =>
       Told(r, rem) /\ \A s \in r.wants : Has(r.mem.events, r.id, s)
  /\ r.fails => r.phase \in {"recording", "syncing", "keeping"}
  /\ r.phase = "recording" => r.fails
  /\ r.phase \in {"checking", "saving strict", "posting", "marking", "blocking", "buffering"} =>
       \A x \in rel : x.by # r.id

\* A command that runs, against the state file, what the control plane has, what
\* was released and the number of commands.
Sound(r, d, rem, rel, n) ==
  /\ r.id \in 1 .. n
  /\ r.left \subseteq r.wants
  /\ Current(r.mem, d)
  /\ Known(r, d)
  /\ EventsSound(r.mem.events, rem, n)
  /\ NotBlocked(r, r.mem.events)
  /\ NotBlocked(r, d.events)
  /\ InPhase(r, rem, rel)

DiskSound(d, rem, rel, n) ==
  /\ EventsSound(d.events, rem, n)
  /\ \A e \in rem : e.result = "allowed" => e \in Uploads(d.events)
  /\ \A e \in d.events : e.blocks => \A x \in rel : x.by # e.by

ReleasedSound(rem, rel, n) ==
  \A x \in rel :
    /\ x.by <= n
    /\ x.strict => Has(rem, x.by, x.secret)
    /\ x.cmd = "run" => x.live

Runs(r) == r.phase # "idle"

IdsDiffer ==
  \A p, q \in Proc : p # q /\ Runs(proc[p]) /\ Runs(proc[q]) => proc[p].id # proc[q].id

IInv ==
  /\ TypeOK
  /\ IdsDiffer
  /\ \A p \in Proc : Runs(proc[p]) => Sound(proc[p], disk, remote, released, started)
  /\ DiskSound(disk, remote, released, started)
  /\ ReleasedSound(remote, released, started)

-----------------------------------------------------------------------------
(* Events and their uploads.                                               *)

LEMMA UploadFields ==
  ASSUME NEW e \in Event
  PROVE  /\ Upload(e) \in Event
         /\ Upload(e).by = e.by /\ Upload(e).secret = e.secret
         /\ Upload(e).result = e.result /\ Upload(e).blocks = e.blocks
         /\ Upload(e).acked = FALSE
  BY DEF Event, Upload

LEMMA UnackedIsUpload ==
  ASSUME NEW e \in Event, ~e.acked
  PROVE  Upload(e) = e
  BY DEF Event, Upload

\* What the uploads of E say, those of F say.
LEMMA UploadsCarry ==
  ASSUME NEW E \in SUBSET Event, NEW F \in SUBSET Event, NEW e \in E,
         Upload(e) \in Uploads(F)
  PROVE  \E f \in F : /\ Upload(f) = Upload(e) /\ f.by = e.by /\ f.secret = e.secret
                      /\ f.result = e.result /\ f.blocks = e.blocks
  <1>1. PICK f \in F : Upload(f) = Upload(e)
    BY DEF Uploads
  <1>2. /\ Upload(e).by = e.by /\ Upload(e).secret = e.secret
        /\ Upload(e).result = e.result /\ Upload(e).blocks = e.blocks
    BY UploadFields
  <1>3. /\ Upload(f).by = f.by /\ Upload(f).secret = f.secret
        /\ Upload(f).result = f.result /\ Upload(f).blocks = f.blocks
    BY UploadFields
  <1> QED BY <1>1, <1>2, <1>3, Zenon

LEMMA HasCarries ==
  ASSUME NEW E \in SUBSET Event, NEW F \in SUBSET Event, Uploads(E) \subseteq Uploads(F),
         NEW n, NEW s, Has(E, n, s)
  PROVE  Has(F, n, s)
  <1>1. PICK e \in E : e.by = n /\ e.secret = s /\ e.result = "allowed"
    BY DEF Has
  <1>2. Upload(e) \in Uploads(F)
    BY DEF Uploads
  <1> QED BY <1>1, <1>2, UploadsCarry DEF Has

\* A bigger set has more uploads.
LEMMA UploadsGrow ==
  ASSUME NEW E, NEW F, E \subseteq F
  PROVE  Uploads(E) \subseteq Uploads(F)
  BY DEF Uploads

\* MarkAuditEventsRemoteAcked changes nothing but the mark, and marks what was
\* acknowledged.
LEMMA MarkedFacts ==
  ASSUME NEW E \in SUBSET Event, NEW acks
  PROVE  /\ Marked(E, acks) \in SUBSET Event
         /\ Uploads(Marked(E, acks)) = Uploads(E)
         /\ \A m \in Marked(E, acks) :
              \E e \in E : Upload(m) = Upload(e) /\ (m.acked => e.acked \/ Upload(e) \in acks)
  <1> DEFINE Mark(e) == [e EXCEPT !.acked = @ \/ Upload(e) \in acks]
  <1>1. \A e \in E : /\ Mark(e) \in Event
                     /\ Mark(e).acked => e.acked \/ Upload(e) \in acks
                     /\ Upload(Mark(e)) = Upload(e)
    BY DEF Event, Upload
  <1>2. Marked(E, acks) = {Mark(e) : e \in E}
    BY DEF Marked
  <1> HIDE DEF Mark
  <1> QED BY <1>1, <1>2 DEF Uploads

\* Made appends one event of r's own per secret.
LEMMA MadeType ==
  ASSUME NEW r \in Process, NEW S \in SUBSET Secret,
         NEW result \in {"allowed", "denied", "failed"}, NEW blocks \in BOOLEAN
  PROVE  Made(r, S, result, blocks) \in SUBSET Event
  <1> DEFINE New(s) == [by |-> r.id, secret |-> s, result |-> result, blocks |-> blocks, acked |-> FALSE]
  <1>1. r.id \in Nat
    BY DEF Process
  <1>2. \A s \in S : New(s) \in Event
    BY <1>1 DEF Event
  <1>3. Made(r, S, result, blocks) = {New(s) : s \in S}
    BY DEF Made
  <1> HIDE DEF New
  <1> QED BY <1>2, <1>3

LEMMA MadeSays ==
  ASSUME NEW r, NEW S, NEW result, NEW blocks \in BOOLEAN, NEW m \in Made(r, S, result, blocks)
  PROVE  m.by = r.id /\ m.secret \in S /\ m.result = result /\ (m.blocks <=> blocks) /\ ~m.acked
  BY DEF Made

LEMMA MadeCovers ==
  ASSUME NEW r, NEW S, NEW result, NEW blocks, NEW s \in S
  PROVE  \E m \in Made(r, S, result, blocks) : m.secret = s
  <1> DEFINE m == [by |-> r.id, secret |-> s, result |-> result, blocks |-> blocks, acked |-> FALSE]
  <1>1. m \in Made(r, S, result, blocks) /\ m.secret = s
    BY DEF Made
  <1> QED BY <1>1

-----------------------------------------------------------------------------
(* Records.                                                                *)

LEMMA ProcessFields ==
  ASSUME NEW r \in Process
  PROVE  /\ r.phase \in Phase /\ r.id \in Nat /\ r.wants \in SUBSET Secret
         /\ r.todo \in SUBSET Workspace /\ r.left \in SUBSET Secret /\ r.fails \in BOOLEAN
         /\ r.cmd \in {"none", "get", "run", "mount"} /\ r.mem \in StateFile
  BY DEF Process

LEMMA FileFields ==
  ASSUME NEW f \in StateFile
  PROVE  /\ f.stamp \in Nat /\ f.events \in SUBSET Event /\ f.link \in Link
         /\ f.granted \in SUBSET Secret /\ f.strict \in SUBSET Secret /\ f.kept \in SUBSET Secret
  BY DEF StateFile

LEMMA IdleType == Idle \in Process /\ ~Runs(Idle) /\ Idle.todo = {}
  BY DEF Idle, Process, Phase, Vault, StateFile, Link, Runs, Event

\* A process with other events in memory.
LEMMA AfterFields ==
  ASSUME NEW b \in Process, NEW E \in SUBSET Event
  PROVE  LET a == [b EXCEPT !.mem.events = E]
         IN  /\ a \in Process
             /\ a.phase = b.phase /\ a.id = b.id /\ a.wants = b.wants /\ a.todo = b.todo
             /\ a.left = b.left /\ a.fails = b.fails /\ a.cmd = b.cmd
             /\ a.mem = [b.mem EXCEPT !.events = E]
             /\ a.mem \in StateFile
             /\ a.mem.events = E /\ a.mem.stamp = b.mem.stamp /\ a.mem.link = b.mem.link
             /\ a.mem.granted = b.mem.granted /\ a.mem.strict = b.mem.strict
  <1>1. [b EXCEPT !.mem.events = E] = [b EXCEPT !.mem = [b.mem EXCEPT !.events = E]]
    BY DEF Process
  <1>2. [b.mem EXCEPT !.events = E] \in StateFile
    BY DEF Process, StateFile
  <1> QED BY <1>1, <1>2 DEF Process, StateFile

LEMMA WithMemory ==
  ASSUME NEW b \in Process, NEW d \in StateFile
  PROVE  LET a == [b EXCEPT !.mem = d]
         IN  /\ a \in Process
             /\ a.phase = b.phase /\ a.id = b.id /\ a.wants = b.wants /\ a.todo = b.todo
             /\ a.left = b.left /\ a.fails = b.fails /\ a.cmd = b.cmd /\ a.mem = d
  BY DEF Process

-----------------------------------------------------------------------------
(* What a command relies on survives what the others do.                   *)

\* InPhase reads these fields of a process.
LEMMA InPhaseOf ==
  ASSUME NEW r, NEW a, NEW rem, NEW rel,
         a.phase = r.phase, a.id = r.id, a.wants = r.wants, a.todo = r.todo, a.fails = r.fails,
         a.cmd = r.cmd,
         a.mem.events = r.mem.events, a.mem.link = r.mem.link,
         a.mem.granted = r.mem.granted, a.mem.strict = r.mem.strict,
         InPhase(r, rem, rel)
  PROVE  InPhase(a, rem, rel)
  <1>1. Strict(a) = Strict(r) /\ Allowed(a.mem) = Allowed(r.mem)
    BY DEF Strict, Allowed
  <1>2. Batch(a) = Batch(r)
    BY <1>1 DEF Batch
  <1>3. Told(r, rem) => Told(a, rem)
    BY <1>1 DEF Told
  <1> QED BY <1>1, <1>2, <1>3 DEF InPhase

\* The control plane forgets nothing, and nobody else releases in its name.
LEMMA InPhaseCarries ==
  ASSUME NEW r, NEW rem, NEW rem1, NEW rel, NEW rel1,
         InPhase(r, rem, rel), rem \subseteq rem1,
         \A x \in rel1 \ rel : x.by # r.id \/ r.phase \in {"reading", "finishing"}
  PROVE  InPhase(r, rem1, rel1)
  <1>1. Told(r, rem) => Told(r, rem1)
    BY DEF Told, Has
  <1>2. r.phase \in {"checking", "saving strict", "posting", "marking", "blocking", "buffering"} =>
          \A x \in rel1 : x.by # r.id
    <2> SUFFICES ASSUME r.phase \in {"checking", "saving strict", "posting", "marking",
                                     "blocking", "buffering"},
                        NEW x \in rel1
                 PROVE  x.by # r.id
      OBVIOUS
    <2>1. CASE x \in rel
      BY <2>1 DEF InPhase
    <2>2. CASE x \notin rel
      BY <2>2
    <2> QED BY <2>1, <2>2
  <1> QED BY <1>1, <1>2 DEF InPhase

LEMMA SoundCarries ==
  ASSUME NEW r \in Process, NEW d \in StateFile, NEW d1 \in StateFile,
         NEW rem, NEW rem1, NEW rel, NEW rel1, NEW n \in Nat, NEW n1 \in Nat,
         Sound(r, d, rem, rel, n),
         rem \subseteq rem1, n <= n1,
         d1 = d \/ d1.stamp = d.stamp + 1,
         Uploads(d.events) \subseteq Uploads(d1.events),
         NotBlocked(r, d1.events),
         \A x \in rel1 \ rel : x.by # r.id \/ r.phase \in {"reading", "finishing"}
  PROVE  Sound(r, d1, rem1, rel1, n1)
  <1>0. /\ r.mem \in StateFile /\ r.mem.stamp \in Nat /\ d.stamp \in Nat
        /\ r.mem.events \in SUBSET Event /\ r.id \in Nat
    BY ProcessFields, FileFields
  <1>1. Current(r.mem, d1)
    BY <1>0 DEF Sound, Current
  <1>2. Known(r, d1)
    BY DEF Sound, Known
  <1>3. EventsSound(r.mem.events, rem1, n1)
    <2>1. \A e \in r.mem.events : e.by \in Nat
      BY <1>0 DEF Event
    <2> QED BY <2>1, <1>0 DEF Sound, EventsSound
  <1>4. InPhase(r, rem1, rel1)
    BY InPhaseCarries DEF Sound
  <1>5. r.id \in 1 .. n1
    BY <1>0 DEF Sound
  <1> QED BY <1>1, <1>2, <1>3, <1>4, <1>5 DEF Sound

\* A command goes on to a, with other events in memory: marks, or refusals and
\* failures of its own.
LEMMA SoundEvents ==
  ASSUME NEW r \in Process, NEW a \in Process, NEW d \in StateFile,
         NEW rem, NEW rel, NEW n \in Nat,
         Sound(r, d, rem, rel, n),
         a.id = r.id, a.left \subseteq a.wants,
         a.mem.stamp = r.mem.stamp, a.mem.link = r.mem.link, a.mem.granted = r.mem.granted,
         Uploads(r.mem.events) \subseteq Uploads(a.mem.events),
         \A e \in a.mem.events :
            \/ Upload(e) \in Uploads(r.mem.events)
            \/ e.by = r.id /\ e.result # "allowed" /\ ~e.blocks,
         \A e \in a.mem.events : e.acked => Upload(e) \in rem,
         InPhase(a, rem, rel)
  PROVE  Sound(a, d, rem, rel, n)
  <1> DEFINE E == r.mem.events
             F == a.mem.events
  <1>0. /\ r.mem \in StateFile /\ a.mem \in StateFile /\ E \in SUBSET Event /\ F \in SUBSET Event
        /\ d.events \in SUBSET Event /\ r.id \in Nat
    BY ProcessFields, FileFields
  <1>1. Current(a.mem, d)
    BY DEF Sound, Current
  <1>2. \A f \in F : Upload(f) \in Uploads(E) =>
          \E e \in E : /\ Upload(e) = Upload(f) /\ e.by = f.by /\ e.secret = f.secret
                       /\ e.result = f.result /\ e.blocks = f.blocks
    BY <1>0, UploadsCarry
  <1>3. Known(a, d)
    BY <1>2 DEF Sound, Known
  <1>4. NotBlocked(a, F)
    BY <1>2 DEF Sound, NotBlocked
  <1>5. NotBlocked(a, d.events)
    BY DEF Sound, NotBlocked
  <1>6. EventsSound(F, rem, n)
    <2>1. \A f \in F : f.by <= n
      BY <1>2, <1>0 DEF Sound, EventsSound
    <2>2. Answered(F)
      <3> SUFFICES ASSUME NEW e \in F, NEW f \in F, e.blocks, f.by = e.by, f.result = "allowed"
                   PROVE  \E b \in F : b.by = f.by /\ b.blocks /\ b.secret = f.secret
        BY DEF Answered
      <3>1. PICK e1 \in E : e1.by = e.by /\ e1.blocks = e.blocks
        BY <1>2
      <3>2. PICK f1 \in E : f1.by = f.by /\ f1.secret = f.secret /\ f1.result = f.result
        BY <1>2
      <3>3. PICK b1 \in E : b1.by = f.by /\ b1.blocks /\ b1.secret = f.secret
        <4>1. Answered(E)
          BY DEF Sound, EventsSound
        <4>2. e1.blocks /\ f1.by = e1.by /\ f1.result = "allowed"
          BY <3>1, <3>2
        <4>3. \E b \in E : b.by = f1.by /\ b.blocks /\ b.secret = f1.secret
          BY <4>1, <4>2 DEF Answered
        <4> QED BY <4>3, <3>2
      <3>4. Upload(b1) \in Uploads(F)
        BY DEF Uploads
      <3>5. \E b \in F : b.by = b1.by /\ b.secret = b1.secret /\ b.blocks = b1.blocks
        BY <3>4, <1>0, UploadsCarry
      <3> QED BY <3>3, <3>5
    <2> QED BY <2>1, <2>2 DEF EventsSound
  <1> QED BY <1>1, <1>3, <1>4, <1>5, <1>6 DEF Sound

\* It goes on with the same memory.
LEMMA SoundGoesOn ==
  ASSUME NEW r \in Process, NEW a \in Process, NEW d \in StateFile,
         NEW rem, NEW rel, NEW n \in Nat,
         Sound(r, d, rem, rel, n),
         a.id = r.id, a.mem = r.mem, a.left \subseteq a.wants,
         InPhase(a, rem, rel)
  PROVE  Sound(a, d, rem, rel, n)
  <1>1. \A e \in r.mem.events : Upload(e) \in Uploads(r.mem.events)
    BY DEF Uploads
  <1>2. \A e \in r.mem.events : e.acked => Upload(e) \in rem
    BY DEF Sound, EventsSound
  <1> QED BY <1>1, <1>2, SoundEvents

-----------------------------------------------------------------------------
(* A step of one process.                                                  *)

\* The process p goes on as r1; the others have nothing to fear from what it
\* does to the state file, the control plane and the releases.
LEMMA Frame ==
  ASSUME IInv, NEW p \in Proc, NEW r1 \in Process, Runs(proc[p]),
         proc' = [proc EXCEPT ![p] = r1],
         UNCHANGED <<keys, started, changes>>,
         disk' \in StateFile,
         disk' = disk \/ disk'.stamp = disk.stamp + 1,
         Uploads(disk.events) \subseteq Uploads(disk'.events),
         \A e \in disk'.events :
            e.blocks => e.by = proc[p].id \/ Upload(e) \in Uploads(disk.events),
         remote \subseteq remote', \A e \in remote' : e \in Event /\ ~e.acked,
         released' \subseteq Released,
         \A x \in released' \ released : x.by = proc[p].id,
         r1.todo # {} => r1.phase = "posting",
         Runs(r1) => r1.id = proc[p].id /\ Sound(r1, disk', remote', released', started),
         DiskSound(disk', remote', released', started),
         ReleasedSound(remote', released', started)
  PROVE  IInv'
  <1>1. /\ proc \in [Proc -> Process] /\ disk \in StateFile /\ started \in Nat
        /\ started \in 0 .. MaxCommands /\ changes \in 0 .. MaxChanges /\ keys \subseteq Secret
    BY ConstantsAssumption DEF IInv, TypeOK
  <1>2. proc'[p] = r1 /\ \A q \in Proc : q # p => proc'[q] = proc[q]
    BY <1>1
  <1>3. TypeOK'
    <2>1. proc' \in [Proc -> Process]
      BY <1>1
    <2>2. \A q \in Proc : proc'[q].todo # {} => proc'[q].phase = "posting"
      BY <1>2 DEF IInv, TypeOK
    <2> QED BY <1>1, <2>1, <2>2 DEF TypeOK
  <1>4. IdsDiffer'
    <2> SUFFICES ASSUME NEW q \in Proc, NEW u \in Proc, q # u, Runs(proc'[q]), Runs(proc'[u])
                 PROVE  proc'[q].id # proc'[u].id
      BY DEF IdsDiffer
    <2>1. \A v \in {q, u} : Runs(proc[v]) /\ proc'[v].id = proc[v].id
      BY <1>2
    <2> QED BY <2>1 DEF IInv, IdsDiffer
  <1>5. ASSUME NEW q \in Proc, Runs(proc'[q])
        PROVE  Sound(proc'[q], disk', remote', released', started')
    <2>1. CASE q = p
      BY <2>1, <1>2, <1>5
    <2>2. CASE q # p
      <3>1. /\ proc'[q] = proc[q] /\ Runs(proc[q]) /\ proc[q] \in Process
            /\ Sound(proc[q], disk, remote, released, started)
            /\ proc[q].id # proc[p].id
        BY <2>2, <1>1, <1>2, <1>5 DEF IInv, IdsDiffer
      <3>2. NotBlocked(proc[q], disk'.events)
        <4> SUFFICES ASSUME NEW e \in disk'.events, e.by = proc[q].id, e.blocks
                     PROVE  FALSE
          BY DEF NotBlocked
        <4>1. Upload(e) \in Uploads(disk.events)
          BY <3>1
        <4>2. PICK d \in disk.events : d.by = e.by /\ d.blocks = e.blocks
          <5>1. disk.events \in SUBSET Event /\ disk'.events \in SUBSET Event
            BY <1>1, FileFields
          <5> DEFINE E == disk'.events
                     F == disk.events
          <5>2. E \in SUBSET Event /\ F \in SUBSET Event /\ e \in E /\ Upload(e) \in Uploads(F)
            BY <4>1, <5>1
          <5> HIDE DEF E, F
          <5>3. \E f \in F : /\ Upload(f) = Upload(e) /\ f.by = e.by /\ f.secret = e.secret
                             /\ f.result = e.result /\ f.blocks = e.blocks
            BY <5>2, UploadsCarry
          <5> QED BY <5>3 DEF F
        <4> QED BY <4>2, <3>1 DEF Sound, NotBlocked
      <3>3. \A x \in released' \ released : x.by # proc[q].id
        BY <3>1
      <3>4. Sound(proc[q], disk', remote', released', started)
        BY <3>1, <3>2, <3>3, <1>1, SoundCarries
      <3> QED BY <3>1, <3>4
    <2> QED BY <2>1, <2>2
  <1> QED BY <1>3, <1>4, <1>5 DEF IInv

\* The facts about p that every step starts from.
LEMMA Facts ==
  ASSUME IInv, NEW p \in Proc, Runs(proc[p])
  PROVE  /\ proc[p] \in Process /\ disk \in StateFile /\ started \in Nat
         /\ proc[p].mem \in StateFile /\ proc[p].mem.events \in SUBSET Event
         /\ disk.events \in SUBSET Event /\ disk.stamp \in Nat /\ proc[p].mem.stamp \in Nat
         /\ proc[p].id \in Nat /\ proc[p].id <= started
         /\ Strict(proc[p]) \in SUBSET Secret /\ Buffered(proc[p]) \in SUBSET Secret
         /\ remote \in SUBSET Event /\ \A e \in remote : ~e.acked
         /\ released \subseteq Released
         /\ Sound(proc[p], disk, remote, released, started)
         /\ InPhase(proc[p], remote, released)
         /\ DiskSound(disk, remote, released, started)
         /\ ReleasedSound(remote, released, started)
  <1>1. proc[p] \in Process /\ disk \in StateFile /\ started \in Nat
    BY ConstantsAssumption DEF IInv, TypeOK
  <1>2. /\ proc[p].mem \in StateFile /\ proc[p].mem.events \in SUBSET Event
        /\ disk.events \in SUBSET Event /\ disk.stamp \in Nat /\ proc[p].mem.stamp \in Nat
        /\ proc[p].id \in Nat /\ proc[p].wants \in SUBSET Secret
    BY <1>1, ProcessFields, FileFields
  <1>3. Sound(proc[p], disk, remote, released, started)
    BY DEF IInv
  <1> QED BY <1>1, <1>2, <1>3 DEF IInv, TypeOK, Sound, Strict, Buffered

\* A step that only changes the process, and tells the control plane events of
\* its memory.
LEMMA FrameTells ==
  ASSUME IInv, NEW p \in Proc, NEW r1 \in Process, Runs(proc[p]),
         proc' = [proc EXCEPT ![p] = r1],
         UNCHANGED <<disk, keys, started, changes, released>>,
         NEW T \in SUBSET proc[p].mem.events,
         remote' = remote \cup {Upload(e) : e \in T},
         r1.todo # {} => r1.phase = "posting",
         Runs(r1) => r1.id = proc[p].id /\ Sound(r1, disk, remote', released, started)
  PROVE  IInv'
  <1> USE Facts
  <1>1. \A e \in remote' : e \in Event /\ ~e.acked
    <2>1. T \in SUBSET Event
      OBVIOUS
    <2>2. \A e \in T : Upload(e) \in Event /\ Upload(e).acked = FALSE
      BY <2>1, UploadFields
    <2> QED BY <2>2
  <1>2. DiskSound(disk, remote', released, started)
    <2>1. EventsSound(disk.events, remote', started)
      BY DEF DiskSound, EventsSound
    <2>2. \A e \in T : e.result = "allowed" => Upload(e) \in Uploads(disk.events)
      BY DEF Sound, Known
    <2>3. \A e \in T : Upload(e).result = e.result
      BY UploadFields
    <2> QED BY <2>1, <2>2, <2>3 DEF DiskSound
  <1>3. ReleasedSound(remote', released, started)
    BY DEF ReleasedSound, Has
  <1>4. \A e \in disk.events : Upload(e) \in Uploads(disk.events)
    BY DEF Uploads
  <1>5. disk' \in StateFile /\ Uploads(disk.events) \subseteq Uploads(disk'.events)
    OBVIOUS
  <1> QED BY <1>1, <1>2, <1>3, <1>4, <1>5, Frame

\* A step that only changes the process.
LEMMA FrameOwn ==
  ASSUME IInv, NEW p \in Proc, NEW r1 \in Process, Runs(proc[p]),
         proc' = [proc EXCEPT ![p] = r1],
         UNCHANGED <<disk, keys, remote, started, changes, released>>,
         r1.todo # {} => r1.phase = "posting",
         Runs(r1) => r1.id = proc[p].id /\ Sound(r1, disk, remote, released, started)
  PROVE  IInv'
  <1>1. remote' = remote \cup {Upload(e) : e \in {}}
    OBVIOUS
  <1> QED BY <1>1, FrameTells

-----------------------------------------------------------------------------
(* A save of the events E, after which the process goes on as good or bad.  *)

\* What is released with the save is released only if it succeeds.
LEMMA SaveReleases ==
  ASSUME IInv, NEW p \in Proc, Runs(proc[p]),
         NEW E \in SUBSET Event, NEW good \in Process, NEW bad \in Process,
         Save(p, E, good, bad),
         UNCHANGED <<keys, remote, started, changes>>,
         UNCHANGED disk => UNCHANGED released,
         released' \subseteq Released,
         \A x \in released' \ released : x.by = proc[p].id,
         ReleasedSound(remote, released', started),
         Uploads(proc[p].mem.events) \subseteq Uploads(E),
         EventsSound(E, remote, started),
         \A e \in E :
            \/ Upload(e) \in Uploads(proc[p].mem.events)
            \/ e.by = proc[p].id /\ (e.blocks => \A x \in released' : x.by # proc[p].id),
         good.todo # {} => good.phase = "posting",
         bad.todo # {} => bad.phase = "posting",
         Runs(good) =>
            /\ good.id = proc[p].id /\ good.mem = proc[p].mem /\ good.left \subseteq good.wants
            /\ NotBlocked(good, E)
            /\ InPhase([good EXCEPT !.mem.events = E], remote, released'),
         Runs(bad) =>
            /\ bad.id = proc[p].id /\ bad.mem = proc[p].mem /\ bad.left \subseteq bad.wants
            /\ Uploads(E) \subseteq Uploads(proc[p].mem.events)
            /\ InPhase([bad EXCEPT !.mem.events = E], remote, released)
  PROVE  IInv'
  <1> DEFINE r == proc[p]
             M == r.mem.events
  <1>1. /\ r \in Process /\ disk \in StateFile /\ started \in Nat
        /\ r.mem \in StateFile /\ M \in SUBSET Event /\ disk.events \in SUBSET Event
        /\ disk.stamp \in Nat /\ r.mem.stamp \in Nat
        /\ remote \in SUBSET Event /\ (\A e \in remote : ~e.acked) /\ released \subseteq Released
        /\ Sound(r, disk, remote, released, started)
        /\ DiskSound(disk, remote, released, started)
        /\ ReleasedSound(remote, released, started)
    BY Facts
  <1>2. CASE /\ disk.stamp = r.mem.stamp
             /\ disk' = [r.mem EXCEPT !.stamp = disk.stamp + 1, !.events = E]
             /\ proc' = [proc EXCEPT ![p] = [good EXCEPT !.mem = disk']]
    <2> DEFINE a == [good EXCEPT !.mem = disk']
    <2>1. /\ disk' \in StateFile /\ disk'.stamp = disk.stamp + 1 /\ disk'.events = E
          /\ disk'.link = r.mem.link /\ disk'.granted = r.mem.granted
          /\ disk'.strict = r.mem.strict
      <3> DEFINE f == r.mem
                 n == disk.stamp + 1
                 g == [f EXCEPT !.stamp = n]
      <3>1. f \in StateFile /\ n \in Nat
        BY <1>1
      <3>2. disk' = [g EXCEPT !.events = E]
        BY <1>2
      <3> HIDE DEF f, n
      <3>3. /\ g \in StateFile /\ g.stamp = n /\ g.link = f.link
            /\ g.granted = f.granted /\ g.strict = f.strict
        BY <3>1 DEF StateFile
      <3> HIDE DEF g
      <3>4. /\ disk' \in StateFile /\ disk'.events = E /\ disk'.stamp = g.stamp
            /\ disk'.link = g.link /\ disk'.granted = g.granted /\ disk'.strict = g.strict
        BY <3>2, <3>3 DEF StateFile
      <3> QED BY <3>3, <3>4 DEF f, n
    <2>2. Uploads(disk.events) \subseteq Uploads(E)
      BY <1>1, <1>2 DEF Sound, Current
    <2>3. \A e \in E : e.blocks =>
            \/ e.by = r.id /\ \A x \in released' : x.by # r.id
            \/ Upload(e) \in Uploads(disk.events)
      <3> SUFFICES ASSUME NEW e \in E, e.blocks, Upload(e) \in Uploads(M)
                   PROVE  Upload(e) \in Uploads(disk.events)
        OBVIOUS
      <3>1. PICK m \in M : Upload(m) = Upload(e) /\ m.by = e.by /\ m.blocks = e.blocks
        <4>1. M \in SUBSET Event /\ E \in SUBSET Event /\ e \in E /\ Upload(e) \in Uploads(M)
          BY <1>1
        <4> HIDE DEF M
        <4>2. \E m \in M : /\ Upload(m) = Upload(e) /\ m.by = e.by /\ m.secret = e.secret
                           /\ m.result = e.result /\ m.blocks = e.blocks
          BY ONLY <4>1, UploadsCarry
        <4> QED BY <4>2
      <3>2. m.by # r.id
        BY <3>1, <1>1 DEF Sound, NotBlocked
      <3> QED BY <3>1, <3>2, <1>1 DEF Sound, Known
    <2>4. DiskSound(disk', remote', released', started)
      <3>1. \A e \in remote' : e.result = "allowed" => e \in Uploads(E)
        BY <1>1, <2>2 DEF DiskSound
      <3>2. ASSUME NEW e \in E, e.blocks, NEW x \in released'
            PROVE  x.by # e.by
        <4>1. CASE e.by = r.id /\ \A y \in released' : y.by # r.id
          BY <4>1
        <4>2. CASE Upload(e) \in Uploads(disk.events)
          <5>1. PICK d \in disk.events : d.by = e.by /\ d.blocks = e.blocks
            BY <4>2, <1>1, UploadsCarry
          <5>2. CASE x \in released
            BY <5>1, <5>2, <3>2, <1>1 DEF DiskSound
          <5>3. CASE x \notin released
            BY <5>1, <5>3, <3>2, <1>1 DEF Sound, NotBlocked
          <5> QED BY <5>2, <5>3
        <4> QED BY <4>1, <4>2, <2>3, <3>2
      <3> QED BY <2>1, <3>1, <3>2 DEF DiskSound
    <2>5. /\ a \in Process /\ a.phase = good.phase /\ a.id = good.id /\ a.wants = good.wants
          /\ a.todo = good.todo /\ a.left = good.left /\ a.fails = good.fails
          /\ a.cmd = good.cmd /\ a.mem = disk'
      BY <2>1, WithMemory
    <2>6. ASSUME Runs(a)
          PROVE  a.id = r.id /\ Sound(a, disk', remote', released', started)
      <3> DEFINE b == [good EXCEPT !.mem.events = E]
      <3>0. Runs(good)
        BY <2>5, <2>6 DEF Runs
      <3>1. /\ b.phase = good.phase /\ b.id = good.id /\ b.wants = good.wants /\ b.todo = good.todo
            /\ b.fails = good.fails /\ b.cmd = good.cmd /\ b.mem.events = E /\ b.mem.link = good.mem.link
            /\ b.mem.granted = good.mem.granted /\ b.mem.strict = good.mem.strict
        BY AfterFields, SMTT(30)
      <3> HIDE DEF a, b
      <3>2. InPhase(a, remote, released')
        <4>1. InPhase(b, remote, released')
          BY <3>0 DEF b
        <4> QED BY <4>1, <3>0, <3>1, <2>1, <2>5, InPhaseOf
      <3>3. Current(a.mem, disk') /\ Known(a, disk')
        <4>1. disk'.stamp \in Nat /\ a.mem = disk'
          BY <1>1, <2>1, <2>5
        <4>2. Current(a.mem, disk')
          BY <4>1 DEF Current
        <4>3. Known(a, disk')
          BY <4>1 DEF Known, Uploads
        <4> QED BY <4>2, <4>3
      <3>4. a.id = r.id /\ a.left \subseteq a.wants /\ NotBlocked(a, E)
        BY <3>0, <2>5 DEF NotBlocked
      <3>5. a.id \in 1 .. started
        BY <3>4, <1>1 DEF Sound
      <3> QED BY <3>2, <3>3, <3>4, <3>5, <2>1, <2>5 DEF Sound
    <2>7. \A e \in disk'.events :
            e.blocks => e.by = r.id \/ Upload(e) \in Uploads(disk.events)
      BY <2>1, <2>3
    <2>8. a.todo # {} => a.phase = "posting"
      BY <2>5
    <2>9. Uploads(disk.events) \subseteq Uploads(disk'.events)
      BY <2>1, <2>2
    <2>10. UNCHANGED <<keys, started, changes>> /\ proc' = [proc EXCEPT ![p] = a]
      BY <1>2
    <2>11. /\ remote \subseteq remote' /\ (\A e \in remote' : e \in Event /\ ~e.acked)
           /\ released' \subseteq Released /\ (\A x \in released' \ released : x.by = proc[p].id)
           /\ ReleasedSound(remote', released', started)
      BY <1>1
    <2> HIDE DEF a
    <2> QED BY <2>1, <2>4, <2>5, <2>6, <2>7, <2>8, <2>9, <2>10, <2>11, Frame
  <1>3. CASE /\ proc' = [proc EXCEPT ![p] = [bad EXCEPT !.mem.events = E]]
             /\ UNCHANGED disk
    <2> DEFINE a == [bad EXCEPT !.mem.events = E]
    <2>1. /\ a \in Process /\ a.phase = bad.phase /\ a.id = bad.id /\ a.wants = bad.wants
          /\ a.todo = bad.todo /\ a.left = bad.left
          /\ a.mem.events = E /\ a.mem.stamp = bad.mem.stamp /\ a.mem.link = bad.mem.link
          /\ a.mem.granted = bad.mem.granted
      <3>1. /\ a \in Process /\ a.phase = bad.phase /\ a.id = bad.id /\ a.wants = bad.wants
            /\ a.todo = bad.todo /\ a.left = bad.left /\ a.fails = bad.fails /\ a.cmd = bad.cmd
            /\ a.mem = [bad.mem EXCEPT !.events = E] /\ a.mem \in StateFile
            /\ a.mem.events = E /\ a.mem.stamp = bad.mem.stamp /\ a.mem.link = bad.mem.link
            /\ a.mem.granted = bad.mem.granted /\ a.mem.strict = bad.mem.strict
        BY AfterFields
      <3> QED BY <3>1
    <2>2. ASSUME Runs(a)
          PROVE  a.id = r.id /\ Sound(a, disk, remote, released, started)
      <3>0. Runs(bad)
        BY <2>1, <2>2 DEF Runs
      <3>1. InPhase(a, remote, released)
        BY <3>0
      <3> HIDE DEF a
      <3>2. \A e \in a.mem.events : Upload(e) \in Uploads(M)
        BY <3>0, <2>1 DEF Uploads
      <3>3. \A e \in a.mem.events : e.acked => Upload(e) \in remote
        BY <2>1 DEF EventsSound
      <3>4. /\ a.id = r.id /\ a.left \subseteq a.wants
            /\ a.mem.stamp = r.mem.stamp /\ a.mem.link = r.mem.link
            /\ a.mem.granted = r.mem.granted
            /\ Uploads(M) \subseteq Uploads(a.mem.events)
        BY <3>0, <2>1
      <3> QED BY <3>1, <3>2, <3>3, <3>4, <2>1, <1>1, SoundEvents
    <2>3. UNCHANGED <<disk, keys, remote, started, changes, released>>
          /\ proc' = [proc EXCEPT ![p] = a]
      BY <1>3
    <2>4. a.todo # {} => a.phase = "posting"
      BY <2>1
    <2> HIDE DEF a
    <2> QED BY <2>1, <2>2, <2>3, <2>4, FrameOwn
  <1> QED BY <1>2, <1>3 DEF Save

LEMMA SaveKeeps ==
  ASSUME IInv, NEW p \in Proc, Runs(proc[p]),
         NEW E \in SUBSET Event, NEW good \in Process, NEW bad \in Process,
         Save(p, E, good, bad),
         UNCHANGED <<keys, remote, started, changes, released>>,
         Uploads(proc[p].mem.events) \subseteq Uploads(E),
         EventsSound(E, remote, started),
         \A e \in E :
            \/ Upload(e) \in Uploads(proc[p].mem.events)
            \/ e.by = proc[p].id /\ (e.blocks => \A x \in released : x.by # proc[p].id),
         good.todo # {} => good.phase = "posting",
         bad.todo # {} => bad.phase = "posting",
         Runs(good) =>
            /\ good.id = proc[p].id /\ good.mem = proc[p].mem /\ good.left \subseteq good.wants
            /\ NotBlocked(good, E)
            /\ InPhase([good EXCEPT !.mem.events = E], remote, released),
         Runs(bad) =>
            /\ bad.id = proc[p].id /\ bad.mem = proc[p].mem /\ bad.left \subseteq bad.wants
            /\ Uploads(E) \subseteq Uploads(proc[p].mem.events)
            /\ InPhase([bad EXCEPT !.mem.events = E], remote, released)
  PROVE  IInv'
  <1>1. released \subseteq Released /\ ReleasedSound(remote, released, started)
    BY Facts
  <1>2. released' = released
    OBVIOUS
  <1> QED BY <1>1, <1>2, SaveReleases

-----------------------------------------------------------------------------
(* What the saves of the gate write.                                       *)

\* Marks on what the control plane has leave the events sound.
LEMMA MarkedSound ==
  ASSUME NEW E \in SUBSET Event, NEW acks, NEW rem, NEW n \in Nat,
         EventsSound(E, rem, n), acks \subseteq rem
  PROVE  EventsSound(Marked(E, acks), rem, n)
  <1> DEFINE F == Marked(E, acks)
  <1>1. F \in SUBSET Event /\ Uploads(F) = Uploads(E)
    BY MarkedFacts
  <1>2. \A f \in F : f.acked => Upload(f) \in rem
    <2>1. \A f \in F : \E e \in E :
            Upload(f) = Upload(e) /\ (f.acked => e.acked \/ Upload(e) \in acks)
      BY ONLY MarkedFacts, E \in SUBSET Event
    <2> HIDE DEF F
    <2> QED BY <2>1 DEF EventsSound
  <1> HIDE DEF F
  <1>3. ASSUME NEW f \in F
        PROVE  \E e \in E : /\ Upload(e) = Upload(f) /\ e.by = f.by /\ e.secret = f.secret
                            /\ e.result = f.result /\ e.blocks = f.blocks
    <2>1. Upload(f) \in Uploads(E)
      BY <1>1, <1>3 DEF Uploads
    <2> QED BY ONLY <2>1, <1>1, <1>3, E \in SUBSET Event, UploadsCarry
  <1>4. ASSUME NEW e \in E
        PROVE  \E f \in F : /\ Upload(f) = Upload(e) /\ f.by = e.by /\ f.secret = e.secret
                            /\ f.result = e.result /\ f.blocks = e.blocks
    <2>1. Upload(e) \in Uploads(F)
      BY <1>1, <1>4 DEF Uploads
    <2> QED BY ONLY <2>1, <1>1, <1>4, E \in SUBSET Event, UploadsCarry
  <1>5. \A f \in F : f.by <= n
    BY <1>3 DEF EventsSound
  <1>6. Answered(F)
    <2> SUFFICES ASSUME NEW f \in F, NEW a \in F, f.blocks, a.by = f.by, a.result = "allowed"
                 PROVE  \E b \in F : b.by = a.by /\ b.blocks /\ b.secret = a.secret
      BY DEF Answered
    <2>1. PICK f1 \in E : f1.by = f.by /\ f1.blocks = f.blocks
      BY <1>3
    <2>2. PICK a1 \in E : a1.by = a.by /\ a1.secret = a.secret /\ a1.result = a.result
      BY <1>3
    <2>3. f1.blocks /\ a1.by = f1.by /\ a1.result = "allowed"
      BY <2>1, <2>2
    <2>4. PICK b1 \in E : b1.by = a1.by /\ b1.blocks /\ b1.secret = a1.secret
      BY <2>3 DEF EventsSound, Answered
    <2>5. PICK b \in F : b.by = b1.by /\ b.blocks = b1.blocks /\ b.secret = b1.secret
      BY <1>4
    <2> QED BY <2>2, <2>4, <2>5
  <1> QED BY <1>2, <1>5, <1>6 DEF EventsSound, F

\* Events of r's own are appended to E: "allowed" ones to a command that was
\* not blocked, or the failures of all it was allowed.
LEMMA AppendedSound ==
  ASSUME NEW r \in Process, NEW E \in SUBSET Event, NEW rem, NEW n \in Nat, r.id <= n,
         EventsSound(E, rem, n), NotBlocked(r, E), NEW S \in SUBSET Secret,
         NEW result \in {"allowed", "denied", "failed"}, NEW blocks \in BOOLEAN,
         blocks => /\ result # "allowed"
                   /\ \A e \in E : e.by = r.id /\ e.result = "allowed" => e.secret \in S
  PROVE  LET F == E \cup Made(r, S, result, blocks)
         IN  F \in SUBSET Event /\ E \subseteq F /\ EventsSound(F, rem, n)
  <1> DEFINE M == Made(r, S, result, blocks)
  <1>1. /\ M \in SUBSET Event
        /\ \A m \in M : /\ m.by = r.id /\ m.secret \in S /\ m.result = result
                        /\ (m.blocks <=> blocks) /\ ~m.acked
        /\ \A s \in S : \E m \in M : m.secret = s
    <2>1. M \in SUBSET Event
      BY MadeType
    <2>2. ASSUME NEW m \in M
          PROVE  m.by = r.id /\ m.secret \in S /\ m.result = result /\ (m.blocks <=> blocks) /\ ~m.acked
      BY <2>2, MadeSays
    <2>3. \A s \in S : \E m \in M : m.secret = s
      BY MadeCovers
    <2> QED BY <2>1, <2>2, <2>3
  <1> HIDE DEF M
  <1> DEFINE F == E \cup M
  <1>2. \A e \in F : e.by <= n /\ (e.acked => Upload(e) \in rem)
    BY <1>1 DEF EventsSound
  <1>3. Answered(F)
    <2> SUFFICES ASSUME NEW e \in F, NEW a \in F, e.blocks, a.by = e.by, a.result = "allowed"
                 PROVE  \E b \in F : b.by = a.by /\ b.blocks /\ b.secret = a.secret
      BY DEF Answered
    <2>1. CASE e \in E /\ a \in E
      BY <2>1 DEF EventsSound, Answered
    <2>2. CASE e \in E /\ a \in M
      BY <2>2, <1>1 DEF NotBlocked
    <2>3. CASE e \in M
      <3>1. blocks /\ e.by = r.id
        BY <2>3, <1>1
      <3>2. a \in E
        BY <3>1, <1>1
      <3>3. a.secret \in S
        BY <3>1, <3>2
      <3>4. PICK m \in M : m.secret = a.secret
        BY <3>3, <1>1
      <3> QED BY <3>1, <3>4, <1>1
    <2> QED BY <2>1, <2>2, <2>3
  <1>4. EventsSound(F, rem, n)
    BY <1>2, <1>3 DEF EventsSound
  <1> QED BY <1>1, <1>4 DEF M, F

-----------------------------------------------------------------------------
(* The steps of a command.                                                 *)

\* A command has nothing queued unless it is posting, and fails only in these
\* phases.
LEMMA PhaseFacts ==
  ASSUME IInv, NEW p \in Proc, Runs(proc[p])
  PROVE  /\ proc[p].phase # "posting" => proc[p].todo = {}
         /\ proc[p].fails => proc[p].phase \in {"recording", "syncing", "keeping"}
         /\ proc[p].left \subseteq proc[p].wants /\ proc[p].cmd # "none"
  BY Facts DEF IInv, TypeOK, Sound, InPhase

\* The command ends.
LEMMA EndKeeps ==
  ASSUME IInv, NEW p \in Proc, Runs(proc[p]), proc' = [proc EXCEPT ![p] = Idle],
         UNCHANGED <<disk, keys, remote, started, changes, released>>
  PROVE  IInv'
  BY IdleType, FrameOwn

\* The command takes note of a refusal or a failure.
LEMMA RefusalKeeps ==
  ASSUME IInv, NEW p \in Proc, Runs(proc[p]), proc[p].phase # "posting",
         NEW S \in SUBSET Secret, NEW result \in {"denied", "failed"},
         proc' = [proc EXCEPT ![p] =
           [proc[p] EXCEPT !.phase = "recording", !.fails = TRUE,
                           !.mem.events = @ \cup Made(proc[p], S, result, FALSE)]],
         UNCHANGED <<disk, keys, remote, started, changes, released>>
  PROVE  IInv'
  <1> DEFINE r == proc[p]
             M == Made(r, S, result, FALSE)
             E == r.mem.events \cup M
             b == [r EXCEPT !.phase = "recording", !.fails = TRUE]
             a == [b EXCEPT !.mem.events = E]
  <1>1. /\ r \in Process /\ disk \in StateFile /\ started \in Nat /\ r.mem.events \in SUBSET Event
        /\ Sound(r, disk, remote, released, started) /\ r.todo = {}
        /\ r.left \subseteq r.wants /\ r.cmd # "none"
    BY Facts, PhaseFacts
  <1>2. M \in SUBSET Event /\ \A m \in M : m.by = r.id /\ m.result = result /\ ~m.blocks /\ ~m.acked
    <2>1. M \in SUBSET Event
      BY <1>1, MadeType
    <2>2. ASSUME NEW m \in M
          PROVE  m.by = r.id /\ m.result = result /\ ~m.blocks /\ ~m.acked
      <3>1. m.by = r.id /\ m.secret \in S /\ m.result = result /\ (m.blocks <=> FALSE) /\ ~m.acked
        BY <2>2, MadeSays
      <3> QED BY <3>1
    <2> QED BY <2>1, <2>2
  <1>3. /\ b \in Process /\ b.phase = "recording" /\ b.fails /\ b.id = r.id /\ b.left = r.left
        /\ b.wants = r.wants /\ b.todo = r.todo /\ b.mem = r.mem /\ b.cmd = r.cmd
    BY <1>1 DEF Process, Phase
  <1>4. proc' = [proc EXCEPT ![p] = a]
    <2>1. a = [r EXCEPT !.phase = "recording", !.fails = TRUE,
                        !.mem.events = @ \cup Made(r, S, result, FALSE)]
      OBVIOUS
    <2> QED BY <2>1
  <1> HIDE DEF M, b
  <1>5. E \in SUBSET Event
    BY <1>1, <1>2
  <1> HIDE DEF E
  <1>6. /\ a \in Process /\ a.phase = b.phase /\ a.id = b.id /\ a.wants = b.wants /\ a.todo = b.todo
        /\ a.left = b.left /\ a.fails = b.fails /\ a.cmd = b.cmd
        /\ a.mem.events = E /\ a.mem.stamp = b.mem.stamp /\ a.mem.link = b.mem.link
        /\ a.mem.granted = b.mem.granted
    BY ONLY <1>3, <1>5, AfterFields, ZenonT(40)
  <1> HIDE DEF a
  <1>7. InPhase(a, remote, released)
    BY <1>1, <1>3, <1>6 DEF InPhase
  <1>8. Uploads(r.mem.events) \subseteq Uploads(E)
    BY UploadsGrow DEF E
  <1>9. /\ \A e \in E : \/ Upload(e) \in Uploads(r.mem.events)
                        \/ e.by = r.id /\ e.result # "allowed" /\ ~e.blocks
        /\ \A e \in E : e.acked => Upload(e) \in remote
    BY <1>1, <1>2 DEF E, Uploads, Sound, EventsSound
  <1>10. Sound(a, disk, remote, released, started)
    BY <1>1, <1>3, <1>6, <1>7, <1>8, <1>9, SoundEvents
  <1>11. a.id = r.id /\ a.todo = {}
    BY <1>1, <1>3, <1>6
  <1>12. UNCHANGED <<disk, keys, remote, started, changes, released>>
    OBVIOUS
  <1> QED BY ONLY IInv, p \in Proc, Runs(proc[p]), <1>4, <1>6, <1>10, <1>11, <1>12, FrameOwn

LEMMA CheckFailsKeeps ==
  ASSUME IInv, NEW p \in Proc, CheckFails(p)
  PROVE  IInv'
  <1> DEFINE r == proc[p]
             may == Allowed(r.mem)
             Refused(S, result) == [r EXCEPT !.phase = "recording", !.fails = TRUE,
                                             !.mem.events = @ \cup Made(r, S, result, FALSE)]
  <1>1. Runs(r) /\ r.phase # "posting" /\ UNCHANGED <<disk, keys, remote, started, changes, released>>
    BY DEF CheckFails, Runs
  <1>2. r.wants \in SUBSET Secret
    BY <1>1, Facts, ProcessFields
  <1>3. PICK s \in r.wants :
         \/ proc' = [proc EXCEPT ![p] =
              Refused(IF r.cmd = "get" THEN {s} \cap r.mem.kept ELSE {s}, "denied")]
         \/ proc' = [proc EXCEPT ![p] = IF r.cmd = "get" THEN Idle ELSE Refused({}, "failed")]
         \/ proc' = [proc EXCEPT ![p] = Refused({s}, "failed")]
    BY DEF CheckFails, Ended
  <1>4. CASE proc' = [proc EXCEPT ![p] = Idle]
    BY <1>1, <1>4, EndKeeps
  <1>5. ASSUME NEW S \in SUBSET Secret, NEW result \in {"denied", "failed"},
               proc' = [proc EXCEPT ![p] = Refused(S, result)]
        PROVE  IInv'
    BY <1>1, <1>5, RefusalKeeps
  <1>6. (IF r.cmd = "get" THEN {s} \cap r.mem.kept ELSE {s}) \in SUBSET Secret
        /\ {s} \in SUBSET Secret /\ {} \in SUBSET Secret
    BY <1>2
  <1> HIDE DEF Refused
  <1> QED BY <1>3, <1>4, <1>5, <1>6

LEMMA CheckPassesKeeps ==
  ASSUME IInv, NEW p \in Proc, CheckPasses(p)
  PROVE  IInv'
  <1> DEFINE r == proc[p]
             next == IF Strict(r) = {} THEN "buffering" ELSE "saving strict"
             a == [r EXCEPT !.phase = next]
  <1>1. /\ Runs(r) /\ r.phase = "checking" /\ proc' = [proc EXCEPT ![p] = a]
        /\ UNCHANGED <<disk, keys, remote, started, changes, released>>
    BY DEF CheckPasses, Runs
  <1>2. /\ r \in Process /\ disk \in StateFile /\ started \in Nat
        /\ Sound(r, disk, remote, released, started) /\ InPhase(r, remote, released)
        /\ r.todo = {} /\ ~r.fails /\ r.left \subseteq r.wants
    BY <1>1, Facts, PhaseFacts
  <1>3. /\ a \in Process /\ a.phase = next /\ a.id = r.id /\ a.wants = r.wants /\ a.todo = r.todo
        /\ a.left = r.left /\ a.fails = r.fails /\ a.cmd = r.cmd /\ a.mem = r.mem
    BY <1>2 DEF Process, Phase
  <1>4. r.wants \subseteq Allowed(r.mem)
    BY DEF CheckPasses, Readable
  <1>5. Strict(a) = Strict(r)
    BY <1>3 DEF Strict
  <1> HIDE DEF a
  <1>6. InPhase(a, remote, released)
    BY <1>1, <1>2, <1>3, <1>4, <1>5 DEF InPhase, Told
  <1>7. Sound(a, disk, remote, released, started)
    BY <1>2, <1>3, <1>6, SoundGoesOn
  <1> QED BY <1>1, <1>2, <1>3, <1>7, FrameOwn

\* What a save of "allowed" events for S writes.
LEMMA AllowedEvents ==
  ASSUME IInv, NEW p \in Proc, Runs(proc[p]), NEW S \in SUBSET Secret
  PROVE  LET r == proc[p]
             M == r.mem.events
             E == M \cup Made(r, S, "allowed", FALSE)
         IN  /\ E \in SUBSET Event /\ M \subseteq E
             /\ Uploads(M) \subseteq Uploads(E) /\ EventsSound(E, remote, started)
             /\ \A e \in E : e \in M \/ (e.by = r.id /\ e.secret \in S /\ ~e.blocks)
             /\ \A s \in S : Has(E, r.id, s)
             /\ NotBlocked(r, E)
             /\ \A e \in E : \/ Upload(e) \in Uploads(M)
                             \/ e.by = r.id /\ (e.blocks => \A x \in released : x.by # r.id)
  <1> DEFINE r == proc[p]
             M == r.mem.events
             N == Made(r, S, "allowed", FALSE)
             E == M \cup N
  <1>1. /\ r \in Process /\ started \in Nat /\ M \in SUBSET Event /\ r.id <= started
        /\ Sound(r, disk, remote, released, started)
    BY Facts
  <1>2. E \in SUBSET Event /\ M \subseteq E /\ EventsSound(E, remote, started)
    <2>1. EventsSound(M, remote, started) /\ NotBlocked(r, M)
      BY <1>1 DEF Sound
    <2>2. "allowed" \in {"allowed", "denied", "failed"} /\ FALSE \in BOOLEAN
      OBVIOUS
    <2> HIDE DEF r, M
    <2> QED BY ONLY <1>1, <2>1, <2>2, S \in SUBSET Secret, AppendedSound
  <1>3. ASSUME NEW e \in N
        PROVE  e.by = r.id /\ e.secret \in S /\ e.result = "allowed" /\ ~e.blocks
    <2>1. e.by = r.id /\ e.secret \in S /\ e.result = "allowed" /\ (e.blocks <=> FALSE) /\ ~e.acked
      BY <1>3, MadeSays
    <2> QED BY <2>1
  <1>4. ASSUME NEW s \in S
        PROVE  \E e \in N : e.secret = s
    <2> DEFINE e == [by |-> r.id, secret |-> s, result |-> "allowed", blocks |-> FALSE, acked |-> FALSE]
    <2>1. e \in N /\ e.secret = s
      BY DEF Made
    <2> QED BY <2>1
  <1> HIDE DEF N
  <1>5. \A s \in S : Has(E, r.id, s)
    BY <1>3, <1>4 DEF Has
  <1>6. NotBlocked(r, E)
    BY <1>1, <1>3 DEF Sound, NotBlocked
  <1>7. Uploads(M) \subseteq Uploads(E)
    BY UploadsGrow
  <1>8. \A e \in E : e \in M \/ (e.by = r.id /\ e.secret \in S /\ ~e.blocks)
    BY <1>3
  <1>9. \A e \in M : Upload(e) \in Uploads(M)
    BY DEF Uploads
  <1> QED BY <1>2, <1>5, <1>6, <1>7, <1>8, <1>9 DEF N

LEMMA SaveStrictKeeps ==
  ASSUME IInv, NEW p \in Proc, SaveStrict(p)
  PROVE  IInv'
  <1> DEFINE r == proc[p]
             M == r.mem.events
             E == M \cup Made(r, Strict(r), "allowed", FALSE)
             T == {w \in Workspace : w \cap Strict(r) # {}}
             good == [r EXCEPT !.phase = "posting", !.todo = T]
             c == [good EXCEPT !.mem.events = E]
  <1>1. /\ Runs(r) /\ r.phase = "saving strict" /\ Save(p, E, good, Idle)
        /\ UNCHANGED <<keys, remote, started, changes, released>>
    BY DEF SaveStrict, Runs, Ended
  <1>2. /\ r \in Process /\ InPhase(r, remote, released) /\ Strict(r) \in SUBSET Secret
        /\ ~r.fails /\ r.left \subseteq r.wants /\ r.cmd # "none"
    BY <1>1, Facts, PhaseFacts
  <1>3. /\ E \in SUBSET Event /\ M \subseteq E
        /\ Uploads(M) \subseteq Uploads(E) /\ EventsSound(E, remote, started)
        /\ \A e \in E : e \in M \/ (e.by = r.id /\ e.secret \in Strict(r) /\ ~e.blocks)
        /\ \A s \in Strict(r) : Has(E, r.id, s)
        /\ NotBlocked(r, E)
        /\ \A e \in E : \/ Upload(e) \in Uploads(M)
                        \/ e.by = r.id /\ (e.blocks => \A x \in released : x.by # r.id)
    BY <1>1, <1>2, AllowedEvents
  <1> HIDE DEF E
  <1>4. /\ good \in Process /\ good.phase = "posting" /\ good.todo = T /\ good.id = r.id
        /\ good.wants = r.wants /\ good.left = r.left /\ good.fails = r.fails
        /\ good.cmd = r.cmd /\ good.mem = r.mem
    BY <1>2 DEF Process, Phase
  <1> HIDE DEF good
  <1>5. /\ c.phase = good.phase /\ c.id = good.id /\ c.wants = good.wants /\ c.todo = good.todo
        /\ c.fails = good.fails /\ c.cmd = good.cmd
        /\ c.mem.events = E /\ c.mem.link = good.mem.link
        /\ c.mem.granted = good.mem.granted /\ c.mem.strict = good.mem.strict
    <2>1. good \in Process /\ E \in SUBSET Event
      BY <1>3, <1>4
    <2> QED BY ONLY <2>1, AfterFields, ZenonT(40)
  <1> HIDE DEF c
  <1>6. Strict(c) = Strict(r) /\ Allowed(c.mem) = Allowed(r.mem)
    BY <1>4, <1>5 DEF Strict, Allowed
  <1>7. InPhase(c, remote, released)
    <2>1. r.wants \subseteq Allowed(r.mem) /\ \A e \in M : e.by # r.id
      BY <1>1, <1>2 DEF InPhase
    <2>2. \A e \in E : e.by = c.id => e.secret \in Strict(c)
      BY <1>3, <1>4, <1>5, <1>6, <2>1
    <2>3. \A e \in Batch(c), w \in Workspace \ c.todo : e.secret \notin w
      BY <1>4, <1>5, <1>6 DEF Batch
    <2>4. \A s \in Strict(c) : Has(c.mem.events, c.id, s)
      BY <1>3, <1>4, <1>5, <1>6
    <2>5. \A x \in released : x.by # c.id
      BY <1>1, <1>2, <1>4, <1>5 DEF InPhase
    <2> QED BY <1>2, <1>4, <1>5, <1>6, <2>1, <2>2, <2>3, <2>4, <2>5 DEF InPhase
  <1>8. NotBlocked(good, E)
    BY <1>3, <1>4 DEF NotBlocked
  <1>9. InPhase([good EXCEPT !.mem.events = E], remote, released)
    BY <1>7 DEF c
  <1>10. /\ Idle \in Process /\ ~Runs(Idle) /\ Idle.todo = {}
    BY IdleType
  <1>11. good.id = r.id /\ good.mem = r.mem /\ good.left \subseteq good.wants /\ good.phase = "posting"
    BY <1>2, <1>4
  <1> HIDE DEF c, T
  <1> QED BY ONLY IInv, p \in Proc, <1>1, <1>3, <1>4, <1>8, <1>9, <1>10, <1>11, SaveKeeps

LEMMA SaveBufferedKeeps ==
  ASSUME IInv, NEW p \in Proc, SaveBuffered(p)
  PROVE  IInv'
  <1> DEFINE r == proc[p]
             M == r.mem.events
             E == M \cup Made(r, Buffered(r), "allowed", FALSE)
             good == [r EXCEPT !.phase = "syncing", !.left = r.wants]
             c == [good EXCEPT !.mem.events = E]
  <1>1. /\ Runs(r) /\ r.phase = "buffering" /\ Save(p, E, good, Idle)
        /\ UNCHANGED <<keys, remote, started, changes, released>>
    BY DEF SaveBuffered, Runs, Ended
  <1>2. /\ r \in Process /\ InPhase(r, remote, released) /\ Buffered(r) \in SUBSET Secret
        /\ M \in SUBSET Event
        /\ ~r.fails /\ r.todo = {} /\ r.wants \in SUBSET Secret /\ r.cmd # "none"
    BY <1>1, Facts, PhaseFacts, ProcessFields
  <1>3. /\ E \in SUBSET Event /\ M \subseteq E
        /\ Uploads(M) \subseteq Uploads(E) /\ EventsSound(E, remote, started)
        /\ \A s \in Buffered(r) : Has(E, r.id, s)
        /\ NotBlocked(r, E)
        /\ \A e \in E : \/ Upload(e) \in Uploads(M)
                        \/ e.by = r.id /\ (e.blocks => \A x \in released : x.by # r.id)
    BY <1>1, <1>2, AllowedEvents
  <1> HIDE DEF E
  <1>4. /\ good \in Process /\ good.phase = "syncing" /\ good.todo = {} /\ good.id = r.id
        /\ good.wants = r.wants /\ good.left = r.wants /\ good.fails = r.fails
        /\ good.cmd = r.cmd /\ good.mem = r.mem
    BY <1>2 DEF Process, Phase
  <1> HIDE DEF good
  <1>5. /\ c.phase = good.phase /\ c.id = good.id /\ c.wants = good.wants /\ c.todo = good.todo
        /\ c.fails = good.fails /\ c.cmd = good.cmd
        /\ c.mem.events = E /\ c.mem.link = good.mem.link
        /\ c.mem.granted = good.mem.granted /\ c.mem.strict = good.mem.strict
    <2>1. good \in Process /\ E \in SUBSET Event
      BY <1>3, <1>4
    <2> QED BY ONLY <2>1, AfterFields, ZenonT(40)
  <1> HIDE DEF c
  <1>6. Strict(c) = Strict(r)
    BY <1>4, <1>5 DEF Strict
  <1>7. InPhase(c, remote, released)
    <2>1. Told(r, remote) /\ \A s \in Strict(r) : Has(M, r.id, s)
      BY <1>1, <1>2 DEF InPhase
    <2>2. Told(c, remote)
      BY <2>1, <1>4, <1>5, <1>6 DEF Told
    <2>3. \A s \in Strict(r) : Has(E, r.id, s)
      BY <2>1, <1>3 DEF Has
    <2>4. \A s \in c.wants : Has(c.mem.events, c.id, s)
      BY <1>3, <1>4, <1>5, <2>3 DEF Strict, Buffered
    <2> QED BY <1>2, <1>4, <1>5, <2>2, <2>4 DEF InPhase
  <1>8. NotBlocked(good, E)
    BY <1>3, <1>4 DEF NotBlocked
  <1>9. InPhase([good EXCEPT !.mem.events = E], remote, released)
    BY <1>7 DEF c
  <1>10. /\ Idle \in Process /\ ~Runs(Idle) /\ Idle.todo = {}
    BY IdleType
  <1>11. good.id = r.id /\ good.mem = r.mem /\ good.left \subseteq good.wants /\ good.todo = {}
    BY <1>2, <1>4
  <1> QED BY ONLY IInv, p \in Proc, <1>1, <1>3, <1>4, <1>8, <1>9, <1>10, <1>11, SaveKeeps

\* What is posted: of the strict batch.
LEMMA BatchFacts ==
  ASSUME IInv, NEW p \in Proc, Runs(proc[p])
  PROVE  /\ Batch(proc[p]) \subseteq proc[p].mem.events
         /\ \A e \in Batch(proc[p]) : /\ e.by = proc[p].id /\ e.result = "allowed"
                                     /\ e.secret \in Strict(proc[p])
  BY DEF Batch

LEMMA PostKeeps ==
  ASSUME IInv, NEW p \in Proc, Post(p)
  PROVE  IInv'
  <1> DEFINE r == proc[p]
  <1>1. /\ Runs(r) /\ r.phase = "posting" /\ UNCHANGED <<disk, keys, started, changes, released>>
        /\ \A e \in Batch(r) : Attributable(e)
    BY DEF Post, Runs
  <1>2. PICK w \in r.todo :
          /\ remote' = remote \cup {Upload(e) : e \in InWorkspace(Batch(r), w)}
          /\ proc' = [proc EXCEPT ![p].todo = @ \ {w},
                                  ![p].phase = IF r.todo = {w} THEN "marking" ELSE "posting"]
    BY DEF Post
  <1> DEFINE next == IF r.todo = {w} THEN "marking" ELSE "posting"
             a == [r EXCEPT !.todo = r.todo \ {w}, !.phase = next]
             T == InWorkspace(Batch(r), w)
  <1>3. /\ r \in Process /\ disk \in StateFile /\ started \in Nat /\ r.mem.events \in SUBSET Event
        /\ disk.events \in SUBSET Event
        /\ Sound(r, disk, remote, released, started) /\ InPhase(r, remote, released)
        /\ ~r.fails /\ r.left \subseteq r.wants /\ r.todo \in SUBSET Workspace
    BY <1>1, Facts, PhaseFacts, ProcessFields
  <1>4. /\ a \in Process /\ a.phase = next /\ a.todo = r.todo \ {w} /\ a.id = r.id
        /\ a.wants = r.wants /\ a.left = r.left /\ a.fails = r.fails /\ a.cmd = r.cmd /\ a.mem = r.mem
    BY <1>3 DEF Process, Phase
  <1>5. proc' = [proc EXCEPT ![p] = a]
    <2>1. proc \in [Proc -> Process]
      BY DEF IInv, TypeOK
    <2> QED BY <1>2, <2>1 DEF Process
  <1> HIDE DEF a
  <1>6. Strict(a) = Strict(r) /\ Allowed(a.mem) = Allowed(r.mem) /\ Batch(a) = Batch(r)
    BY <1>4 DEF Strict, Allowed, Batch
  <1>7. InPhase(a, remote', released)
    <2>1. /\ r.wants \subseteq Allowed(r.mem)
          /\ \A e \in r.mem.events : e.by = r.id /\ e.result = "allowed" => e.secret \in Strict(r)
          /\ \A s \in Strict(r) : Has(r.mem.events, r.id, s)
          /\ \A e \in Batch(r), v \in Workspace \ r.todo : e.secret \in v => Upload(e) \in remote
          /\ \A x \in released : x.by # r.id
          /\ r.cmd # "none"
      BY <1>1, <1>3 DEF InPhase
    <2>2. \A e \in Batch(a), v \in Workspace \ a.todo : e.secret \in v => Upload(e) \in remote'
      <3> SUFFICES ASSUME NEW e \in Batch(r), NEW v \in Workspace \ a.todo, e.secret \in v
                   PROVE  Upload(e) \in remote'
        BY <1>6
      <3>1. CASE v = w
        BY <3>1, <1>2 DEF InWorkspace
      <3>2. CASE v # w
        BY <3>2, <1>2, <1>4, <2>1
      <3> QED BY <3>1, <3>2
    <2>3. next = "marking" => \A e \in Batch(a) : Upload(e) \in remote'
      <3> SUFFICES ASSUME next = "marking", NEW e \in Batch(r)
                   PROVE  Upload(e) \in remote'
        BY <1>6
      <3>1. PICK v \in Workspace : e.secret \in v
        BY <1>1 DEF Attributable
      <3>2. a.todo = {}
        BY <1>4
      <3> QED BY <2>2, <3>1, <3>2, <1>6
    <2> QED BY <1>3, <1>4, <1>6, <2>1, <2>2, <2>3 DEF InPhase
  <1>8. Sound(a, disk, remote', released, started)
    <2>1. InPhase(r, remote', released)
      BY <1>2, <1>3, InPhaseCarries
    <2>2. Sound(r, disk, remote', released, started)
      <3>1. NotBlocked(r, disk.events) /\ remote \subseteq remote'
        BY <1>2, <1>3 DEF Sound
      <3> QED BY <1>3, <3>1, SoundCarries
    <2> QED BY <1>3, <1>4, <1>7, <2>2, SoundGoesOn
  <1>9. T \in SUBSET r.mem.events
    BY <1>1, BatchFacts DEF InWorkspace
  <1>10. a.todo # {} => a.phase = "posting"
    BY <1>2, <1>4
  <1>11. remote' = remote \cup {Upload(e) : e \in T} /\ a.id = r.id
    BY <1>2, <1>4
  <1> HIDE DEF T, next
  <1> QED BY ONLY IInv, p \in Proc, <1>1, <1>4, <1>5, <1>8, <1>9, <1>10, <1>11, FrameTells

LEMMA PostFailsKeeps ==
  ASSUME IInv, NEW p \in Proc, PostFails(p)
  PROVE  IInv'
  <1> DEFINE r == proc[p]
             a == [r EXCEPT !.phase = "blocking", !.todo = {}]
  <1>1. /\ Runs(r) /\ r.phase = "posting" /\ UNCHANGED <<disk, keys, started, changes, released>>
        /\ proc' = [proc EXCEPT ![p].phase = "blocking", ![p].todo = {}]
    BY DEF PostFails, Runs
  <1>2. PICK T \in SUBSET Batch(r) : remote' = remote \cup {Upload(e) : e \in T}
    <2>1. CASE UNCHANGED remote
      <3>1. remote' = remote \cup {Upload(e) : e \in {}}
        BY <2>1
      <3> QED BY <3>1
    <2>2. CASE \E w \in r.todo : \E E \in SUBSET InWorkspace(Batch(r), w) :
                 remote' = remote \cup {Upload(e) : e \in E}
      <3>1. PICK w \in r.todo : \E E \in SUBSET InWorkspace(Batch(r), w) :
                 remote' = remote \cup {Upload(e) : e \in E}
        BY <2>2
      <3>2. PICK E \in SUBSET InWorkspace(Batch(r), w) :
                 remote' = remote \cup {Upload(e) : e \in E}
        BY <3>1
      <3>3. E \in SUBSET Batch(r)
        BY DEF InWorkspace
      <3> QED BY <3>2, <3>3
    <2> QED BY <2>1, <2>2 DEF PostFails
  <1>3. /\ r \in Process /\ disk \in StateFile /\ started \in Nat
        /\ Sound(r, disk, remote, released, started) /\ InPhase(r, remote, released)
        /\ ~r.fails /\ r.left \subseteq r.wants
    BY <1>1, Facts, PhaseFacts
  <1>4. /\ a \in Process /\ a.phase = "blocking" /\ a.todo = {} /\ a.id = r.id
        /\ a.wants = r.wants /\ a.left = r.left /\ a.fails = r.fails /\ a.cmd = r.cmd /\ a.mem = r.mem
    BY <1>3 DEF Process, Phase
  <1>5. proc' = [proc EXCEPT ![p] = a]
    <2>1. proc \in [Proc -> Process]
      BY DEF IInv, TypeOK
    <2> QED BY <1>1, <2>1 DEF Process
  <1> HIDE DEF a
  <1>6. InPhase(a, remote', released)
    <2>1. Strict(a) = Strict(r)
      BY <1>4 DEF Strict
    <2> QED BY <1>1, <1>3, <1>4, <2>1 DEF InPhase
  <1>7. Sound(r, disk, remote', released, started)
    <2>1. NotBlocked(r, disk.events) /\ remote \subseteq remote'
      BY <1>2, <1>3 DEF Sound
    <2> QED BY <1>3, <2>1, SoundCarries
  <1>8. Sound(a, disk, remote', released, started)
    BY <1>3, <1>4, <1>6, <1>7, SoundGoesOn
  <1>9. T \in SUBSET r.mem.events
    BY <1>1, <1>2, BatchFacts
  <1>10. a.todo = {} /\ a.id = r.id
    BY <1>4
  <1> QED BY ONLY IInv, p \in Proc, <1>1, <1>2, <1>4, <1>5, <1>8, <1>9, <1>10, FrameTells

LEMMA BlockKeeps ==
  ASSUME IInv, NEW p \in Proc, Block(p)
  PROVE  IInv'
  <1> DEFINE r == proc[p]
             M == r.mem.events
             N == Made(r, Strict(r), "failed", TRUE)
             E == M \cup N
  <1>1. /\ Runs(r) /\ r.phase = "blocking" /\ Save(p, E, Idle, Idle)
        /\ UNCHANGED <<keys, remote, started, changes, released>>
    BY DEF Block, Runs, Ended
  <1>2. /\ r \in Process /\ started \in Nat /\ M \in SUBSET Event /\ r.id <= started
        /\ Sound(r, disk, remote, released, started) /\ InPhase(r, remote, released)
        /\ Strict(r) \in SUBSET Secret
    BY <1>1, Facts
  <1>3. E \in SUBSET Event /\ M \subseteq E /\ EventsSound(E, remote, started)
    <2>1. /\ EventsSound(M, remote, started) /\ NotBlocked(r, M)
          /\ \A e \in M : e.by = r.id /\ e.result = "allowed" => e.secret \in Strict(r)
      BY <1>1, <1>2 DEF Sound, InPhase
    <2>2. "failed" \in {"allowed", "denied", "failed"} /\ TRUE \in BOOLEAN /\ "failed" # "allowed"
      OBVIOUS
    <2> HIDE DEF r, M
    <2> QED BY ONLY <1>2, <2>1, <2>2, AppendedSound
  <1>4. \A e \in E : \/ Upload(e) \in Uploads(M)
                     \/ e.by = r.id /\ (e.blocks => \A x \in released : x.by # r.id)
    <2>1. \A x \in released : x.by # r.id
      BY <1>1, <1>2 DEF InPhase
    <2>2. ASSUME NEW e \in N
          PROVE  e.by = r.id
      <3>1. e.by = r.id /\ e.secret \in Strict(r) /\ e.result = "failed" /\ (e.blocks <=> TRUE) /\ ~e.acked
        BY <2>2, MadeSays
      <3> QED BY <3>1
    <2> HIDE DEF N
    <2> QED BY <2>1, <2>2 DEF Uploads
  <1>5. Uploads(M) \subseteq Uploads(E)
    BY UploadsGrow
  <1>6. Idle \in Process /\ ~Runs(Idle) /\ Idle.todo = {}
    BY IdleType
  <1> HIDE DEF E
  <1> QED BY ONLY IInv, p \in Proc, <1>1, <1>3, <1>4, <1>5, <1>6, SaveKeeps

\* Marks change no upload, so that what was on record still is.
LEMMA MarkedHas ==
  ASSUME NEW E \in SUBSET Event, NEW acks, NEW n, NEW s, Has(E, n, s)
  PROVE  Has(Marked(E, acks), n, s)
  <1>1. Marked(E, acks) \in SUBSET Event /\ Uploads(E) \subseteq Uploads(Marked(E, acks))
    BY MarkedFacts
  <1> QED BY <1>1, HasCarries

LEMMA MarkedSays ==
  ASSUME NEW E \in SUBSET Event, NEW acks, NEW f \in Marked(E, acks)
  PROVE  /\ Upload(f) \in Uploads(E)
         /\ \E e \in E : /\ Upload(e) = Upload(f) /\ e.by = f.by /\ e.secret = f.secret
                         /\ e.result = f.result /\ e.blocks = f.blocks
  <1> DEFINE F == Marked(E, acks)
  <1>1. F \in SUBSET Event /\ Uploads(F) = Uploads(E) /\ f \in F
    BY MarkedFacts
  <1>2. Upload(f) \in Uploads(E)
    BY <1>1 DEF Uploads
  <1> HIDE DEF F
  <1>3. \E e \in E : /\ Upload(e) = Upload(f) /\ e.by = f.by /\ e.secret = f.secret
                     /\ e.result = f.result /\ e.blocks = f.blocks
    BY ONLY <1>1, <1>2, E \in SUBSET Event, UploadsCarry
  <1> QED BY <1>2, <1>3

LEMMA MarkAckedKeeps ==
  ASSUME IInv, NEW p \in Proc, MarkAcked(p)
  PROVE  IInv'
  <1> DEFINE r == proc[p]
             M == r.mem.events
             acks == {Upload(e) : e \in Batch(r)}
             E == Marked(M, acks)
             good == AfterStrict(r)
             bad == [r EXCEPT !.phase = "blocking"]
             c == [good EXCEPT !.mem.events = E]
             d == [bad EXCEPT !.mem.events = E]
  <1>1. /\ Runs(r) /\ r.phase = "marking" /\ Save(p, E, good, bad)
        /\ UNCHANGED <<keys, remote, started, changes, released>>
    BY DEF MarkAcked, Runs
  <1>2. /\ r \in Process /\ started \in Nat /\ M \in SUBSET Event
        /\ Sound(r, disk, remote, released, started) /\ InPhase(r, remote, released)
        /\ ~r.fails /\ r.left \subseteq r.wants /\ r.todo = {} /\ r.wants \in SUBSET Secret
        /\ Strict(r) \in SUBSET Secret /\ r.cmd # "none"
    BY <1>1, Facts, PhaseFacts, ProcessFields
  <1>3. E \in SUBSET Event /\ Uploads(E) = Uploads(M) /\ EventsSound(E, remote, started)
    <2>1. acks \subseteq remote /\ EventsSound(M, remote, started)
      BY <1>1, <1>2 DEF InPhase, Sound
    <2> HIDE DEF acks, M
    <2>2. E \in SUBSET Event /\ Uploads(E) = Uploads(M)
      BY <1>2, MarkedFacts
    <2>3. EventsSound(E, remote, started)
      BY <1>2, <2>1, MarkedSound
    <2> QED BY <2>2, <2>3
  <1>4. \A f \in E : /\ Upload(f) \in Uploads(M)
                     /\ \E e \in M : /\ Upload(e) = Upload(f) /\ e.by = f.by /\ e.secret = f.secret
                                     /\ e.result = f.result /\ e.blocks = f.blocks
    <2>1. M \in SUBSET Event
      BY <1>2
    <2> SUFFICES ASSUME NEW f \in E
                 PROVE  /\ Upload(f) \in Uploads(M)
                        /\ \E e \in M : /\ Upload(e) = Upload(f) /\ e.by = f.by /\ e.secret = f.secret
                                        /\ e.result = f.result /\ e.blocks = f.blocks
      OBVIOUS
    <2> HIDE DEF M, acks
    <2> QED BY ONLY <2>1, f \in E, MarkedSays
  <1>5. \A s \in Strict(r) : Has(M, r.id, s) /\ Has(E, r.id, s)
    BY <1>1, <1>2, MarkedHas DEF InPhase
  <1>6. Told(r, remote)
    <2> SUFFICES ASSUME NEW s \in Strict(r)
                 PROVE  Has(remote, r.id, s)
      BY DEF Told
    <2>1. PICK e \in M : e.by = r.id /\ e.secret = s /\ e.result = "allowed"
      BY <1>5 DEF Has
    <2>2. e \in Batch(r)
      BY <2>1 DEF Batch
    <2>3. Upload(e) \in remote
      BY <1>1, <1>2, <2>2 DEF InPhase
    <2>4. Upload(e).by = e.by /\ Upload(e).secret = e.secret /\ Upload(e).result = e.result
      BY <1>2, UploadFields
    <2> QED BY <2>1, <2>3, <2>4 DEF Has
  <1> HIDE DEF E, acks
  <1>7. /\ good \in Process /\ good.todo = {} /\ good.id = r.id /\ good.wants = r.wants
        /\ good.left \subseteq r.wants /\ good.fails = r.fails /\ good.cmd = r.cmd /\ good.mem = r.mem
        /\ IF Buffered(r) = {} THEN good.phase = "reading" ELSE good.phase = "buffering"
    BY <1>2 DEF AfterStrict, Process, Phase
  <1>8. /\ bad \in Process /\ bad.phase = "blocking" /\ bad.todo = {} /\ bad.id = r.id
        /\ bad.wants = r.wants /\ bad.left = r.left /\ bad.fails = r.fails /\ bad.cmd = r.cmd
        /\ bad.mem = r.mem
    BY <1>2 DEF Process, Phase
  <1> HIDE DEF good, bad
  <1>9. /\ c.phase = good.phase /\ c.id = good.id /\ c.wants = good.wants /\ c.todo = good.todo
        /\ c.fails = good.fails /\ c.cmd = good.cmd
        /\ c.mem.events = E /\ c.mem.link = good.mem.link
        /\ c.mem.granted = good.mem.granted /\ c.mem.strict = good.mem.strict
    <2>1. good \in Process /\ E \in SUBSET Event
      BY <1>3, <1>7
    <2> QED BY ONLY <2>1, AfterFields, ZenonT(40)
  <1>10. /\ d.phase = bad.phase /\ d.id = bad.id /\ d.wants = bad.wants /\ d.todo = bad.todo
         /\ d.fails = bad.fails /\ d.cmd = bad.cmd
         /\ d.mem.events = E /\ d.mem.link = bad.mem.link
         /\ d.mem.granted = bad.mem.granted /\ d.mem.strict = bad.mem.strict
    <2>1. bad \in Process /\ E \in SUBSET Event
      BY <1>3, <1>8
    <2> QED BY ONLY <2>1, AfterFields, ZenonT(40)
  <1> HIDE DEF c, d
  <1>11. /\ Strict(c) = Strict(r) /\ Allowed(c.mem) = Allowed(r.mem)
         /\ Strict(d) = Strict(r)
    BY <1>7, <1>8, <1>9, <1>10 DEF Strict, Allowed
  <1>12. /\ r.wants \subseteq Allowed(r.mem) /\ \A x \in released : x.by # r.id
         /\ \A e \in M : e.by = r.id /\ e.result = "allowed" => e.secret \in Strict(r)
    BY <1>1, <1>2 DEF InPhase
  <1>13. InPhase(c, remote, released)
    <2>1. Told(c, remote) /\ \A s \in Strict(c) : Has(c.mem.events, c.id, s)
      BY <1>5, <1>6, <1>7, <1>9, <1>11 DEF Told
    <2>2. Buffered(r) = {} => c.wants \subseteq Strict(c)
      BY <1>7, <1>9, <1>11 DEF Buffered, Strict
    <2> QED BY <1>2, <1>7, <1>9, <1>11, <1>12, <2>1, <2>2 DEF InPhase
  <1>14. InPhase(d, remote, released)
    <2>1. \A e \in E : e.by = r.id /\ e.result = "allowed" => e.secret \in Strict(r)
      BY <1>4, <1>12
    <2> QED BY <1>2, <1>8, <1>10, <1>11, <1>12, <2>1 DEF InPhase
  <1>15. NotBlocked(good, E)
    BY <1>2, <1>4, <1>7 DEF Sound, NotBlocked
  <1>16. /\ InPhase([good EXCEPT !.mem.events = E], remote, released)
         /\ InPhase([bad EXCEPT !.mem.events = E], remote, released)
    BY <1>13, <1>14 DEF c, d
  <1>17. /\ good.id = r.id /\ good.mem = r.mem /\ good.left \subseteq good.wants /\ good.todo = {}
         /\ bad.id = r.id /\ bad.mem = r.mem /\ bad.left \subseteq bad.wants /\ bad.todo = {}
    BY <1>2, <1>7, <1>8
  <1>18. /\ Uploads(M) \subseteq Uploads(E) /\ Uploads(E) \subseteq Uploads(M)
         /\ \A f \in E : Upload(f) \in Uploads(M)
    BY <1>3, <1>4
  <1> QED BY ONLY IInv, p \in Proc, <1>1, <1>3, <1>7, <1>8, <1>15, <1>16, <1>17, <1>18, SaveKeeps

\* A save of what is in memory, after which the process is at the phase next
\* whether it succeeded or not, and relies on no more than before.
LEMMA ResaveKeeps ==
  ASSUME IInv, NEW p \in Proc, Runs(proc[p]), NEW a \in Process,
         Save(p, proc[p].mem.events, a, a),
         UNCHANGED <<keys, remote, started, changes, released>>,
         a.todo = {},
         Runs(a) => /\ a.id = proc[p].id /\ a.mem = proc[p].mem /\ a.left \subseteq a.wants
                    /\ InPhase(a, remote, released)
  PROVE  IInv'
  <1> DEFINE r == proc[p]
             M == r.mem.events
             c == [a EXCEPT !.mem.events = M]
  <1>1. /\ M \in SUBSET Event /\ started \in Nat /\ Sound(r, disk, remote, released, started)
    BY Facts
  <1>2. \A e \in M : Upload(e) \in Uploads(M)
    BY DEF Uploads
  <1>3. EventsSound(M, remote, started) /\ NotBlocked(r, M)
    BY <1>1 DEF Sound
  <1>4. Runs(a) => InPhase([a EXCEPT !.mem.events = M], remote, released) /\ NotBlocked(a, M)
    <2> SUFFICES ASSUME Runs(a)
                 PROVE  InPhase(c, remote, released) /\ NotBlocked(a, M)
      OBVIOUS
    <2>1. /\ c.phase = a.phase /\ c.id = a.id /\ c.wants = a.wants /\ c.todo = a.todo
          /\ c.fails = a.fails /\ c.cmd = a.cmd
          /\ c.mem.events = M /\ c.mem.link = a.mem.link
          /\ c.mem.granted = a.mem.granted /\ c.mem.strict = a.mem.strict
      <3> HIDE DEF M
      <3> QED BY ONLY a \in Process, <1>1, AfterFields, ZenonT(40)
    <2> HIDE DEF c
    <2>2. InPhase(c, remote, released)
      <3>1. c.mem.events = a.mem.events
        BY <2>1
      <3> QED BY <2>1, <3>1, InPhaseOf
    <2>3. NotBlocked(a, M)
      BY <1>3 DEF NotBlocked
    <2> QED BY <2>2, <2>3
  <1> QED BY <1>1, <1>2, <1>3, <1>4, SaveKeeps

LEMMA RecordKeeps ==
  ASSUME IInv, NEW p \in Proc, Record(p)
  PROVE  IInv'
  <1> DEFINE r == proc[p]
             a == [r EXCEPT !.phase = "syncing"]
  <1>1. /\ Runs(r) /\ r.phase = "recording" /\ Save(p, r.mem.events, a, a)
        /\ UNCHANGED <<keys, remote, started, changes, released>>
    BY DEF Record, Runs
  <1>2. /\ r \in Process /\ InPhase(r, remote, released)
        /\ r.left \subseteq r.wants /\ r.todo = {} /\ r.cmd # "none"
    BY <1>1, Facts, PhaseFacts
  <1>3. /\ a \in Process /\ a.phase = "syncing" /\ a.id = r.id /\ a.wants = r.wants /\ a.todo = {}
        /\ a.left = r.left /\ a.fails = r.fails /\ a.cmd = r.cmd /\ a.mem = r.mem
    BY <1>2 DEF Process, Phase
  <1> HIDE DEF a
  <1>4. InPhase(a, remote, released)
    BY <1>1, <1>2, <1>3 DEF InPhase
  <1>5. a.left \subseteq a.wants
    BY <1>2, <1>3
  <1> QED BY ONLY IInv, p \in Proc, <1>1, <1>3, <1>4, <1>5, ResaveKeeps

\* What syncing or keeping ends in.
LEMMA AfterSyncFacts ==
  ASSUME NEW r \in Process, NEW rem, NEW rel, InPhase(r, rem, rel),
         r.phase \in {"syncing", "keeping"}, r.todo = {}, r.left \subseteq r.wants
  PROVE  LET a == AfterSync(r)
         IN  /\ a \in Process /\ a.todo = {}
             /\ Runs(a) => /\ a.id = r.id /\ a.mem = r.mem /\ a.left \subseteq a.wants
                           /\ InPhase(a, rem, rel)
  <1>1. CASE r.fails
    BY <1>1, IdleType DEF AfterSync, Ended
  <1>2. CASE ~r.fails
    <2> DEFINE a == [r EXCEPT !.phase = "reading"]
    <2>1. /\ a \in Process /\ a.phase = "reading" /\ a.id = r.id /\ a.wants = r.wants /\ a.todo = {}
          /\ a.left = r.left /\ a.fails = r.fails /\ a.cmd = r.cmd /\ a.mem = r.mem
      BY DEF Process, Phase
    <2>2. AfterSync(r) = a
      BY <1>2 DEF AfterSync
    <2> HIDE DEF a
    <2>3. Strict(a) = Strict(r)
      BY <2>1 DEF Strict
    <2>4. Told(a, rem) /\ \A s \in a.wants : Has(a.mem.events, a.id, s)
      BY <1>2, <2>1, <2>3 DEF InPhase, Told
    <2>5. InPhase(a, rem, rel)
      BY <1>2, <2>1, <2>4 DEF InPhase
    <2> QED BY <2>1, <2>2, <2>5
  <1> QED BY <1>1, <1>2

LEMMA KeepKeeps ==
  ASSUME IInv, NEW p \in Proc, Keep(p)
  PROVE  IInv'
  <1> DEFINE r == proc[p]
             a == AfterSync(r)
  <1>1. /\ Runs(r) /\ r.phase = "keeping" /\ Save(p, r.mem.events, a, a)
        /\ UNCHANGED <<keys, remote, started, changes, released>>
    BY DEF Keep, Runs
  <1>2. /\ r \in Process /\ InPhase(r, remote, released) /\ r.left \subseteq r.wants /\ r.todo = {}
    BY <1>1, Facts, PhaseFacts
  <1>3. /\ a \in Process /\ a.todo = {}
        /\ Runs(a) => /\ a.id = r.id /\ a.mem = r.mem /\ a.left \subseteq a.wants
                      /\ InPhase(a, remote, released)
    BY <1>1, <1>2, AfterSyncFacts
  <1> HIDE DEF a
  <1> QED BY ONLY IInv, p \in Proc, <1>1, <1>3, ResaveKeeps

LEMMA SyncKeeps ==
  ASSUME IInv, NEW p \in Proc, Sync(p)
  PROVE  IInv'
  <1> DEFINE r == proc[p]
             M == r.mem.events
             U == {Upload(e) : e \in Pending(r.mem)}
  <1>1. /\ Runs(r) /\ r.phase = "syncing" /\ UNCHANGED <<disk, keys, started, changes, released>>
    BY DEF Sync, Runs
  <1>2. PICK sent \in SUBSET U, acks \in SUBSET U :
          /\ acks \subseteq sent
          /\ remote' = remote \cup sent
          /\ proc' = [proc EXCEPT ![p] =
               IF acks = {} THEN AfterSync(r)
               ELSE [r EXCEPT !.phase = "keeping", !.mem.events = Marked(@, acks)]]
    BY DEF Sync
  <1>3. /\ r \in Process /\ disk \in StateFile /\ started \in Nat /\ M \in SUBSET Event
        /\ disk.events \in SUBSET Event
        /\ Sound(r, disk, remote, released, started) /\ InPhase(r, remote, released)
        /\ r.left \subseteq r.wants /\ r.todo = {} /\ r.cmd # "none"
    BY <1>1, Facts, PhaseFacts
  <1> DEFINE T == {e \in Pending(r.mem) : Upload(e) \in sent}
  <1>4. T \in SUBSET M /\ remote' = remote \cup {Upload(e) : e \in T}
    <2>1. T \in SUBSET M
      BY DEF Pending
    <2>2. sent = {Upload(e) : e \in T}
      OBVIOUS
    <2> QED BY <1>2, <2>1, <2>2
  <1>5. Sound(r, disk, remote', released, started) /\ InPhase(r, remote', released)
    <2>1. NotBlocked(r, disk.events) /\ remote \subseteq remote'
      BY <1>2, <1>3 DEF Sound
    <2>2. Sound(r, disk, remote', released, started)
      BY <1>3, <2>1, SoundCarries
    <2> QED BY <2>2 DEF Sound
  <1> HIDE DEF T
  <1>6. CASE acks = {}
    <2> DEFINE a == AfterSync(r)
    <2>1. /\ a \in Process /\ a.todo = {}
          /\ Runs(a) => /\ a.id = r.id /\ a.mem = r.mem /\ a.left \subseteq a.wants
                        /\ InPhase(a, remote', released)
      BY <1>1, <1>3, <1>5, AfterSyncFacts
    <2>2. proc' = [proc EXCEPT ![p] = a]
      BY <1>2, <1>6
    <2> HIDE DEF a
    <2>3. Runs(a) => a.id = r.id /\ Sound(a, disk, remote', released, started)
      BY <1>3, <1>5, <2>1, SoundGoesOn
    <2> QED BY ONLY IInv, p \in Proc, <1>1, <1>4, <2>1, <2>2, <2>3, FrameTells
  <1>7. CASE acks # {}
    <2> DEFINE E == Marked(M, acks)
               b == [r EXCEPT !.phase = "keeping"]
               a == [b EXCEPT !.mem.events = E]
    <2>1. proc' = [proc EXCEPT ![p] = a]
      <3>1. a = [r EXCEPT !.phase = "keeping", !.mem.events = Marked(@, acks)]
        OBVIOUS
      <3> QED BY <1>2, <1>7, <3>1
    <2>2. E \in SUBSET Event /\ Uploads(E) = Uploads(M)
      <3> HIDE DEF M
      <3> QED BY <1>3, MarkedFacts
    <2>3. EventsSound(E, remote', started)
      <3>1. acks \subseteq remote' /\ EventsSound(M, remote', started)
        BY <1>2, <1>5 DEF Sound
      <3> HIDE DEF M
      <3> QED BY <1>3, <3>1, MarkedSound
    <2>4. /\ b \in Process /\ b.phase = "keeping" /\ b.id = r.id /\ b.wants = r.wants /\ b.todo = {}
          /\ b.left = r.left /\ b.fails = r.fails /\ b.cmd = r.cmd /\ b.mem = r.mem
      BY <1>3 DEF Process, Phase
    <2>5. \A s : Has(M, r.id, s) => Has(E, r.id, s)
      <3> HIDE DEF M
      <3> QED BY <1>3, MarkedHas
    <2> HIDE DEF b, E
    <2>6. /\ a \in Process /\ a.phase = b.phase /\ a.id = b.id /\ a.wants = b.wants /\ a.todo = b.todo
          /\ a.left = b.left /\ a.fails = b.fails /\ a.cmd = b.cmd
          /\ a.mem.events = E /\ a.mem.stamp = b.mem.stamp /\ a.mem.link = b.mem.link
          /\ a.mem.granted = b.mem.granted /\ a.mem.strict = b.mem.strict
      BY ONLY <2>2, <2>4, AfterFields
    <2> HIDE DEF a
    <2>7. InPhase(a, remote', released)
      <3>1. Strict(a) = Strict(r)
        BY <2>4, <2>6 DEF Strict
      <3>2. ~r.fails => Told(a, remote') /\ \A s \in a.wants : Has(a.mem.events, a.id, s)
        BY <1>1, <1>5, <2>4, <2>5, <2>6, <3>1 DEF InPhase, Told
      <3> QED BY <1>3, <2>4, <2>6, <3>2 DEF InPhase
    <2>8. \A e \in E : Upload(e) \in Uploads(M) /\ (e.acked => Upload(e) \in remote')
      BY <2>2, <2>3 DEF Uploads, EventsSound
    <2>9. /\ a.id = r.id /\ a.left \subseteq a.wants /\ a.mem.stamp = r.mem.stamp
          /\ a.mem.link = r.mem.link /\ a.mem.granted = r.mem.granted
          /\ Uploads(M) \subseteq Uploads(a.mem.events) /\ a.mem.events = E /\ a.todo = {}
      BY <1>3, <2>2, <2>4, <2>6
    <2>10. Sound(a, disk, remote', released, started)
      BY <1>3, <1>5, <2>6, <2>7, <2>8, <2>9, SoundEvents
    <2> QED BY ONLY IInv, p \in Proc, <1>1, <1>4, <2>1, <2>6, <2>9, <2>10, FrameTells
  <1> QED BY <1>6, <1>7

\* What a release says of the command.
LEMMA ReleasesFacts ==
  ASSUME IInv, NEW p \in Proc, Runs(proc[p]), NEW S \in SUBSET Secret
  PROVE  /\ Releases(proc[p], S) \subseteq Released
         /\ \A x \in Releases(proc[p], S) :
              /\ x.by = proc[p].id /\ x.cmd = proc[p].cmd /\ x.secret \in S
              /\ x.strict => x.secret \in proc[p].mem.strict
              /\ disk.stamp = proc[p].mem.stamp => x.live
  <1>1. proc[p].id \in Nat /\ proc[p].cmd \in {"get", "run", "mount"}
    BY Facts, PhaseFacts, ProcessFields
  <1> DEFINE r == proc[p]
             New(s) == [secret |-> s, by |-> r.id, cmd |-> r.cmd, strict |-> s \in r.mem.strict,
                        live |-> disk.stamp = r.mem.stamp]
  <1>2. ASSUME NEW s \in S
        PROVE  /\ New(s) \in Released
               /\ New(s).by = r.id /\ New(s).cmd = r.cmd /\ New(s).secret = s
               /\ New(s).strict => s \in r.mem.strict
               /\ disk.stamp = r.mem.stamp => New(s).live
    <2>1. New(s) \in Released
      BY <1>1 DEF Released
    <2>2. New(s).by = r.id /\ New(s).cmd = r.cmd /\ New(s).secret = s
      OBVIOUS
    <2>3. New(s).strict => s \in r.mem.strict
      OBVIOUS
    <2>4. disk.stamp = r.mem.stamp => New(s).live
      OBVIOUS
    <2> QED BY <2>1, <2>2, <2>3, <2>4
  <1>3. Releases(r, S) = {New(s) : s \in S}
    BY DEF Releases
  <1> HIDE DEF New
  <1> QED BY <1>2, <1>3

\* What a command that reads or finishes may release.
LEMMA MayRelease ==
  ASSUME IInv, NEW p \in Proc, proc[p].phase \in {"reading", "finishing"},
         NEW S \in SUBSET proc[p].wants,
         proc[p].cmd = "run" => disk.stamp = proc[p].mem.stamp
  PROVE  /\ released \cup Releases(proc[p], S) \subseteq Released
         /\ \A x \in (released \cup Releases(proc[p], S)) \ released : x.by = proc[p].id
         /\ ReleasedSound(remote, released \cup Releases(proc[p], S), started)
  <1> DEFINE r == proc[p]
             R == Releases(r, S)
  <1>1. /\ Runs(r) /\ ~r.fails
    BY Facts, PhaseFacts DEF Runs
  <1>2. /\ r \in Process /\ started \in Nat /\ r.id <= started /\ released \subseteq Released
        /\ InPhase(r, remote, released) /\ ReleasedSound(remote, released, started)
        /\ S \in SUBSET Secret
    BY <1>1, Facts, ProcessFields
  <1>3. /\ R \subseteq Released
        /\ \A x \in R : /\ x.by = r.id /\ x.cmd = r.cmd /\ x.secret \in S
                        /\ x.strict => x.secret \in r.mem.strict
                        /\ disk.stamp = r.mem.stamp => x.live
    BY <1>1, <1>2, ReleasesFacts
  <1>4. \A s \in Strict(r) : Has(remote, r.id, s)
    BY <1>1, <1>2 DEF InPhase, Told
  <1> HIDE DEF R
  <1>5. \A x \in R : /\ x.by <= started
                     /\ x.strict => Has(remote, x.by, x.secret)
                     /\ x.cmd = "run" => x.live
    BY <1>2, <1>3, <1>4 DEF Strict
  <1> QED BY <1>2, <1>3, <1>5 DEF ReleasedSound, R

LEMMA ReadKeeps ==
  ASSUME IInv, NEW p \in Proc, Read(p)
  PROVE  IInv'
  <1> DEFINE r == proc[p]
  <1>1. Runs(r) /\ r.phase = "reading" /\ UNCHANGED <<disk, keys, remote, started, changes>>
    BY DEF Read, Runs
  <1>2. PICK s \in r.left :
          /\ released' = IF r.cmd = "run" THEN released ELSE released \cup Releases(r, {s})
          /\ proc' = [proc EXCEPT ![p] =
               IF r.left # {s} THEN [r EXCEPT !.left = @ \ {s}]
               ELSE IF r.cmd = "get" THEN Idle
               ELSE [r EXCEPT !.left = {}, !.phase = "finishing"]]
    BY DEF Read, Ended
  <1>3. /\ r \in Process /\ disk \in StateFile /\ started \in Nat /\ disk.events \in SUBSET Event
        /\ remote \in SUBSET Event /\ \A e \in remote : ~e.acked
        /\ released \subseteq Released
        /\ Sound(r, disk, remote, released, started) /\ InPhase(r, remote, released)
        /\ DiskSound(disk, remote, released, started) /\ ReleasedSound(remote, released, started)
        /\ r.left \subseteq r.wants /\ r.todo = {} /\ ~r.fails
    BY <1>1, Facts, PhaseFacts
  <1>4. /\ released' \subseteq Released
        /\ \A x \in released' \ released : x.by = r.id
        /\ ReleasedSound(remote, released', started)
    <2>1. CASE r.cmd = "run"
      BY <2>1, <1>2, <1>3
    <2>2. CASE r.cmd # "run"
      <3>1. {s} \in SUBSET r.wants
        BY <1>3
      <3> QED BY <2>2, <3>1, <1>1, <1>2, MayRelease
    <2> QED BY <2>1, <2>2
  <1>5. PICK a \in Process :
          /\ proc' = [proc EXCEPT ![p] = a] /\ a.todo = {}
          /\ Runs(a) => /\ a.id = r.id /\ a.mem = r.mem /\ a.left \subseteq a.wants
                        /\ a.phase \in {"reading", "finishing"} /\ a.wants = r.wants
                        /\ a.fails = r.fails /\ a.cmd = r.cmd
    <2>1. CASE r.left # {s}
      <3> DEFINE a == [r EXCEPT !.left = @ \ {s}]
      <3>1. /\ a \in Process /\ a.todo = {} /\ a.id = r.id /\ a.mem = r.mem /\ a.left \subseteq a.wants
            /\ a.phase = r.phase /\ a.wants = r.wants /\ a.fails = r.fails /\ a.cmd = r.cmd
        BY <1>3 DEF Process
      <3>2. proc' = [proc EXCEPT ![p] = a]
        BY <1>2, <2>1
      <3> HIDE DEF a
      <3> QED BY <1>1, <3>1, <3>2
    <2>2. CASE r.left = {s} /\ r.cmd = "get"
      BY <1>2, <2>2, IdleType
    <2>3. CASE r.left = {s} /\ r.cmd # "get"
      <3> DEFINE a == [r EXCEPT !.left = {}, !.phase = "finishing"]
      <3>1. /\ a \in Process /\ a.todo = {} /\ a.id = r.id /\ a.mem = r.mem /\ a.left \subseteq a.wants
            /\ a.phase = "finishing" /\ a.wants = r.wants /\ a.fails = r.fails /\ a.cmd = r.cmd
        BY <1>3 DEF Process, Phase
      <3>2. proc' = [proc EXCEPT ![p] = a]
        BY <1>2, <2>3
      <3> HIDE DEF a
      <3> QED BY <1>1, <3>1, <3>2
    <2> QED BY <2>1, <2>2, <2>3
  <1>6. Sound(r, disk, remote, released', started)
    <2>1. NotBlocked(r, disk.events)
      BY <1>3 DEF Sound
    <2> QED BY <1>1, <1>3, <2>1, SoundCarries
  <1>7. ASSUME Runs(a)
        PROVE  a.id = r.id /\ Sound(a, disk, remote, released', started)
    <2>1. Strict(a) = Strict(r)
      BY <1>5, <1>7 DEF Strict
    <2>2. InPhase(r, remote, released')
      BY <1>6 DEF Sound
    <2>3. Told(a, remote) /\ \A t \in a.wants : Has(a.mem.events, a.id, t)
      BY <1>1, <1>3, <1>5, <1>7, <2>1, <2>2 DEF InPhase, Told
    <2>4. InPhase(a, remote, released')
      BY <1>3, <1>5, <1>7, <2>2, <2>3 DEF InPhase
    <2> QED BY <1>3, <1>5, <1>6, <1>7, <2>4, SoundGoesOn
  <1>8. DiskSound(disk, remote, released', started)
    <2>1. ASSUME NEW e \in disk.events, e.blocks, NEW x \in released'
          PROVE  x.by # e.by
      <3>1. CASE x \in released
        BY <2>1, <3>1, <1>3 DEF DiskSound
      <3>2. CASE x \notin released
        BY <2>1, <3>2, <1>3, <1>4 DEF Sound, NotBlocked
      <3> QED BY <3>1, <3>2
    <2> QED BY <1>3, <2>1 DEF DiskSound
  <1>9. /\ disk' \in StateFile /\ disk' = disk /\ remote' = remote /\ started' = started
        /\ UNCHANGED <<keys, started, changes>>
        /\ Uploads(disk.events) \subseteq Uploads(disk'.events)
        /\ (\A e \in disk'.events : Upload(e) \in Uploads(disk.events))
        /\ (\A e \in remote' : e \in Event /\ ~e.acked)
    BY <1>1, <1>3 DEF Uploads
  <1> QED BY <1>1, <1>4, <1>5, <1>7, <1>8, <1>9, Frame

LEMMA ReadFailsKeeps ==
  ASSUME IInv, NEW p \in Proc, ReadFails(p)
  PROVE  IInv'
  <1> DEFINE r == proc[p]
  <1>1. /\ Runs(r) /\ r.phase = "reading" /\ UNCHANGED <<disk, keys, remote, started, changes, released>>
    BY DEF ReadFails, Runs
  <1>2. r \in Process /\ r.wants \in SUBSET Secret /\ r.left \subseteq r.wants
    BY <1>1, Facts, PhaseFacts, ProcessFields
  <1>3. PICK s \in r.left :
          proc' = [proc EXCEPT ![p].phase = "recording", ![p].fails = TRUE,
                       ![p].mem.events = @ \cup Made(r, {s}, "failed", FALSE)]
    BY DEF ReadFails
  <1> DEFINE a == [r EXCEPT !.phase = "recording", !.fails = TRUE,
                            !.mem.events = @ \cup Made(r, {s}, "failed", FALSE)]
  <1>4. proc' = [proc EXCEPT ![p] = a]
    <2>1. proc \in [Proc -> Process]
      BY DEF IInv, TypeOK
    <2> QED BY <1>3, <2>1 DEF Process
  <1>5. {s} \in SUBSET Secret /\ "failed" \in {"denied", "failed"} /\ r.phase # "posting"
    BY <1>1, <1>2
  <1> QED BY <1>1, <1>4, <1>5, RefusalKeeps

LEMMA FinishKeeps ==
  ASSUME IInv, NEW p \in Proc, Finish(p)
  PROVE  IInv'
  <1> DEFINE r == proc[p]
             M == r.mem.events
             R == IF r.cmd = "run" /\ disk' # disk THEN Releases(r, r.wants) ELSE {}
  <1>1. /\ Runs(r) /\ r.phase = "finishing" /\ Save(p, M, Idle, Idle)
        /\ UNCHANGED <<keys, remote, started, changes>>
        /\ released' = released \cup R
    BY DEF Finish, Runs, Ended
  <1>2. /\ r \in Process /\ started \in Nat /\ M \in SUBSET Event /\ released \subseteq Released
        /\ Sound(r, disk, remote, released, started)
        /\ ReleasedSound(remote, released, started) /\ disk.stamp \in Nat
    BY <1>1, Facts
  <1>3. /\ released' \subseteq Released
        /\ \A x \in released' \ released : x.by = r.id
        /\ ReleasedSound(remote, released', started)
    <2>1. CASE r.cmd = "run" /\ disk' # disk
      <3>1. disk.stamp = r.mem.stamp
        BY <1>1, <2>1 DEF Save
      <3>2. r.wants \in SUBSET r.wants /\ r.phase \in {"reading", "finishing"}
        BY <1>1
      <3>3. /\ released \cup Releases(r, r.wants) \subseteq Released
            /\ \A x \in (released \cup Releases(r, r.wants)) \ released : x.by = r.id
            /\ ReleasedSound(remote, released \cup Releases(r, r.wants), started)
        BY <3>1, <3>2, MayRelease
      <3> QED BY <3>3, <1>1, <2>1
    <2>2. CASE ~(r.cmd = "run" /\ disk' # disk)
      <3>1. released' = released
        BY <1>1, <2>2
      <3> QED BY <3>1, <1>2
    <2> QED BY <2>1, <2>2
  <1>4. UNCHANGED disk => UNCHANGED released
    BY <1>1
  <1>5. \A e \in M : Upload(e) \in Uploads(M)
    BY DEF Uploads
  <1>6. EventsSound(M, remote, started) /\ Uploads(M) \subseteq Uploads(M)
    BY <1>2 DEF Sound
  <1>7. Idle \in Process /\ ~Runs(Idle) /\ Idle.todo = {}
    BY IdleType
  <1> HIDE DEF R
  <1> QED BY ONLY IInv, p \in Proc, <1>1, <1>2, <1>3, <1>4, <1>5, <1>6, <1>7, SaveReleases

LEMMA CrashKeeps ==
  ASSUME IInv, NEW p \in Proc, Crash(p)
  PROVE  IInv'
  BY EndKeeps DEF Crash, Ended, Runs

-----------------------------------------------------------------------------
(* A command starts.                                                       *)

LEMMA StartKeeps ==
  ASSUME IInv, NEW p \in Proc, NEW c \in Commands, NEW S \in SUBSET Secret, Start(p, c, S)
  PROVE  IInv'
  <1> DEFINE n == started + 1
             a == [Idle EXCEPT !.phase = "checking", !.cmd = c, !.id = n, !.wants = S, !.mem = disk]
  <1>1. /\ proc' = [proc EXCEPT ![p] = a] /\ started' = n /\ started < MaxCommands
        /\ UNCHANGED <<disk, keys, remote, changes, released>>
    BY DEF Start
  <1>2. /\ proc \in [Proc -> Process] /\ disk \in StateFile /\ started \in Nat /\ n \in Nat
        /\ n \in 0 .. MaxCommands /\ disk.stamp \in Nat /\ disk.events \in SUBSET Event
        /\ DiskSound(disk, remote, released, started) /\ ReleasedSound(remote, released, started)
        /\ released \subseteq Released
    BY <1>1, ConstantsAssumption, FileFields DEF IInv, TypeOK
  <1>3. /\ a \in Process /\ a.phase = "checking" /\ a.cmd = c /\ a.id = n /\ a.wants = S
        /\ a.todo = {} /\ a.left = {} /\ a.fails = FALSE /\ a.mem = disk
    <2>1. Commands \subseteq {"get", "run", "mount"}
      BY ConstantsAssumption
    <2>2. Idle \in Process /\ Idle.todo = {} /\ Idle.left = {} /\ Idle.fails = FALSE
      BY IdleType DEF Idle
    <2> QED BY <1>2, <2>1, <2>2 DEF Process, Phase
  <1> HIDE DEF a
  <1>4. proc'[p] = a /\ \A q \in Proc : q # p => proc'[q] = proc[q]
    BY <1>1, <1>2
  <1>5. TypeOK'
    <2>1. proc' \in [Proc -> Process]
      BY <1>1, <1>2, <1>3
    <2>2. \A q \in Proc : proc'[q].todo # {} => proc'[q].phase = "posting"
      BY <1>3, <1>4 DEF IInv, TypeOK
    <2> QED BY <1>1, <1>2, <2>1, <2>2 DEF TypeOK, IInv
  <1>6. ASSUME NEW q \in Proc, Runs(proc[q])
        PROVE  proc[q] \in Process /\ proc[q].id \in Nat /\ proc[q].id <= started
               /\ Sound(proc[q], disk, remote, released, started)
    BY <1>6, Facts
  <1>7. IdsDiffer'
    <2> SUFFICES ASSUME NEW q \in Proc, NEW u \in Proc, q # u, Runs(proc'[q]), Runs(proc'[u])
                 PROVE  proc'[q].id # proc'[u].id
      BY DEF IdsDiffer
    <2>1. CASE q # p /\ u # p
      BY <2>1, <1>4 DEF IInv, IdsDiffer
    <2>2. CASE q = p
      <3>1. proc'[u] = proc[u] /\ proc'[q].id = n
        BY <2>2, <1>3, <1>4
      <3> QED BY <3>1, <1>2, <1>6
    <2>3. CASE u = p
      <3>1. proc'[q] = proc[q] /\ proc'[u].id = n
        BY <2>3, <1>3, <1>4
      <3> QED BY <3>1, <1>2, <1>6
    <2> QED BY <2>1, <2>2, <2>3
  <1>8. \A e \in disk.events : e.by <= started /\ e.by \in Nat
    BY <1>2 DEF DiskSound, EventsSound, Event
  <1>9. EventsSound(disk.events, remote, n)
    <2>1. \A e \in disk.events : e.by <= n
      BY <1>2, <1>8
    <2> QED BY <1>2, <2>1 DEF DiskSound, EventsSound
  <1>10. \A x \in released : x.by <= started /\ x.by \in Nat
    BY <1>2 DEF ReleasedSound, Released
  <1>11. Sound(a, disk, remote, released, n)
    <2>1. NotBlocked(a, disk.events) /\ \A e \in disk.events : e.by # a.id
      BY <1>2, <1>3, <1>8 DEF NotBlocked
    <2>2. Current(a.mem, disk) /\ Known(a, disk)
      BY <1>2, <1>3 DEF Current, Known, Uploads
    <2>3. a.cmd # "none" /\ \A x \in released : x.by # a.id
      BY <1>2, <1>3, <1>10, ConstantsAssumption
    <2>4. InPhase(a, remote, released)
      BY <1>3, <2>1, <2>3 DEF InPhase
    <2>5. a.id \in 1 .. n
      BY <1>2, <1>3
    <2> QED BY <1>3, <1>9, <2>1, <2>2, <2>4, <2>5 DEF Sound
  <1>12. ASSUME NEW q \in Proc, Runs(proc'[q])
         PROVE  Sound(proc'[q], disk', remote', released', started')
    <2>1. CASE q = p
      BY <2>1, <1>1, <1>4, <1>11
    <2>2. CASE q # p
      <3>1. proc'[q] = proc[q]
        BY <2>2, <1>4
      <3>2. /\ proc[q] \in Process /\ Sound(proc[q], disk, remote, released, started)
            /\ NotBlocked(proc[q], disk.events)
        BY <3>1, <1>6, <1>12 DEF Sound
      <3>3. started <= n
        BY <1>2
      <3>4. Sound(proc[q], disk, remote, released, n)
        BY <1>2, <3>2, <3>3, SoundCarries
      <3> QED BY <1>1, <3>1, <3>4
    <2> QED BY <2>1, <2>2
  <1>13. DiskSound(disk, remote, released, n)
    BY <1>2, <1>9 DEF DiskSound
  <1>14. ReleasedSound(remote, released, n)
    <2>1. \A x \in released : x.by <= n
      BY <1>2, <1>10
    <2> QED BY <1>2, <2>1 DEF ReleasedSound
  <1> QED BY <1>1, <1>5, <1>7, <1>12, <1>13, <1>14 DEF IInv

-----------------------------------------------------------------------------
(* What other commands do.                                                 *)

\* They change no event of the state file.
LEMMA OthersKeep ==
  ASSUME IInv, disk' \in StateFile, disk' = disk \/ disk'.stamp = disk.stamp + 1,
         disk'.events = disk.events, keys' \subseteq Secret, changes' \in 0 .. MaxChanges,
         UNCHANGED <<proc, remote, started, released>>
  PROVE  IInv'
  <1>1. disk \in StateFile /\ started \in Nat
    BY ConstantsAssumption DEF IInv, TypeOK
  <1>2. TypeOK'
    BY DEF IInv, TypeOK
  <1>3. IdsDiffer'
    BY DEF IInv, IdsDiffer
  <1>4. ASSUME NEW q \in Proc, Runs(proc[q])
        PROVE  Sound(proc[q], disk', remote, released, started)
    <2>1. /\ proc[q] \in Process /\ Sound(proc[q], disk, remote, released, started)
          /\ NotBlocked(proc[q], disk'.events)
      BY <1>4, Facts DEF Sound
    <2>2. Uploads(disk.events) \subseteq Uploads(disk'.events)
      OBVIOUS
    <2>3. started <= started
      BY <1>1
    <2> QED BY <1>1, <2>1, <2>2, <2>3, SoundCarries
  <1>5. DiskSound(disk', remote, released, started)
    BY DEF IInv, DiskSound
  <1> QED BY <1>2, <1>3, <1>4, <1>5 DEF IInv

LEMMA ChangeKeeps ==
  ASSUME IInv, NEW f \in StateFile, Change(f), f.events = disk.events, UNCHANGED keys
  PROVE  IInv'
  <1>1. /\ disk \in StateFile /\ disk.stamp \in Nat /\ changes \in 0 .. MaxChanges /\ keys \subseteq Secret
    BY FileFields DEF IInv, TypeOK
  <1>2. disk' \in StateFile /\ disk'.stamp = disk.stamp + 1 /\ disk'.events = f.events
    BY <1>1 DEF Change, StateFile
  <1>3. changes' \in 0 .. MaxChanges
    BY <1>1, ConstantsAssumption DEF Change
  <1> QED BY <1>1, <1>2, <1>3, OthersKeep DEF Change

LEMMA PullKeeps ==
  ASSUME IInv, Pull
  PROVE  IInv'
  <1>1. PICK granted \in SUBSET Secret, strict \in SUBSET Secret :
          Change([disk EXCEPT !.granted = granted, !.strict = strict])
    BY DEF Pull
  <1> DEFINE f == [disk EXCEPT !.granted = granted, !.strict = strict]
  <1>2. f \in StateFile /\ f.events = disk.events
    BY DEF IInv, TypeOK, StateFile
  <1>3. UNCHANGED keys
    BY DEF Pull
  <1> HIDE DEF f
  <1> QED BY <1>1, <1>2, <1>3, ChangeKeeps DEF f

LEMMA RemoveKeeps ==
  ASSUME IInv, Remove
  PROVE  IInv'
  <1>1. PICK s \in disk.kept : Change([disk EXCEPT !.kept = @ \ {s}]) /\ UNCHANGED keys
    BY DEF Remove
  <1> DEFINE f == [disk EXCEPT !.kept = @ \ {s}]
  <1>2. f \in StateFile /\ f.events = disk.events
    BY DEF IInv, TypeOK, StateFile
  <1> HIDE DEF f
  <1> QED BY <1>1, <1>2, ChangeKeeps DEF f

LEMMA RelinkKeeps ==
  ASSUME IInv, Relink
  PROVE  IInv'
  <1>1. PICK link \in Link \ {disk.link} :
          Change([disk EXCEPT !.link = link, !.granted = IF link = "account" THEN {} ELSE @])
    BY DEF Relink
  <1> DEFINE f == [disk EXCEPT !.link = link, !.granted = IF link = "account" THEN {} ELSE @]
  <1>2. f \in StateFile /\ f.events = disk.events
    BY DEF IInv, TypeOK, StateFile
  <1>3. UNCHANGED keys
    BY DEF Relink
  <1> HIDE DEF f
  <1> QED BY <1>1, <1>2, <1>3, ChangeKeeps DEF f

LEMMA ForgetKeeps ==
  ASSUME IInv, Forget
  PROVE  IInv'
  <1>1. disk \in StateFile /\ keys \subseteq Secret /\ changes \in 0 .. MaxChanges
    BY DEF IInv, TypeOK
  <1>2. keys' \subseteq Secret
    BY <1>1 DEF Forget
  <1> QED BY <1>1, <1>2, OthersKeep DEF Forget

-----------------------------------------------------------------------------
(* The inductive invariant holds, and what it implies.                     *)

LEMMA InitSound == Init => IInv
  <1> SUFFICES ASSUME Init
               PROVE  IInv
    OBVIOUS
  <1>1. PICK link \in Link \ {"none"}, strict \in SUBSET Secret : disk = Vault(link, strict)
    BY DEF Init
  <1>2. disk \in StateFile /\ disk.events = {}
    BY <1>1 DEF Vault, StateFile
  <1>3. /\ proc \in [Proc -> Process]
        /\ \A p \in Proc : ~Runs(proc[p]) /\ proc[p].todo = {}
    BY IdleType DEF Init
  <1>4. /\ remote = {} /\ released = {} /\ keys = Secret /\ started = 0 /\ changes = 0
        /\ started \in 0 .. MaxCommands /\ changes \in 0 .. MaxChanges
    BY ConstantsAssumption DEF Init
  <1>5. TypeOK
    BY <1>2, <1>3, <1>4 DEF TypeOK
  <1>6. DiskSound(disk, remote, released, started)
    BY <1>2, <1>4 DEF DiskSound, EventsSound, Answered
  <1>7. ReleasedSound(remote, released, started)
    BY <1>4 DEF ReleasedSound
  <1> QED BY <1>3, <1>5, <1>6, <1>7 DEF IInv, IdsDiffer

LEMMA NextKeeps ==
  ASSUME IInv, [Next]_vars
  PROVE  IInv'
  <1>1. CASE UNCHANGED vars
    <2>1. disk' = disk /\ keys' = keys /\ proc' = proc /\ remote' = remote /\ started' = started
          /\ changes' = changes /\ released' = released
      BY <1>1 DEF vars
    <2> QED BY <2>1 DEF IInv, TypeOK, IdsDiffer
  <1>2. ASSUME NEW p \in Proc, Step(p)
        PROVE  IInv'
    BY <1>2, CheckFailsKeeps, CheckPassesKeeps, SaveStrictKeeps, PostKeeps, PostFailsKeeps,
       MarkAckedKeeps, BlockKeeps, SaveBufferedKeeps, SyncKeeps, KeepKeeps, ReadKeeps,
       ReadFailsKeeps, FinishKeeps, RecordKeeps DEF Step
  <1>3. ASSUME NEW p \in Proc, NEW c \in Commands, NEW S \in SUBSET Secret, Start(p, c, S)
        PROVE  IInv'
    BY <1>3, StartKeeps
  <1>4. ASSUME NEW p \in Proc, Crash(p)
        PROVE  IInv'
    BY <1>4, CrashKeeps
  <1> QED BY <1>1, <1>2, <1>3, <1>4, PullKeeps, RemoveKeeps, ForgetKeeps, RelinkKeeps DEF Next

\* Any number of processes append to, save, send and release under one ledger,
\* with any faults, and what each relies on is never disturbed by the others.
THEOREM Invariance == Spec => []IInv
  <1>1. Init => IInv
    BY InitSound
  <1>2. IInv /\ [Next]_vars => IInv'
    BY NextKeeps
  <1> QED BY <1>1, <1>2, PTL DEF Spec

\* Whatever was released from a strict envelope is on record at the control
\* plane, under the event of the same command and secret.
THEOREM StrictIsOnRecord == Spec => []StrictIsRecorded
  <1>1. IInv => StrictIsRecorded
    BY DEF IInv, ReleasedSound, StrictIsRecorded, Has
  <1> QED BY <1>1, Invariance, PTL

\* No local event is marked as synced that the control plane does not have with
\* the same content, and it has no "allowed" event that is not in the ledger.
THEOREM LedgersDoAgree == Spec => []LedgersAgree
  <1>1. IInv => LedgersAgree
    <2> SUFFICES ASSUME IInv
                 PROVE  LedgersAgree
      OBVIOUS
    <2>1. AckedIsRecorded
      BY DEF IInv, DiskSound, EventsSound, AckedIsRecorded
    <2>2. AllowedIsLocal
      BY DEF IInv, DiskSound, AllowedIsLocal, Uploads
    <2> QED BY <2>1, <2>2 DEF IInv, LedgersAgree
  <1> QED BY <1>1, Invariance, PTL

\* A command whose strict batch failed has released nothing, and every
\* "allowed" event it left is contradicted by a "failed" one that blocks it.
THEOREM BlockedIsContradicted == Spec => []BlockedReleasesNothing
  <1>1. IInv => BlockedReleasesNothing
    BY DEF IInv, DiskSound, EventsSound, Answered, BlockedReleasesNothing
  <1> QED BY <1>1, Invariance, PTL

\* A child process is started only if the vault is still the one its secrets
\* were read from.
THEOREM ChildSeesTheVault == Spec => []ChildIsCurrent
  <1>1. IInv => ChildIsCurrent
    BY DEF IInv, ReleasedSound, ChildIsCurrent
  <1> QED BY <1>1, Invariance, PTL

-----------------------------------------------------------------------------
(* The gate is what ReleaseGate promises.                                  *)

LEMMA ReleasingHas ==
  ASSUME NEW E \in SUBSET Event, NEW n, NEW s
  PROVE  [by |-> n, secret |-> s] \in Releasing(E) <=> Has(E, n, s)
  BY DEF Releasing, Has

LEMMA ReleasingCarries ==
  ASSUME NEW E \in SUBSET Event, NEW F \in SUBSET Event,
         \A e \in E : e.result = "allowed" => Upload(e) \in Uploads(F)
  PROVE  Releasing(E) \subseteq Releasing(F)
  <1> SUFFICES ASSUME NEW e \in E, e.result = "allowed"
               PROVE  [by |-> e.by, secret |-> e.secret] \in Releasing(F)
    BY DEF Releasing
  <1>1. \E f \in F : /\ Upload(f) = Upload(e) /\ f.by = e.by /\ f.secret = e.secret
                     /\ f.result = e.result /\ f.blocks = e.blocks
    BY UploadsCarry
  <1> QED BY <1>1 DEF Releasing

\* What is in the ledger of a command whose state file is still there.
LEMMA MemoryReleases ==
  ASSUME IInv, NEW p \in Proc, Runs(proc[p])
  PROVE  /\ Releasing(proc[p].mem.events) \subseteq Releasing(disk.events)
         /\ disk.stamp = proc[p].mem.stamp =>
              /\ Releasing(disk.events) \subseteq Releasing(proc[p].mem.events)
              /\ Allowed(proc[p].mem) = Allowed(disk)
  <1> DEFINE r == proc[p]
             M == r.mem.events
             D == disk.events
  <1>1. /\ M \in SUBSET Event /\ D \in SUBSET Event /\ Sound(r, disk, remote, released, started)
    BY Facts
  <1>2. \A e \in M : e.result = "allowed" => Upload(e) \in Uploads(D)
    BY <1>1 DEF Sound, Known
  <1>3. disk.stamp = r.mem.stamp => /\ \A e \in D : Upload(e) \in Uploads(M)
                                    /\ Allowed(r.mem) = Allowed(disk)
    BY <1>1 DEF Sound, Current, Uploads, Allowed
  <1> HIDE DEF M, D
  <1>4. Releasing(M) \subseteq Releasing(D)
    BY <1>1, <1>2, ReleasingCarries
  <1>5. disk.stamp = r.mem.stamp => Releasing(D) \subseteq Releasing(M)
    BY <1>1, <1>3, ReleasingCarries
  <1> QED BY <1>3, <1>4, <1>5 DEF M, D

\* A save leaves the policies alone and the ledger, but for what it appends.
LEMMA SaveReleasing ==
  ASSUME IInv, NEW p \in Proc, Runs(proc[p]), NEW E, NEW good \in Process, NEW bad,
         Save(p, E, good, bad)
  PROVE  /\ Allowed(disk') = Allowed(disk)
         /\ \/ disk' = disk
            \/ /\ disk'.events = E
               /\ Releasing(proc[p].mem.events) = Releasing(disk.events)
               /\ Allowed(proc[p].mem) = Allowed(disk)
  <1>1. CASE UNCHANGED disk
    BY <1>1 DEF Allowed
  <1>2. CASE /\ disk.stamp = proc[p].mem.stamp
             /\ disk' = [proc[p].mem EXCEPT !.stamp = disk.stamp + 1, !.events = E]
    <2> DEFINE f == proc[p].mem
    <2>1. f \in StateFile
      BY Facts
    <2>2. disk'.events = E /\ disk'.link = f.link /\ disk'.granted = f.granted
      BY <1>2, <2>1 DEF StateFile
    <2>3. Allowed(disk') = Allowed(f)
      BY <2>2 DEF Allowed
    <2> QED BY <1>2, <2>2, <2>3, MemoryReleases
  <1> QED BY <1>1, <1>2 DEF Save

\* The releases as ReleaseGate has them.
Seen(rel) == {[by |-> x.by, secret |-> x.secret, strict |-> x.strict] : x \in rel}

\* Nothing of this is seen.
GateStutters ==
  /\ Allowed(disk') = Allowed(disk)
  /\ Releasing(disk'.events) = Releasing(disk.events)
  /\ UNCHANGED <<remote, released>>

LEMMA StutterIsGateStep ==
  ASSUME GateStutters
  PROVE  [Gate!Next]_(Gate!vars)
  <1>1. Gate!vars' = Gate!vars
    BY DEF GateStutters, Gate!vars
  <1> QED BY <1>1

\* A command appends its "allowed" events.
LEMMA AppendIsGateStep ==
  ASSUME IInv, NEW p \in Proc, Runs(proc[p]), NEW S \in SUBSET proc[p].wants,
         proc[p].wants \subseteq Allowed(proc[p].mem), NEW good \in Process,
         Save(p, proc[p].mem.events \cup Made(proc[p], S, "allowed", FALSE), good, Idle),
         UNCHANGED <<remote, released>>
  PROVE  [Gate!Next]_(Gate!vars)
  <1> DEFINE r == proc[p]
             M == r.mem.events
             N == Made(r, S, "allowed", FALSE)
  <1>1. /\ r \in Process /\ M \in SUBSET Event /\ r.id \in 1 .. MaxCommands /\ S \in SUBSET Secret
    <2>1. r.id \in 1 .. started /\ started \in 0 .. MaxCommands
      BY Facts DEF Sound, IInv, TypeOK
    <2>2. r.id \in 1 .. MaxCommands
      BY <2>1, ConstantsAssumption
    <2> QED BY <2>2, Facts, ProcessFields
  <1>2. /\ Allowed(disk') = Allowed(disk)
        /\ \/ disk' = disk
           \/ /\ disk'.events = M \cup N
              /\ Releasing(M) = Releasing(disk.events)
              /\ Allowed(r.mem) = Allowed(disk)
    BY IdleType, SaveReleasing
  <1>3. CASE disk' = disk
    BY <1>2, <1>3, StutterIsGateStep DEF GateStutters
  <1>4. CASE disk' # disk
    <2>1. Releasing(M \cup N) = Releasing(M) \cup {[by |-> r.id, secret |-> s] : s \in S}
      <3>1. Releasing(N) = {[by |-> r.id, secret |-> s] : s \in S}
        <4>1. ASSUME NEW e \in N
              PROVE  e.by = r.id /\ e.secret \in S
          <5>1. e.by = r.id /\ e.secret \in S /\ e.result = "allowed" /\ (e.blocks <=> FALSE) /\ ~e.acked
            BY <4>1, MadeSays
          <5> QED BY <5>1
        <4>2. ASSUME NEW s \in S
              PROVE  \E e \in N : e.by = r.id /\ e.secret = s /\ e.result = "allowed"
          <5> DEFINE e == [by |-> r.id, secret |-> s, result |-> "allowed", blocks |-> FALSE, acked |-> FALSE]
          <5>1. e \in N /\ e.by = r.id /\ e.secret = s /\ e.result = "allowed"
            BY DEF Made
          <5> HIDE DEF e
          <5> QED BY <5>1
        <4> HIDE DEF N
        <4> QED BY <4>1, <4>2 DEF Releasing
      <3>2. Releasing(M \cup N) = Releasing(M) \cup Releasing(N)
        <4> HIDE DEF M, N
        <4> QED BY DEF Releasing
      <3> QED BY <3>1, <3>2
    <2>2. S \subseteq Allowed(disk)
      BY <1>2, <1>4
    <2>3. Releasing(disk'.events) =
            Releasing(disk.events) \cup {[by |-> r.id, secret |-> s] : s \in S}
      BY <1>2, <1>4, <2>1
    <2>4. Gate!Append(r.id, S)
      BY <1>2, <2>2, <2>3 DEF Gate!Append
    <2> QED BY <1>1, <2>4 DEF Gate!Next
  <1> QED BY <1>3, <1>4

\* A command marks its events, or writes only refusals and failures.
LEMMA SaveIsGateStep ==
  ASSUME IInv, NEW p \in Proc, Runs(proc[p]), NEW E, NEW good \in Process, NEW bad,
         Save(p, E, good, bad), Releasing(E) = Releasing(proc[p].mem.events),
         UNCHANGED <<remote, released>>
  PROVE  [Gate!Next]_(Gate!vars)
  <1>1. GateStutters
    BY SaveReleasing DEF GateStutters
  <1> QED BY <1>1, StutterIsGateStep

\* A command tells the control plane.
LEMMA TellIsGateStep ==
  ASSUME IInv, IInv', remote \subseteq remote', UNCHANGED <<disk, released>>
  PROVE  [Gate!Next]_(Gate!vars)
  <1>1. /\ remote \in SUBSET Event /\ remote' \in SUBSET Event /\ disk.events \in SUBSET Event
        /\ \A e \in remote' : ~e.acked
    BY FileFields DEF IInv, TypeOK
  <1>2. \A e \in remote' : e.result = "allowed" => Upload(e) \in Uploads(disk.events)
    <2>1. \A e \in remote' : Upload(e) = e
      BY <1>1, UnackedIsUpload
    <2> QED BY <2>1 DEF IInv, DiskSound
  <1> DEFINE D == disk.events
             Q == remote'
  <1>3. Releasing(Q) \subseteq Releasing(D)
    <2>1. Q \in SUBSET Event /\ D \in SUBSET Event
          /\ \A e \in Q : e.result = "allowed" => Upload(e) \in Uploads(D)
      BY <1>1, <1>2
    <2> HIDE DEF D, Q
    <2> QED BY <2>1, ReleasingCarries
  <1>4. Releasing(remote) \subseteq Releasing(remote')
    BY DEF Releasing
  <1>5. Gate!Tell
    BY <1>3, <1>4 DEF Gate!Tell
  <1> QED BY <1>5 DEF Gate!Next

\* A command releases what its events allow.
LEMMA ReleaseIsGateStep ==
  ASSUME IInv, NEW p \in Proc, Runs(proc[p]), proc[p].phase \in {"reading", "finishing"},
         NEW S \in SUBSET proc[p].wants, released' = released \cup Releases(proc[p], S),
         Allowed(disk') = Allowed(disk), Releasing(disk'.events) = Releasing(disk.events),
         UNCHANGED remote
  PROVE  [Gate!Next]_(Gate!vars)
  <1> DEFINE r == proc[p]
             M == r.mem.events
             R == Releases(r, S)
  <1>1. /\ r \in Process /\ M \in SUBSET Event /\ disk.events \in SUBSET Event
        /\ remote \in SUBSET Event /\ S \in SUBSET Secret /\ ~r.fails
        /\ InPhase(r, remote, released)
    BY Facts, PhaseFacts, ProcessFields
  <1>2. \A x \in R : x.by = r.id /\ x.secret \in S /\ (x.strict => x.secret \in r.mem.strict)
    BY <1>1, ReleasesFacts
  <1>3. /\ \A s \in Strict(r) : Has(remote, r.id, s)
        /\ \A s \in r.wants : Has(M, r.id, s)
    BY <1>1 DEF InPhase, Told
  <1>4. \A s \in S : [by |-> r.id, secret |-> s] \in Releasing(disk.events)
    <2>1. \A s \in S : [by |-> r.id, secret |-> s] \in Releasing(M)
      BY <1>1, <1>3, ReleasingHas
    <2> QED BY <2>1, MemoryReleases
  <1>5. \A s \in Strict(r) : [by |-> r.id, secret |-> s] \in Releasing(remote)
    BY <1>1, <1>3, ReleasingHas
  <1> HIDE DEF R
  <1>6. \A x \in R : /\ [by |-> x.by, secret |-> x.secret] \in Releasing(disk.events)
                     /\ x.strict => [by |-> x.by, secret |-> x.secret] \in Releasing(remote)
    BY <1>2, <1>4, <1>5 DEF Strict
  <1>7. Seen(released) \subseteq Seen(released') /\ released' = released \cup R
    BY DEF Seen, R
  <1>8. \A y \in Seen(released') \ Seen(released) :
          /\ [by |-> y.by, secret |-> y.secret] \in Releasing(disk.events)
          /\ y.strict => [by |-> y.by, secret |-> y.secret] \in Releasing(remote)
    <2> SUFFICES ASSUME NEW y \in Seen(released') \ Seen(released)
                 PROVE  /\ [by |-> y.by, secret |-> y.secret] \in Releasing(disk.events)
                        /\ y.strict => [by |-> y.by, secret |-> y.secret] \in Releasing(remote)
      OBVIOUS
    <2>1. PICK x \in R : y = [by |-> x.by, secret |-> x.secret, strict |-> x.strict]
      BY <1>7 DEF Seen
    <2>2. y.by = x.by /\ y.secret = x.secret /\ (y.strict => x.strict)
      BY <2>1
    <2> QED BY <1>6, <2>2
  <1>9. Gate!Release
    BY <1>7, <1>8 DEF Gate!Release, Gate!Entry, Seen
  <1> QED BY <1>9 DEF Gate!Next

\* Other commands change the policies.
LEMMA OthersAreGateSteps ==
  ASSUME IInv, IInv', disk'.events = disk.events, UNCHANGED <<remote, released>>
  PROVE  [Gate!Next]_(Gate!vars)
  <1>1. Allowed(disk') \subseteq Secret
    BY FileFields DEF IInv, TypeOK, Allowed
  <1>2. Gate!SetPolicy
    BY <1>1 DEF Gate!SetPolicy
  <1> QED BY <1>2 DEF Gate!Next

LEMMA NextIsGateStep ==
  ASSUME IInv, IInv', [Next]_vars
  PROVE  [Gate!Next]_(Gate!vars)
  <1>1. CASE UNCHANGED vars
    <2>1. disk' = disk /\ remote' = remote /\ released' = released
      BY <1>1 DEF vars
    <2> QED BY <2>1, StutterIsGateStep DEF GateStutters
  <1>2. ASSUME UNCHANGED <<disk, remote, released>>
        PROVE  [Gate!Next]_(Gate!vars)
    BY <1>2, StutterIsGateStep DEF GateStutters
  <1>3. ASSUME NEW p \in Proc, Step(p)
        PROVE  [Gate!Next]_(Gate!vars)
    <2> DEFINE r == proc[p]
               M == r.mem.events
    <2>0. Runs(r)
      BY <1>3 DEF Step, Runs, CheckFails, CheckPasses, SaveStrict, Post, PostFails, MarkAcked,
           Block, SaveBuffered, Sync, Keep, Read, ReadFails, Finish, Record
    <2>1. /\ r \in Process /\ M \in SUBSET Event /\ InPhase(r, remote, released)
          /\ r.wants \in SUBSET Secret /\ Strict(r) \in SUBSET r.wants /\ Buffered(r) \in SUBSET r.wants
      BY <2>0, Facts, ProcessFields DEF Strict, Buffered
    <2>2. CASE CheckFails(p) \/ CheckPasses(p) \/ ReadFails(p)
      BY <2>2, <1>2 DEF CheckFails, CheckPasses, ReadFails
    <2>3. CASE SaveStrict(p)
      <3> DEFINE good == [r EXCEPT !.phase = "posting", !.todo = {w \in Workspace : w \cap Strict(r) # {}}]
      <3>1. /\ Save(p, M \cup Made(r, Strict(r), "allowed", FALSE), good, Idle)
            /\ r.phase = "saving strict" /\ UNCHANGED <<remote, released>>
        BY <2>3 DEF SaveStrict, Ended
      <3>2. good \in Process
        BY <2>1 DEF Process, Phase
      <3>3. r.wants \subseteq Allowed(r.mem)
        BY <2>1, <3>1 DEF InPhase
      <3> HIDE DEF good
      <3> QED BY <2>0, <2>1, <3>1, <3>2, <3>3, AppendIsGateStep
    <2>4. CASE SaveBuffered(p)
      <3> DEFINE good == [r EXCEPT !.phase = "syncing", !.left = r.wants]
      <3>1. /\ Save(p, M \cup Made(r, Buffered(r), "allowed", FALSE), good, Idle)
            /\ r.phase = "buffering" /\ UNCHANGED <<remote, released>>
        BY <2>4 DEF SaveBuffered, Ended
      <3>2. good \in Process
        BY <2>1 DEF Process, Phase
      <3>3. r.wants \subseteq Allowed(r.mem)
        BY <2>1, <3>1 DEF InPhase
      <3> HIDE DEF good
      <3> QED BY <2>0, <2>1, <3>1, <3>2, <3>3, AppendIsGateStep
    <2>5. CASE Post(p) \/ PostFails(p) \/ Sync(p)
      <3>1. remote \subseteq remote' /\ UNCHANGED <<disk, released>>
        BY <2>5 DEF Post, PostFails, Sync
      <3> QED BY <3>1, TellIsGateStep
    <2>6. CASE MarkAcked(p)
      <3> DEFINE acks == {Upload(e) : e \in Batch(r)}
                 E == Marked(M, acks)
                 good == AfterStrict(r)
                 bad == [r EXCEPT !.phase = "blocking"]
      <3>1. Save(p, E, good, bad) /\ UNCHANGED <<remote, released>>
        BY <2>6 DEF MarkAcked
      <3>2. good \in Process
        BY <2>1 DEF AfterStrict, Process, Phase
      <3>3. Releasing(E) = Releasing(M)
        <4>1. E \in SUBSET Event /\ Uploads(E) = Uploads(M)
          <5> HIDE DEF M, acks
          <5> QED BY <2>1, MarkedFacts
        <4>2. /\ \A e \in E : Upload(e) \in Uploads(M)
              /\ \A e \in M : Upload(e) \in Uploads(E)
          BY <4>1 DEF Uploads
        <4> HIDE DEF M, E
        <4>3. Releasing(E) \subseteq Releasing(M) /\ Releasing(M) \subseteq Releasing(E)
          BY <2>1, <4>1, <4>2, ReleasingCarries
        <4> QED BY <4>3
      <3> HIDE DEF E, good, bad
      <3> QED BY <2>0, <3>1, <3>2, <3>3, SaveIsGateStep
    <2>7. CASE Block(p)
      <3> DEFINE N == Made(r, Strict(r), "failed", TRUE)
                 E == M \cup N
      <3>1. Save(p, E, Idle, Idle) /\ UNCHANGED <<remote, released>>
        BY <2>7 DEF Block, Ended
      <3>2. ASSUME NEW e \in N
            PROVE  e.result # "allowed"
        <4>1. e.by = r.id /\ e.secret \in Strict(r) /\ e.result = "failed" /\ (e.blocks <=> TRUE) /\ ~e.acked
          BY <3>2, MadeSays
        <4> QED BY <4>1
      <3> HIDE DEF N
      <3>3. Releasing(E) = Releasing(M)
        BY <3>2 DEF Releasing
      <3> HIDE DEF E
      <3> QED BY <2>0, <3>1, <3>3, IdleType, SaveIsGateStep
    <2>8. CASE Keep(p) \/ Record(p)
      <3> DEFINE good == IF r.phase = "keeping" THEN AfterSync(r) ELSE [r EXCEPT !.phase = "syncing"]
      <3>1. Save(p, M, good, good) /\ UNCHANGED <<remote, released>>
        BY <2>8 DEF Keep, Record
      <3>2. good \in Process
        BY <2>1, IdleType, ZenonT(40) DEF AfterSync, Ended, Process, Phase
      <3> HIDE DEF good
      <3> QED BY <2>0, <3>1, <3>2, SaveIsGateStep
    <2>9. CASE Read(p)
      <3>1. PICK s \in r.left :
              released' = IF r.cmd = "run" THEN released ELSE released \cup Releases(r, {s})
        BY <2>9 DEF Read
      <3>2. r.phase = "reading" /\ UNCHANGED <<disk, remote>>
        BY <2>9 DEF Read
      <3>3. CASE r.cmd = "run"
        BY <1>2, <3>1, <3>2, <3>3
      <3>4. CASE r.cmd # "run"
        <4>1. {s} \in SUBSET r.wants
          BY <2>0, PhaseFacts
        <4>2. released' = released \cup Releases(r, {s})
          BY <3>1, <3>4
        <4>3. Allowed(disk') = Allowed(disk) /\ Releasing(disk'.events) = Releasing(disk.events)
          BY <3>2
        <4> QED BY <2>0, <3>2, <4>1, <4>2, <4>3, ReleaseIsGateStep
      <3> QED BY <3>3, <3>4
    <2>10. CASE Finish(p)
      <3>1. /\ Save(p, M, Idle, Idle) /\ r.phase = "finishing" /\ UNCHANGED remote
            /\ released' = IF r.cmd = "run" /\ disk' # disk
                             THEN released \cup Releases(r, r.wants) ELSE released
        BY <2>10 DEF Finish, Ended
      <3>2. Allowed(disk') = Allowed(disk) /\ Releasing(disk'.events) = Releasing(disk.events)
        BY <2>0, <3>1, IdleType, SaveReleasing
      <3>3. CASE r.cmd = "run" /\ disk' # disk
        <4>1. r.wants \in SUBSET r.wants /\ released' = released \cup Releases(r, r.wants)
          BY <3>1, <3>3
        <4> QED BY <2>0, <3>1, <3>2, <4>1, ReleaseIsGateStep
      <3>4. CASE ~(r.cmd = "run" /\ disk' # disk)
        <4>1. GateStutters
          BY <3>1, <3>2, <3>4 DEF GateStutters
        <4> QED BY <4>1, StutterIsGateStep
      <3> QED BY <3>3, <3>4
    <2> QED BY <1>3, <2>2, <2>3, <2>4, <2>5, <2>6, <2>7, <2>8, <2>9, <2>10 DEF Step
  <1>4. CASE \E p \in Proc : Crash(p) \/ \E c \in Commands, S \in SUBSET Secret : Start(p, c, S)
    BY <1>2, <1>4 DEF Crash, Start
  <1>5. CASE Forget
    BY <1>2, <1>5 DEF Forget
  <1>6. CASE Pull \/ Remove \/ Relink
    <2>1. PICK f \in StateFile : Change(f) /\ f.events = disk.events
      <3>1. disk \in StateFile
        BY DEF IInv, TypeOK
      <3>2. CASE Pull
        <4>1. PICK granted \in SUBSET Secret, strict \in SUBSET Secret :
                Change([disk EXCEPT !.granted = granted, !.strict = strict])
          BY <3>2 DEF Pull
        <4> DEFINE f == [disk EXCEPT !.granted = granted, !.strict = strict]
        <4>2. f \in StateFile /\ f.events = disk.events
          BY <3>1 DEF StateFile
        <4> HIDE DEF f
        <4> QED BY <4>1, <4>2 DEF f
      <3>3. CASE Remove
        <4>1. PICK s \in disk.kept : Change([disk EXCEPT !.kept = @ \ {s}])
          BY <3>3 DEF Remove
        <4> DEFINE f == [disk EXCEPT !.kept = @ \ {s}]
        <4>2. f \in StateFile /\ f.events = disk.events
          BY <3>1 DEF StateFile
        <4> HIDE DEF f
        <4> QED BY <4>1, <4>2 DEF f
      <3>4. CASE Relink
        <4>1. PICK link \in Link \ {disk.link} :
                Change([disk EXCEPT !.link = link, !.granted = IF link = "account" THEN {} ELSE @])
          BY <3>4 DEF Relink
        <4> DEFINE f == [disk EXCEPT !.link = link, !.granted = IF link = "account" THEN {} ELSE @]
        <4>2. f \in StateFile /\ f.events = disk.events
          BY <3>1 DEF StateFile
        <4> HIDE DEF f
        <4> QED BY <4>1, <4>2 DEF f
      <3> QED BY <1>6, <3>2, <3>3, <3>4
    <2>2. disk'.events = disk.events /\ UNCHANGED <<remote, released>>
      <3>1. disk' = [f EXCEPT !.stamp = disk.stamp + 1] /\ UNCHANGED <<remote, released>>
        BY <2>1 DEF Change
      <3>2. disk'.events = f.events
        BY <3>1 DEF StateFile
      <3> QED BY <2>1, <3>1, <3>2
    <2> QED BY <2>2, OthersAreGateSteps
  <1> QED BY <1>1, <1>3, <1>4, <1>5, <1>6 DEF Next

\* Every behaviour of the commands, their saves, requests and failures is one
\* of ReleaseGate: nothing is released but under an event that the policies
\* allowed, that the ledger holds and, where it must, the control plane too.
THEOREM GateIsImplemented == Spec => ImplementsReleaseGate
  <1>1. Init => Gate!Init
    <2> SUFFICES ASSUME Init
                 PROVE  Gate!Init
      OBVIOUS
    <2>1. PICK link \in Link \ {"none"}, strict \in SUBSET Secret : disk = Vault(link, strict)
      BY DEF Init
    <2>2. Allowed(disk) = Secret /\ disk.events = {}
      BY <2>1 DEF Vault, Allowed
    <2>3. Releasing(disk.events) = {} /\ Releasing(remote) = {}
      BY <2>2 DEF Init, Releasing
    <2> QED BY <2>2, <2>3 DEF Init, Gate!Init
  <1>2. IInv /\ IInv' /\ [Next]_vars => [Gate!Next]_(Gate!vars)
    BY NextIsGateStep
  <1> QED BY <1>1, <1>2, Invariance, PTL DEF Spec, ImplementsReleaseGate, Gate!Spec

=============================================================================
