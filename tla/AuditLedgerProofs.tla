-------------------------- MODULE AuditLedgerProofs --------------------------
(***************************************************************************)
(* What holds of the audit ledger for any number of processes, events,     *)
(* saves and keys, any faults and any mixture of older files.              *)
(***************************************************************************)
EXTENDS AuditLedger, WellFoundedInduction, TLAPS

-----------------------------------------------------------------------------
(* Types.                                                                  *)

HashType == Nat \X Nat
RecordType == [seq : Nat, event : Event, save : Nat, prev : HashType, key : Nat]
HeadType == [count : Nat, last : HashType, key : Nat]
FileType == [audit : Seq(Event), ledger : Seq(RecordType), head : HeadType]
Phases == {"idle", "reading", "loaded", "keying", "writing", "damaged"}
ProcType == [phase : Phases, snap : FileType, events : Seq(Event),
             blind : BOOLEAN, fresh : BOOLEAN]

Types ==
  /\ file \in FileType
  /\ {key, made, drawn} \subseteq Nat
  /\ lock \in Proc \cup {None}
  /\ proc \in [Proc -> ProcType]
  /\ written \in Seq([file : FileType, events : Seq(Event)])

LEMMA PlainType == ASSUME NEW e \in Seq(Event) PROVE Plain(e) \in FileType
  BY DEF Plain, FileType, HeadType, HashType, NoHead, NoHash, None

LEMMA IdleType == Idle \in ProcType
  <1>1. Plain(<<>>) \in FileType
    <2>1. <<>> \in Seq(Event)
      OBVIOUS
    <2> QED BY <2>1, PlainType
  <1> QED BY <1>1 DEF Idle, ProcType, Phases

LEMMA ChainType ==
  ASSUME NEW e \in Seq(Event), NEW n \in Nat, NEW k \in Nat
  PROVE  /\ Chain(e, n, k) \in Seq(RecordType)
         /\ Len(Chain(e, n, k)) = Len(e)
  <1>1. \A i \in 1 .. Len(e) : Chain(e, n, k)[i] \in RecordType
    <2> SUFFICES ASSUME NEW i \in 1 .. Len(e) PROVE Chain(e, n, k)[i] \in RecordType
      OBVIOUS
    <2>1. e[Len(e) + 1 - i] \in Event /\ i \in Nat /\ i - 1 \in Nat
      OBVIOUS
    <2> QED BY <2>1 DEF Chain, RecordType, HashType, NoHash, None
  <1> QED BY <1>1 DEF Chain

LEMMA RebuiltType ==
  ASSUME NEW e \in Seq(Event), NEW n \in Nat, NEW k \in Nat
  PROVE  Rebuilt(e, n, k) \in FileType
  <1>1. CASE e = <<>>
    <2>1. Plain(<<>>) \in FileType
      BY <1>1, PlainType
    <2> QED BY <1>1, <2>1 DEF Rebuilt
  <1>2. CASE e # <<>>
    <2>1. Len(e) \in 1 .. Len(e)
      BY <1>2
    <2>2. Chain(e, n, k)[Len(e)] \in RecordType
      BY <2>1, ChainType
    <2>3. HeadOf(Chain(e, n, k), k) \in HeadType
      BY <2>2, ChainType DEF HeadOf, Hash, HeadType, HashType, RecordType
    <2> QED BY <1>2, <2>3, ChainType DEF Rebuilt, FileType
  <1> QED BY <1>1, <1>2

-----------------------------------------------------------------------------
(* What was saved, and what is made of it.                                 *)

\* The n-th save wrote the ledger of the events it was asked to save.
SavedAt(w, n) ==
  /\ w.events \in Seq(Event)
  /\ \E k \in Nat : /\ w.events # <<>> => k # None
                    /\ w.file = Rebuilt(w.events, n, k)

OldHeads == {NoHead} \cup {f.head : f \in OldFiles}

\* A file of which every record and the head are from files that were saved.
Genuine(f) ==
  /\ f.audit \in Seq(Event)
  /\ f.ledger \in Seq(OldRecords)
  /\ f.head \in OldHeads

AllSaved == \A n \in 1 .. Len(written) : SavedAt(written[n], n)

-----------------------------------------------------------------------------
(* The chain.                                                              *)

\* A record of an older file that still has its HMAC tells its event, its place
\* and the record before it from the save and the place it names.
LEMMA RecordTells ==
  ASSUME AllSaved, NEW r \in OldRecords, r.key # None
  PROVE  \E n \in 1 .. Len(written) :
           \E i \in 1 .. Len(written[n].events) :
             /\ r.save = n /\ r.seq = i
             /\ r.event = written[n].events[Len(written[n].events) + 1 - i]
             /\ r.prev = IF i = 1 THEN NoHash ELSE <<n, i - 1>>
  <1>1. r # Altered
    BY DEF Altered, None
  <1>2. PICK n \in 1 .. Len(written) :
          \E i \in 1 .. Len(written[n].file.ledger) : r = written[n].file.ledger[i]
    BY <1>1 DEF OldRecords, OldFiles
  <1>3. PICK i \in 1 .. Len(written[n].file.ledger) : r = written[n].file.ledger[i]
    BY <1>2
  <1>4. PICK k \in Nat : written[n].file = Rebuilt(written[n].events, n, k)
    BY DEF AllSaved, SavedAt
  <1>5. written[n].events \in Seq(Event)
    BY DEF AllSaved, SavedAt
  <1>6. CASE written[n].events = <<>>
    BY <1>3, <1>4, <1>6 DEF Rebuilt, Plain
  <1>7. CASE written[n].events # <<>>
    <2>1. written[n].file.ledger = Chain(written[n].events, n, k)
      BY <1>4, <1>7 DEF Rebuilt
    <2>2. Len(Chain(written[n].events, n, k)) = Len(written[n].events)
      BY <1>5 DEF Chain
    <2>3. r = Chain(written[n].events, n, k)[i] /\ i \in 1 .. Len(written[n].events)
      BY <1>3, <2>1, <2>2
    <2> QED BY <2>3 DEF Chain
  <1> QED BY <1>6, <1>7

LEMMA SavedHead ==
  ASSUME AllSaved, NEW n \in 1 .. Len(written), written[n].file.head.key # None
  PROVE  /\ written[n].events # <<>>
         /\ written[n].file.head.count = Len(written[n].events)
         /\ written[n].file.head.last = <<n, Len(written[n].events)>>
  <1> DEFINE h == written[n].file.head
  <1>2. PICK k \in Nat : written[n].file = Rebuilt(written[n].events, n, k)
    BY DEF AllSaved, SavedAt
  <1>3. written[n].events \in Seq(Event)
    BY DEF AllSaved, SavedAt
  <1>4. written[n].events # <<>>
    BY <1>2 DEF Rebuilt, Plain, NoHead, None
  <1>5. Len(Chain(written[n].events, n, k)) = Len(written[n].events)
    BY <1>3, ChainType
  <1>6. Len(written[n].events) \in Nat \ {0}
    BY <1>3, <1>4
  <1>7. Hash(Chain(written[n].events, n, k)[Len(written[n].events)])
          = <<n, Len(written[n].events)>>
    BY <1>6 DEF Chain, Hash
  <1>8. h = HeadOf(Chain(written[n].events, n, k), k)
    BY <1>2, <1>4 DEF Rebuilt
  <1>9. h.count = Len(written[n].events)
    BY <1>5, <1>8 DEF HeadOf
  <1>10. h.last = <<n, Len(written[n].events)>>
    BY <1>5, <1>7, <1>8 DEF HeadOf
  <1> QED BY <1>4, <1>9, <1>10

LEMMA HeadTells ==
  ASSUME AllSaved, NEW h \in OldHeads, h.key # None
  PROVE  \E n \in 1 .. Len(written) :
           /\ h.count = Len(written[n].events)
           /\ h.last = <<n, Len(written[n].events)>>
           /\ h = written[n].file.head
  <1>1. PICK n \in 1 .. Len(written) : h = written[n].file.head
    BY DEF OldHeads, OldFiles, NoHead, None
  <1> QED BY <1>1, SavedHead

\* Of any set of natural numbers that has one there is a least one.
LEMMA LeastNat ==
  ASSUME NEW T \in SUBSET Nat, T # {}
  PROVE  \E j \in T : \A i \in T : ~(i < j)
  <1>1. PICK j \in T : \A i \in T : ~(<<i, j>> \in OpToRel(<, Nat))
    BY NatLessThanWellFounded, WFMin
  <1> QED BY <1>1 DEF OpToRel

LEMMA SeqIsFunction ==
  ASSUME NEW S, NEW e \in Seq(S)
  PROVE  e = [i \in 1 .. Len(e) |-> e[i]]
  OBVIOUS

LEMMA SeqElement ==
  ASSUME NEW S, NEW e \in Seq(S), NEW i \in 1 .. Len(e)
  PROVE  e[i] \in S
  OBVIOUS

LEMMA SeqOfFewer ==
  ASSUME NEW S, NEW T, NEW e \in Seq(S), \A i \in 1 .. Len(e) : e[i] \in T
  PROVE  e \in Seq(T)
  <1>1. e = [i \in 1 .. Len(e) |-> e[i]] /\ Len(e) \in Nat
    BY SeqIsFunction
  <1>2. [i \in 1 .. Len(e) |-> e[i]] \in Seq(T)
    BY <1>1
  <1> QED BY <1>1, <1>2

\* A chain that verifies, with a head that matches it, is the ledger of one save.
LEMMA ChainIsOneSave ==
  ASSUME AllSaved, NEW f, Genuine(f), f.ledger # <<>>, NEW k, k # None,
         Chained(f.ledger, k), HeadMatches(f.ledger, f.head, k)
  PROVE  \E n \in 1 .. Len(written) :
           /\ Decrypted(f.ledger) = written[n].events
           /\ f.head = written[n].file.head
  <1> DEFINE L == Len(f.ledger)
  <1>1. f.ledger \in Seq(OldRecords) /\ L \in Nat \ {0}
    BY DEF Genuine
  <1>2. PICK n \in 1 .. Len(written) :
          /\ f.head.count = Len(written[n].events)
          /\ f.head.last = <<n, Len(written[n].events)>>
          /\ f.head = written[n].file.head
    <2>1. f.head \in OldHeads /\ f.head.key # None
      BY DEF Genuine, HeadMatches
    <2> QED BY <2>1, HeadTells
  <1>3. L = Len(written[n].events) /\ Hash(f.ledger[L]) = <<n, L>>
    BY <1>2 DEF HeadMatches
  <1>4. \A i \in 1 .. L :
          /\ f.ledger[i] \in OldRecords /\ f.ledger[i].key # None
          /\ f.ledger[i].seq = i
          /\ i # 1 => f.ledger[i].prev = Hash(f.ledger[i - 1])
    BY <1>1 DEF Chained
  <1>5. \A i \in 1 .. L : f.ledger[i].save = n
    <2> DEFINE T == {j \in 0 .. L - 1 : f.ledger[L - j].save # n}
    <2>1. SUFFICES ASSUME T # {} PROVE FALSE
      <3>1. ASSUME T = {}, NEW i \in 1 .. L PROVE f.ledger[i].save = n
        <4>1. L - i \in 0 .. L - 1 /\ L - (L - i) = i
          BY <1>1
        <4> QED BY <4>1, <3>1
      <3> QED BY <3>1
    <2>2. PICK j \in T : \A i \in T : ~(i < j)
      <3>1. T \in SUBSET Nat
        BY <1>1
      <3> QED BY <3>1, <2>1, LeastNat
    <2>3. j # 0
      <3>1. f.ledger[L].save = n
        BY <1>3 DEF Hash
      <3> QED BY <3>1, <2>2, <1>1
    <2>4. j - 1 \in 0 .. L - 1 /\ j - 1 < j
      BY <2>2, <2>3, <1>1
    <2>5. f.ledger[L - (j - 1)].save = n
      BY <2>2, <2>4
    <2> DEFINE r == f.ledger[L - (j - 1)]
    <2>6. L - (j - 1) \in 2 .. L /\ (L - (j - 1)) - 1 = L - j
      BY <2>2, <2>3, <1>1
    <2>7. r \in OldRecords /\ r.key # None /\ r.seq = L - (j - 1) /\ r.prev = Hash(f.ledger[L - j])
      BY <1>4, <2>6
    <2>8. r.prev = <<n, L - j>>
      <3>1. PICK m \in 1 .. Len(written) :
              \E i \in 1 .. Len(written[m].events) :
                /\ r.save = m /\ r.seq = i
                /\ r.prev = IF i = 1 THEN NoHash ELSE <<m, i - 1>>
        BY <2>7, RecordTells
      <3> QED BY <3>1, <2>5, <2>6, <2>7
    <2>9. f.ledger[L - j].save = n
      BY <2>7, <2>8 DEF Hash
    <2> QED BY <2>2, <2>9
  <1>6. \A i \in 1 .. L : f.ledger[i].event = written[n].events[L + 1 - i]
    <2> SUFFICES ASSUME NEW i \in 1 .. L
                 PROVE  f.ledger[i].event = written[n].events[L + 1 - i]
      OBVIOUS
    <2>1. PICK m \in 1 .. Len(written) :
            \E q \in 1 .. Len(written[m].events) :
              /\ f.ledger[i].save = m /\ f.ledger[i].seq = q
              /\ f.ledger[i].event = written[m].events[Len(written[m].events) + 1 - q]
      BY <1>4, RecordTells
    <2> QED BY <2>1, <1>3, <1>4, <1>5
  <1>7. Decrypted(f.ledger) = written[n].events
    <2>1. written[n].events \in Seq(Event)
      BY DEF AllSaved, SavedAt
    <2>2. written[n].events = [i \in 1 .. L |-> written[n].events[i]]
      BY <2>1, <1>3, SeqIsFunction
    <2>3. \A i \in 1 .. L : f.ledger[L + 1 - i].event = written[n].events[i]
      <3> SUFFICES ASSUME NEW i \in 1 .. L
                   PROVE  f.ledger[L + 1 - i].event = written[n].events[i]
        OBVIOUS
      <3>1. L + 1 - i \in 1 .. L /\ L + 1 - (L + 1 - i) = i
        BY <1>1
      <3> QED BY <3>1, <1>6
    <2> QED BY <2>2, <2>3 DEF Decrypted
  <1> QED BY <1>2, <1>7

-----------------------------------------------------------------------------
(* The inductive invariant.                                                *)

Saving == {"keying", "writing"}
NoLedgerSaved == \A n \in 1 .. Len(written) : written[n].file.ledger = <<>>

\* A command that loaded a ledger has the events of the save that wrote it.
FromSave(r) ==
  r.phase = "loaded" /\ r.snap.ledger # <<>> /\ ~r.blind =>
    \E n \in 1 .. Len(written) :
      /\ written[n].events = r.events
      /\ r.snap.head = written[n].file.head

\* What a command may save goes on from the last save.
GoesOn(r) ==
  ~r.blind /\ "edit" \notin meddled /\ Len(written) > 0 =>
    Extends(r.events, written[Len(written)].events)

CommandOK(p, r) ==
  /\ Genuine(r.snap)
  /\ FromSave(r)
  /\ r.phase \in Saving => lock = p /\ GoesOn(r)
  /\ r.phase = "writing" => ~r.blind /\ (r.events # <<>> => key # None)
  /\ r.fresh => r.phase = "writing" /\ ("lose" \in meddled \/ NoLedgerSaved)

FileIsLast ==
  "edit" \notin meddled /\ Len(written) > 0 => file = written[Len(written)].file

IInv ==
  /\ Types
  /\ AllSaved
  /\ Genuine(file)
  /\ FileIsLast
  /\ AppendOnly
  /\ KeyKept
  /\ \A p \in Proc : CommandOK(p, proc[p])

-----------------------------------------------------------------------------
(* Steps that save nothing.                                                *)

LEMMA SameSaves ==
  ASSUME written' = written
  PROVE  /\ AllSaved => AllSaved'
         /\ OldRecords' = OldRecords /\ OldHeads' = OldHeads
         /\ NoLedgerSaved' = NoLedgerSaved
  BY DEF AllSaved, OldRecords, OldHeads, OldFiles, NoLedgerSaved

\* A command that is not saving is left as it was by whatever leaves the saves,
\* and loses its claim on the lock, the key and the file to nobody.
LEMMA OthersKeep ==
  ASSUME IInv, written' = written, meddled \subseteq meddled',
         NEW q \in Proc, proc'[q] = proc[q],
         proc[q].phase \in Saving =>
           lock' = lock /\ key' = key /\ meddled' = meddled
  PROVE  CommandOK(q, proc[q])'
  <1>1. CommandOK(q, proc[q])
    BY DEF IInv
  <1> DEFINE r == proc[q]
  <1>2. Genuine(r.snap)' = Genuine(r.snap)
    BY SameSaves DEF Genuine
  <1>3. FromSave(r)' = FromSave(r)
    BY DEF FromSave
  <1>4. r.phase \in Saving => GoesOn(r)' = GoesOn(r)
    BY DEF GoesOn
  <1>5. NoLedgerSaved' = NoLedgerSaved
    BY SameSaves
  <1> QED BY <1>1, <1>2, <1>3, <1>4, <1>5 DEF CommandOK, Saving

\* A step of p that leaves the file alone.
LEMMA Moves ==
  ASSUME IInv, NEW p \in Proc, NEW r \in ProcType, Become(p, r),
         UNCHANGED <<file, written, meddled>>,
         {key', made', drawn'} \subseteq Nat, lock' \in Proc \cup {None},
         KeyKept', CommandOK(p, r)',
         \A q \in Proc \ {p} : proc[q].phase \in Saving => lock' = lock /\ key' = key
  PROVE  IInv'
  <1>1. Types'
    BY DEF IInv, Types, Become
  <1>2. AllSaved' /\ Genuine(file)'
    BY SameSaves DEF IInv, Genuine
  <1>3. FileIsLast' /\ AppendOnly'
    BY DEF IInv, FileIsLast, AppendOnly
  <1>4. ASSUME NEW q \in Proc PROVE CommandOK(q, proc[q])'
    <2>1. CASE q = p
      <3>1. proc'[q] = r
        BY <2>1 DEF IInv, Types, Become
      <3> QED BY <2>1, <3>1
    <2>2. CASE q # p
      <3>1. proc'[q] = proc[q]
        BY <2>2 DEF IInv, Types, Become
      <3> QED BY <2>2, <3>1, OthersKeep
    <2> QED BY <2>1, <2>2
  <1> QED BY <1>1, <1>2, <1>3, <1>4 DEF IInv

\* Only the command that holds the lock is saving.
LEMMA OneSaves ==
  ASSUME IInv, NEW p \in Proc, lock \in {None, p}
  PROVE  \A q \in Proc \ {p} : proc[q].phase \notin Saving
  BY LedgerAssumption DEF IInv, CommandOK

LEMMA IdleOK == ASSUME NEW p PROVE CommandOK(p, Idle)
  <1>1. Genuine(Plain(<<>>))
    <2>1. <<>> \in Seq(Event) /\ <<>> \in Seq(OldRecords)
      OBVIOUS
    <2> QED BY <2>1 DEF Genuine, Plain, OldHeads
  <1> QED BY <1>1 DEF CommandOK, Idle, FromSave, Saving

LEMMA IdleOKNext == ASSUME NEW p PROVE CommandOK(p, Idle)'
  <1>1. (Genuine(Plain(<<>>)))'
    <2>1. <<>> \in Seq(Event) /\ <<>> \in Seq(OldRecords')
      OBVIOUS
    <2> QED BY <2>1 DEF Genuine, Plain, OldHeads
  <1> QED BY <1>1 DEF CommandOK, Idle, FromSave, Saving

LEMMA StaysOK ==
  ASSUME NEW p, NEW c, CommandOK(p, c), UNCHANGED <<key, lock, written, meddled>>
  PROVE  CommandOK(p, c)'
  <1>1. (Genuine(c.snap))'
    BY SameSaves DEF CommandOK, Genuine
  <1> QED BY <1>1, SameSaves DEF CommandOK, FromSave, GoesOn

LEMMA ReadKeeps == ASSUME IInv, NEW p \in Proc, Read(p) PROVE IInv'
  <1> DEFINE r == [Idle EXCEPT !.phase = "reading", !.snap = file]
  <1>1. r \in ProcType
    BY IdleType DEF IInv, Types, ProcType, Phases
  <1>2. Genuine(file)'
    BY SameSaves DEF IInv, Genuine, Read
  <1>3. CommandOK(p, r)'
    BY <1>2 DEF CommandOK, Idle, FromSave, Saving, Read
  <1>4. KeyKept' /\ {key', made', drawn'} \subseteq Nat /\ lock' \in Proc \cup {None}
    BY DEF IInv, Types, KeyKept, Read
  <1> QED BY <1>1, <1>3, <1>4, Moves DEF Read

LEMMA ExitKeeps == ASSUME IInv, NEW p \in Proc, Exit(p) PROVE IInv'
  <1>1. KeyKept' /\ {key', made', drawn'} \subseteq Nat /\ lock' \in Proc \cup {None}
    BY DEF IInv, Types, KeyKept, Exit
  <1> QED BY <1>1, IdleType, IdleOKNext, Moves DEF Exit

LEMMA LoadKeeps == ASSUME IInv, NEW p \in Proc, Load(p) PROVE IInv'
  <1> DEFINE f == proc[p].snap
             r == LoadFromLedger(f, key)
             damaged == Damaged(f)
  <1>1. KeyKept' /\ {key', made', drawn'} \subseteq Nat /\ lock' \in Proc \cup {None}
    BY DEF IInv, Types, KeyKept, Load
  <1>2. CASE Become(p, Idle)
    BY <1>1, <1>2, IdleType, IdleOKNext, Moves DEF Load
  <1>3. CASE Become(p, r)
    <2>1. f \in FileType /\ Genuine(f) /\ AllSaved
      BY DEF IInv, Types, ProcType, CommandOK
    <2>2. damaged \in ProcType /\ CommandOK(p, damaged)
      <3>1. damaged \in ProcType
        BY IdleType DEF Damaged, ProcType, Phases
      <3>2. CommandOK(p, damaged)
        BY IdleOK DEF Damaged, CommandOK, Idle, FromSave, Saving
      <3> QED BY <3>1, <3>2
    <2>3. ASSUME NEW e \in Seq(Event), NEW b \in BOOLEAN,
                 f.ledger # <<>> /\ ~b =>
                   \E n \in 1 .. Len(written) :
                     written[n].events = e /\ f.head = written[n].file.head
          PROVE  Loaded(f, e, b) \in ProcType /\ CommandOK(p, Loaded(f, e, b))
      <3>1. Loaded(f, e, b) \in ProcType
        BY <2>1, IdleType DEF Loaded, ProcType, Phases
      <3>2. FromSave(Loaded(f, e, b))
        BY <2>3 DEF FromSave, Loaded, Idle
      <3>3. CommandOK(p, Loaded(f, e, b))
        BY <2>1, <3>2 DEF CommandOK, Loaded, Idle, Saving
      <3> QED BY <3>1, <3>3
    <2>4. r \in ProcType /\ CommandOK(p, r)
      <3>1. CASE f.ledger # <<>> /\ key = None
        <4>1. <<>> \in Seq(Event)
          OBVIOUS
        <4> QED BY <3>1, <4>1, <2>3 DEF LoadFromLedger
      <3>2. CASE f.ledger # <<>> /\ key # None
        <4>1. CASE Chained(f.ledger, key) /\ HeadMatches(f.ledger, f.head, key)
          <5>1. \E n \in 1 .. Len(written) :
                  Decrypted(f.ledger) = written[n].events /\ f.head = written[n].file.head
            BY <2>1, <3>2, <4>1, ChainIsOneSave
          <5>2. Decrypted(f.ledger) \in Seq(Event)
            BY <5>1, <2>1 DEF AllSaved, SavedAt
          <5>3. r = Loaded(f, Decrypted(f.ledger), FALSE)
            BY <3>2, <4>1 DEF LoadFromLedger
          <5> QED BY <5>1, <5>2, <5>3, <2>3
        <4>2. CASE ~(Chained(f.ledger, key) /\ HeadMatches(f.ledger, f.head, key))
          <5>1. r = damaged
            BY <3>2, <4>2 DEF LoadFromLedger
          <5> QED BY <5>1, <2>2
        <4> QED BY <4>1, <4>2
      <3>3. CASE f.ledger = <<>>
        <4>1. f.audit \in Seq(Event)
          BY <2>1 DEF Genuine
        <4>2. r = damaged \/ r = Loaded(f, f.audit, FALSE)
          BY <3>3 DEF LoadFromLedger
        <4> QED BY <3>3, <4>1, <4>2, <2>2, <2>3
      <3> QED BY <3>1, <3>2, <3>3
    <2>5. PICK c \in ProcType : c = r
      BY <2>4
    <2>6. CommandOK(p, c)'
      BY <2>4, <2>5, StaysOK DEF Load
    <2> QED BY <1>1, <1>3, <2>5, <2>6, Moves DEF Load
  <1> QED BY <1>2, <1>3 DEF Load

LEMMA MarkedType ==
  ASSUME NEW e \in Seq(Event), NEW m \in Nat
  PROVE  /\ Marked(e, m) \in Seq(Event) /\ Len(Marked(e, m)) = Len(e)
  <1>1. \A i \in 1 .. Len(e) : e[i] \in Event
    BY SeqElement
  <1>2. \A i \in 1 .. Len(e) :
          [id |-> e[i].id, synced |-> e[i].synced \/ i = m] \in Event
    BY <1>1 DEF Event
  <1>3. Len(e) \in Nat
    OBVIOUS
  <1> QED BY <1>2, <1>3 DEF Marked

LEMMA ExtendsMore ==
  ASSUME NEW e \in Seq(Event), NEW d \in Event, NEW m \in Nat
  PROVE  Extends(Marked(e, m), e) /\ Extends(<<d>> \o Marked(e, m), e)
  <1> DEFINE k == Marked(e, m)
  <1>1. k \in Seq(Event) /\ Len(k) = Len(e) /\ Len(e) \in Nat
    BY MarkedType
  <1>2. \A i \in 1 .. Len(e) : k[i].id = e[i].id /\ (e[i].synced => k[i].synced)
    BY DEF Marked
  <1> HIDE DEF k
  <1>3. Len(<<d>> \o k) = Len(e) + 1 /\ \A i \in 1 .. Len(e) : (<<d>> \o k)[i + 1] = k[i]
    BY <1>1
  <1>4. Extends(k, e) /\ Extends(<<d>> \o k, e)
    BY <1>1, <1>2, <1>3 DEF Extends
  <1> QED BY <1>4 DEF k

\* A command that loaded the file as it is has the events of the last save.
LEMMA LoadedLast ==
  ASSUME IInv, NEW p \in Proc, proc[p].phase = "loaded", proc[p].snap = file,
         ~proc[p].blind, "edit" \notin meddled, Len(written) > 0
  PROVE  written[Len(written)].events \in {proc[p].events, <<>>}
  <1> DEFINE r == proc[p]
             L == Len(written)
  <1>1. file = written[L].file /\ L \in 1 .. L
    BY DEF IInv, FileIsLast, Types
  <1>2. written[L].events \in Seq(Event) /\ SavedAt(written[L], L)
    BY <1>1 DEF IInv, AllSaved, SavedAt
  <1>3. PICK k \in Nat : /\ written[L].events # <<>> => k # None
                        /\ file = Rebuilt(written[L].events, L, k)
    BY <1>1, <1>2 DEF SavedAt
  <1>4. SUFFICES ASSUME written[L].events # <<>> PROVE written[L].events = r.events
    OBVIOUS
  <1>5. file.ledger # <<>>
    <2>1. file.ledger = Chain(written[L].events, L, k)
      BY <1>3, <1>4 DEF Rebuilt
    <2>2. Len(file.ledger) = Len(written[L].events) /\ Len(written[L].events) # 0
      BY <2>1, <1>2, <1>1, <1>4, ChainType
    <2> QED BY <2>2
  <1>6. PICK n \in 1 .. L : written[n].events = r.events /\ file.head = written[n].file.head
    BY <1>5 DEF IInv, CommandOK, FromSave
  <1>7. file.head = HeadOf(Chain(written[L].events, L, k), k) /\ k # None
    BY <1>3, <1>4 DEF Rebuilt
  <1>8. file.head.key # None
    BY <1>7 DEF HeadOf
  <1>9. file.head.last = <<L, Len(written[L].events)>>
    BY <1>1, <1>8, SavedHead DEF IInv
  <1>10. file.head.last = <<n, Len(written[n].events)>>
    BY <1>6, <1>8, SavedHead DEF IInv
  <1> QED BY <1>6, <1>9, <1>10

LEMMA BeginSaveKeeps == ASSUME IInv, NEW p \in Proc, BeginSave(p) PROVE IInv'
  <1> DEFINE r == proc[p]
  <1>0. r \in ProcType /\ Len(written) \in Nat /\ drawn \in Nat
    BY DEF IInv, Types
  <1>1. KeyKept'
    BY DEF IInv, KeyKept, BeginSave
  <1>2. CASE r.snap # file /\ Become(p, Idle) /\ UNCHANGED <<lock, drawn>>
    <2>1. {key', made', drawn'} \subseteq Nat /\ lock' \in Proc \cup {None}
      BY <1>2 DEF IInv, Types, BeginSave
    <2> QED BY <1>1, <1>2, <2>1, IdleType, IdleOKNext, Moves DEF BeginSave
  <1>3. ASSUME r.snap = file, lock' = p, NEW new \in {0, 1}, NEW m \in 0 .. Len(r.events),
               drawn' = drawn + new,
               Become(p, [r EXCEPT !.phase = "keying",
                 !.events = IF new = 1 THEN <<EventOf(drawn + 1)>> \o Marked(r.events, m)
                                       ELSE Marked(r.events, m)])
        PROVE  IInv'
    <2> DEFINE e == IF new = 1 THEN <<EventOf(drawn + 1)>> \o Marked(r.events, m)
                               ELSE Marked(r.events, m)
    <2>1. e \in Seq(Event) /\ Extends(e, r.events)
      <3>1. r.events \in Seq(Event) /\ m \in Nat
        BY <1>0 DEF ProcType
      <3>2. EventOf(drawn + 1) \in Event
        BY <1>0 DEF EventOf, Event
      <3>3. Marked(r.events, m) \in Seq(Event)
        BY <3>1, MarkedType
      <3> QED BY <3>1, <3>2, <3>3, ExtendsMore
    <2>2. PICK c \in ProcType : c = [r EXCEPT !.phase = "keying", !.events = e]
      BY <1>0, <2>1 DEF ProcType, Phases
    <2>3. /\ c.phase = "keying" /\ c.events = e
          /\ c.snap = r.snap /\ c.blind = r.blind /\ c.fresh = r.fresh
      BY <1>0, <2>2 DEF ProcType
    <2>4. r.phase = "loaded" /\ CommandOK(p, r) /\ Genuine(r.snap) /\ ~r.fresh
      BY DEF IInv, BeginSave, CommandOK
    <2>5. GoesOn(c)
      <3> SUFFICES ASSUME ~r.blind, "edit" \notin meddled, Len(written) > 0
                   PROVE  Extends(e, written[Len(written)].events)
        BY <2>3 DEF GoesOn
      <3>1. written[Len(written)].events \in {r.events, <<>>}
        BY <1>3, <2>4, LoadedLast
      <3>2. Extends(e, <<>>)
        BY <2>1 DEF Extends
      <3> QED BY <3>1, <3>2, <2>1
    <2>6. CommandOK(p, c)'
      <3>1. (Genuine(c.snap))'
        BY <2>3, <2>4, SameSaves DEF Genuine, BeginSave
      <3>2. GoesOn(c)'
        BY <2>5 DEF GoesOn, BeginSave
      <3> QED BY <1>3, <2>3, <2>4, <3>1, <3>2 DEF CommandOK, FromSave, Saving
    <2>7. {key', made', drawn'} \subseteq Nat /\ lock' \in Proc \cup {None}
      <3>1. drawn' \in Nat /\ lock' \in Proc \cup {None}
        BY <1>0, <1>3
      <3>2. key' \in Nat /\ made' \in Nat
        BY DEF IInv, Types, BeginSave
      <3> QED BY <3>1, <3>2
    <2>8. \A q \in Proc \ {p} : proc[q].phase \notin Saving
      BY OneSaves DEF BeginSave
    <2> QED BY <1>1, <1>3, <2>2, <2>6, <2>7, <2>8, Moves DEF BeginSave
  <1> QED BY <1>2, <1>3 DEF BeginSave

LEMMA GiveUpKeeps ==
  ASSUME IInv, NEW p \in Proc, lock = p, GiveUp(p),
         UNCHANGED <<file, written, drawn, made, meddled>>, key' \in Nat, KeyKept'
  PROVE  IInv'
  <1>1. {key', made', drawn'} \subseteq Nat /\ lock' \in Proc \cup {None}
    BY DEF IInv, Types, GiveUp
  <1>2. \A q \in Proc \ {p} : proc[q].phase \notin Saving
    BY OneSaves
  <1> QED BY <1>1, <1>2, IdleType, IdleOKNext, Moves DEF GiveUp

LEMMA KillKeeps == ASSUME IInv, NEW p \in Proc, Kill(p) PROVE IInv'
  <1>1. key' \in Nat /\ KeyKept'
    BY DEF IInv, Types, KeyKept, Kill
  <1> QED BY <1>1, GiveUpKeeps DEF Kill

LEMMA FailedWriteKeeps == ASSUME IInv, NEW p \in Proc, WriteFails(p) PROVE IInv'
  <1>1. lock = p /\ (proc[p].fresh => "lose" \in meddled \/ NoLedgerSaved)
    BY DEF IInv, CommandOK, WriteFails, Saving
  <1>2. key' \in Nat
    BY DEF IInv, Types, WriteFails, None
  <1>3. KeyKept'
    <2>1. CASE key' = key
      BY <2>1 DEF IInv, KeyKept, WriteFails
    <2>2. CASE proc[p].fresh
      BY <1>1, <2>2 DEF KeyKept, NoLedgerSaved, WriteFails
    <2> QED BY <2>1, <2>2 DEF WriteFails
  <1> QED BY <1>1, <1>2, <1>3, GiveUpKeeps DEF WriteFails

LEMMA FindKeyKeeps == ASSUME IInv, NEW p \in Proc, FindKey(p) PROVE IInv'
  <1> DEFINE r == proc[p]
  <1>0. /\ r \in ProcType /\ {key, made, drawn} \subseteq Nat /\ r.phase = "keying"
        /\ CommandOK(p, r) /\ lock = p /\ ~r.fresh
    BY DEF IInv, Types, FindKey, CommandOK, Saving
  <1>1. CASE GiveUp(p) /\ UNCHANGED <<key, made>>
    <2>1. key' \in Nat /\ KeyKept'
      BY <1>0, <1>1 DEF IInv, KeyKept, FindKey
    <2> QED BY <1>0, <1>1, <2>1, GiveUpKeeps DEF FindKey
  <1>2. ASSUME ~r.blind, r.events # <<>> => key # None,
               Become(p, [r EXCEPT !.phase = "writing"]), UNCHANGED <<key, made, lock>>
        PROVE  IInv'
    <2>1. PICK c \in ProcType : c = [r EXCEPT !.phase = "writing"]
      BY <1>0 DEF ProcType, Phases
    <2>2. /\ c.phase = "writing" /\ c.events = r.events
          /\ c.snap = r.snap /\ c.blind = r.blind /\ c.fresh = r.fresh
      BY <1>0, <2>1 DEF ProcType
    <2>3. CommandOK(p, c)
      <3>1. Genuine(c.snap) /\ GoesOn(c)
        BY <1>0, <2>2 DEF CommandOK, GoesOn, Saving
      <3> QED BY <1>0, <1>2, <2>2, <3>1 DEF CommandOK, FromSave, Saving
    <2>4. CommandOK(p, c)'
      BY <1>2, <2>3, StaysOK DEF FindKey
    <2>5. KeyKept' /\ {key', made', drawn'} \subseteq Nat /\ lock' \in Proc \cup {None}
      BY <1>0, <1>2 DEF IInv, KeyKept, FindKey
    <2> QED BY <1>2, <2>1, <2>4, <2>5, Moves DEF FindKey
  <1>3. ASSUME ~r.blind, key = None, made' = made + 1, key' = made + 1, UNCHANGED lock,
               Become(p, [r EXCEPT !.phase = "writing", !.fresh = TRUE])
        PROVE  IInv'
    <2>1. PICK c \in ProcType : c = [r EXCEPT !.phase = "writing", !.fresh = TRUE]
      BY <1>0 DEF ProcType, Phases
    <2>2. /\ c.phase = "writing" /\ c.events = r.events
          /\ c.snap = r.snap /\ c.blind = r.blind
      BY <1>0, <2>1 DEF ProcType
    <2>3. key' \in Nat /\ key' # None
      BY <1>0, <1>3 DEF None
    <2>4. "lose" \in meddled \/ NoLedgerSaved
      BY <1>3 DEF IInv, KeyKept, NoLedgerSaved
    <2>5. CommandOK(p, c)'
      <3>1. (Genuine(c.snap))'
        BY <1>0, <2>2, SameSaves DEF CommandOK, Genuine, FindKey
      <3>2. GoesOn(c)'
        BY <1>0, <2>2 DEF CommandOK, GoesOn, Saving, FindKey
      <3>3. ("lose" \in meddled \/ NoLedgerSaved)'
        BY <2>4, SameSaves DEF FindKey
      <3> QED BY <1>0, <1>3, <2>2, <2>3, <3>1, <3>2, <3>3 DEF CommandOK, FromSave, Saving
    <2>6. KeyKept' /\ {key', made', drawn'} \subseteq Nat /\ lock' \in Proc \cup {None}
      BY <1>0, <1>3, <2>3 DEF KeyKept, FindKey
    <2>7. \A q \in Proc \ {p} : proc[q].phase \notin Saving
      BY <1>0, OneSaves
    <2> QED BY <1>3, <2>1, <2>5, <2>6, <2>7, Moves DEF FindKey
  <1> QED BY <1>1, <1>2, <1>3 DEF FindKey, Unavailable

-----------------------------------------------------------------------------
(* Steps that write the file.                                              *)

LEMMA MoreSaves ==
  ASSUME IInv, NEW w \in [file : FileType, events : Seq(Event)],
         SavedAt(w, Len(written) + 1), written' = Append(written, w)
  PROVE  /\ AllSaved'
         /\ OldRecords \subseteq OldRecords' /\ OldHeads \subseteq OldHeads'
         /\ (Genuine(w.file))'
         /\ Len(written') = Len(written) + 1 /\ Len(written) \in Nat
         /\ written'[Len(written) + 1] = w
         /\ \A n \in 1 .. Len(written) : written'[n] = written[n]
  <1>1. /\ Len(written') = Len(written) + 1 /\ Len(written) \in Nat
        /\ written'[Len(written) + 1] = w
        /\ \A n \in 1 .. Len(written) : written'[n] = written[n]
    BY DEF IInv, Types
  <1>2. AllSaved'
    <2> SUFFICES ASSUME NEW n \in 1 .. Len(written) + 1 PROVE SavedAt(written'[n], n)
      BY <1>1 DEF AllSaved, SavedAt
    <2>1. CASE n \in 1 .. Len(written)
      BY <1>1, <2>1 DEF IInv, AllSaved
    <2>2. CASE n = Len(written) + 1
      BY <1>1, <2>2
    <2> QED BY <1>1, <2>1, <2>2
  <1>3. OldFiles \subseteq OldFiles' /\ w.file \in OldFiles'
    BY <1>1 DEF OldFiles
  <1>4. OldRecords \subseteq OldRecords' /\ OldHeads \subseteq OldHeads'
    BY <1>3 DEF OldRecords, OldHeads
  <1>5. (Genuine(w.file))'
    <2>1. w.file \in FileType
      OBVIOUS
    <2>2. \A i \in 1 .. Len(w.file.ledger) : w.file.ledger[i] \in OldRecords'
      BY <1>3 DEF OldRecords
    <2>3. w.file.ledger \in Seq(OldRecords')
      BY <2>1, <2>2, SeqOfFewer DEF FileType
    <2> QED BY <1>3, <2>1, <2>3 DEF Genuine, OldHeads, FileType
  <1> QED BY <1>1, <1>2, <1>4, <1>5

LEMMA WriteKeeps == ASSUME IInv, NEW p \in Proc, Write(p) PROVE IInv'
  <1> DEFINE r == proc[p]
             L == Len(written)
  <1>0. /\ r \in ProcType /\ key \in Nat /\ L \in Nat /\ r.events \in Seq(Event)
        /\ r.phase = "writing" /\ CommandOK(p, r) /\ lock = p
        /\ ~r.blind /\ (r.events # <<>> => key # None)
    BY DEF IInv, Types, Write, CommandOK, Saving, ProcType
  <1>1. PICK f \in FileType : f = Rebuilt(r.events, L + 1, key)
    BY <1>0, RebuiltType
  <1>2. PICK w \in [file : FileType, events : Seq(Event)] :
          w = [file |-> f, events |-> r.events]
    BY <1>0
  <1>3. /\ written' = Append(written, w) /\ file' = f
        /\ w.file = f /\ w.events = r.events
    BY <1>1, <1>2 DEF Write
  <1>4. /\ AllSaved'
        /\ OldRecords \subseteq OldRecords' /\ OldHeads \subseteq OldHeads'
        /\ (Genuine(file))'
        /\ Len(written') = L + 1 /\ written'[L + 1] = w
        /\ \A n \in 1 .. L : written'[n] = written[n]
    <2>1. SavedAt(w, L + 1)
      BY <1>0, <1>1, <1>3 DEF SavedAt
    <2>2. (Genuine(w.file))'
      BY <1>3, <2>1, MoreSaves
    <2>3. (Genuine(file))'
      BY <2>2, <1>3 DEF Genuine
    <2> QED BY <1>3, <2>1, <2>3, MoreSaves
  <1>5. PICK c \in ProcType : c = [r EXCEPT !.phase = "loaded", !.snap = f, !.fresh = FALSE]
    BY <1>0, <1>1 DEF ProcType, Phases
  <1>6. /\ c.phase = "loaded" /\ c.snap = f /\ c.events = r.events /\ ~c.fresh
    BY <1>0, <1>5 DEF ProcType
  <1>7. proc' = [proc EXCEPT ![p] = c]
    BY <1>1, <1>5 DEF Write, Become
  <1>8. Types'
    BY <1>0, <1>1, <1>3, <1>5, <1>7 DEF IInv, Types, Write
  <1>9. FileIsLast'
    BY <1>0, <1>3, <1>4 DEF FileIsLast
  <1>10. AppendOnly'
    <2> SUFFICES ASSUME "edit" \notin meddled, NEW n \in 2 .. L + 1
                 PROVE  Extends(written'[n].events, written'[n - 1].events)
      BY <1>4 DEF AppendOnly, Write
    <2>1. CASE n \in 2 .. L
      BY <1>0, <1>4, <2>1 DEF IInv, AppendOnly
    <2>2. CASE n = L + 1
      <3>1. Extends(r.events, written[L].events)
        BY <1>0, <2>2 DEF CommandOK, GoesOn, Saving
      <3>2. written'[n].events = r.events /\ written'[n - 1] = written[L]
        BY <1>0, <1>3, <1>4, <2>2
      <3> QED BY <3>1, <3>2
    <2> QED BY <1>0, <2>1, <2>2
  <1>11. KeyKept'
    <2> SUFFICES ASSUME "lose" \notin meddled, NEW n \in 1 .. L + 1,
                        written'[n].file.ledger # <<>>
                 PROVE  key # None
      BY <1>4 DEF KeyKept, Write
    <2>1. CASE n \in 1 .. L
      BY <1>4, <2>1 DEF IInv, KeyKept
    <2>2. CASE n = L + 1
      <3>1. f.ledger # <<>>
        BY <1>3, <1>4, <2>2
      <3> QED BY <3>1, <1>0, <1>1 DEF Rebuilt, Plain
    <2> QED BY <1>0, <2>1, <2>2
  <1>12. ASSUME NEW q \in Proc PROVE CommandOK(q, proc[q])'
    <2>1. CASE q = p
      <3>1. proc'[q] = c
        BY <2>1, <1>7 DEF IInv, Types
      <3>2. (Genuine(c.snap))'
        BY <1>3, <1>4, <1>6 DEF Genuine
      <3>3. FromSave(c)'
        BY <1>0, <1>3, <1>4, <1>6 DEF FromSave
      <3> QED BY <3>1, <3>2, <3>3, <1>6 DEF CommandOK, Saving
    <2>2. CASE q # p
      <3> DEFINE s == proc[q]
      <3>1. proc'[q] = s /\ s \in ProcType /\ CommandOK(q, s)
        BY <2>2, <1>7 DEF IInv, Types
      <3>2. s.phase \notin Saving /\ ~s.fresh
        BY <1>0, <2>2, <3>1, OneSaves DEF CommandOK, Saving
      <3>3. Genuine(s.snap)'
        <4>1. s.snap.ledger \in Seq(OldRecords')
          BY <1>4, <3>1, SeqOfFewer DEF CommandOK, Genuine
        <4> QED BY <1>4, <3>1, <4>1 DEF CommandOK, Genuine
      <3>4. FromSave(s)'
        <4> SUFFICES ASSUME s.phase = "loaded", s.snap.ledger # <<>>, ~s.blind
                     PROVE  \E n \in 1 .. L + 1 : /\ written'[n].events = s.events
                                                 /\ s.snap.head = written'[n].file.head
          BY <1>4, <3>1 DEF FromSave
        <4>1. PICK n \in 1 .. L : /\ written[n].events = s.events
                                 /\ s.snap.head = written[n].file.head
          BY <3>1 DEF CommandOK, FromSave
        <4>2. n \in 1 .. L + 1 /\ written'[n] = written[n]
          BY <1>0, <1>4
        <4> QED BY <4>1, <4>2
      <3> QED BY <3>1, <3>2, <3>3, <3>4 DEF CommandOK, Saving
    <2> QED BY <2>1, <2>2
  <1> QED BY <1>4, <1>8, <1>9, <1>10, <1>11, <1>12 DEF IInv

-----------------------------------------------------------------------------
(* What happens outside the program.                                       *)

LEMMA OutsideKeeps ==
  ASSUME IInv, UNCHANGED <<proc, written>>, lock = None, meddled \subseteq meddled',
         Types', (Genuine(file))', FileIsLast', AppendOnly', KeyKept'
  PROVE  IInv'
  <1>1. AllSaved'
    BY SameSaves DEF IInv
  <1>2. ASSUME NEW q \in Proc PROVE CommandOK(q, proc[q])'
    <2>1. proc[q].phase \notin Saving
      BY LedgerAssumption DEF IInv, CommandOK
    <2> QED BY <2>1, OthersKeep
  <1> QED BY <1>1, <1>2 DEF IInv

LEMMA LoseKeyKeeps == ASSUME IInv, LoseKey PROVE IInv'
  <1>1. Types'
    BY DEF IInv, Types, LoseKey, None
  <1>2. (Genuine(file))'
    BY SameSaves DEF IInv, Genuine, LoseKey
  <1>3. FileIsLast' /\ AppendOnly' /\ KeyKept'
    BY DEF IInv, FileIsLast, AppendOnly, KeyKept, LoseKey
  <1> QED BY <1>1, <1>2, <1>3, OutsideKeeps DEF LoseKey

LEMMA ReturnKeyKeeps == ASSUME IInv, ReturnKey PROVE IInv'
  <1>1. Types'
    BY DEF IInv, Types, ReturnKey
  <1>2. (Genuine(file))'
    BY SameSaves DEF IInv, Genuine, ReturnKey
  <1>3. FileIsLast' /\ AppendOnly' /\ KeyKept'
    BY DEF IInv, FileIsLast, AppendOnly, KeyKept, ReturnKey
  <1> QED BY <1>1, <1>2, <1>3, OutsideKeeps DEF ReturnKey

LEMMA OldTypes ==
  ASSUME IInv
  PROVE  OldRecords \subseteq RecordType /\ OldHeads \subseteq HeadType
  <1>1. \A g \in OldFiles : g \in FileType
    <2>1. \A n \in 1 .. Len(written) : written[n].file \in FileType
      <3> SUFFICES ASSUME NEW n \in 1 .. Len(written) PROVE written[n].file \in FileType
        OBVIOUS
      <3>1. written[n] \in [file : FileType, events : Seq(Event)]
        <4>1. written \in Seq([file : FileType, events : Seq(Event)])
          BY DEF IInv, Types
        <4> QED BY <4>1, SeqElement
      <3> QED BY <3>1
    <2> QED BY <2>1 DEF OldFiles
  <1>2. Altered \in RecordType /\ NoHead \in HeadType
    BY DEF Altered, NoHead, RecordType, HeadType, HashType, NoHash, None, EventOf, Event
  <1>3. \A g \in OldFiles : /\ \A i \in 1 .. Len(g.ledger) : g.ledger[i] \in RecordType
                          /\ g.head \in HeadType
    BY <1>1 DEF FileType
  <1> QED BY <1>2, <1>3 DEF OldRecords, OldHeads

LEMMA EditKeeps == ASSUME IInv, Edit PROVE IInv'
  <1>1. PICK n \in 0 .. MaxEvents :
          \E ledger \in [1 .. n -> OldRecords], head \in OldHeads, audit \in {<<>>, <<EventOf(None)>>} :
            file' = [audit |-> audit, ledger |-> ledger, head |-> head]
    BY DEF Edit, OldHeads
  <1>2. PICK ledger \in [1 .. n -> OldRecords], head \in OldHeads, audit \in {<<>>, <<EventOf(None)>>} :
          file' = [audit |-> audit, ledger |-> ledger, head |-> head]
    BY <1>1
  <1>3. n \in Nat
    BY LedgerAssumption
  <1>4. ledger \in Seq(OldRecords) /\ ledger \in Seq(RecordType)
    BY <1>3, OldTypes
  <1>5. audit \in Seq(Event)
    <2>1. <<>> \in Seq(Event)
      OBVIOUS
    <2>2. EventOf(None) \in Event
      BY DEF None, EventOf, Event
    <2>3. <<EventOf(None)>> \in Seq(Event)
      BY <2>2
    <2> QED BY <2>1, <2>3
  <1>6. head \in HeadType
    BY OldTypes
  <1>7. Types'
    BY <1>2, <1>4, <1>5, <1>6 DEF IInv, Types, FileType, Edit
  <1>8. (Genuine(file))'
    BY <1>2, <1>4, <1>5, SameSaves DEF Genuine, Edit
  <1>9. "edit" \in meddled'
    BY DEF Edit
  <1>10. FileIsLast' /\ AppendOnly' /\ KeyKept'
    BY <1>9 DEF IInv, FileIsLast, AppendOnly, KeyKept, Edit
  <1> QED BY <1>7, <1>8, <1>10, OutsideKeeps DEF Edit

-----------------------------------------------------------------------------
(* Bounds: how much the files and the commands hold.                       *)

Short(e) == e \in Seq(Events) /\ Len(e) <= drawn + 1

CommandFits(p, r) ==
  /\ FileOK(r.snap) /\ Short(r.snap.audit) /\ Short(r.events)
  /\ r.phase \in Saving <=> lock = p
  /\ r.phase \in Saving => Len(written) < MaxSaves

SavesFit ==
  \A n \in 1 .. Len(written) : Short(written[n].events) /\ FileOK(written[n].file)

Fits ==
  /\ key <= made /\ drawn <= MaxEvents /\ Len(written) <= MaxSaves
  /\ meddled \subseteq {"lose", "edit"}
  /\ SavesFit
  /\ FileOK(file) /\ Short(file.audit)
  /\ \A p \in Proc : CommandFits(p, proc[p])

LEMMA StillFits ==
  ASSUME {drawn, made, drawn', made'} \subseteq Nat, drawn <= drawn', made <= made',
         meddled \subseteq meddled', NEW f, NEW e
  PROVE  /\ FileOK(f) => FileOK(f)'
         /\ Short(e) => Short(e)'
  <1>1. Events \subseteq Events'
    BY DEF Events
  <1>2. Records \subseteq Records'
    BY <1>1 DEF Records, Hashes
  <1>3. ASSUME Short(e) PROVE Short(e)'
    <2>1. e \in Seq(Events')
      BY <1>1, <1>3, SeqOfFewer DEF Short
    <2>2. Len(e) \in Nat
      BY <2>1
    <2> QED BY <1>3, <2>1, <2>2 DEF Short
  <1>4. ASSUME FileOK(f) PROVE FileOK(f)'
    <2>1. f.head \in {NoHead} \cup [count : 1 .. MaxEvents + 1, last : Hashes, key : 1 .. made']
      BY <1>4 DEF FileOK
    <2> QED BY <1>1, <1>2, <1>4, <2>1 DEF FileOK, Hashes
  <1> QED BY <1>3, <1>4

LEMMA EmptyFits ==
  ASSUME drawn \in Nat
  PROVE  Short(<<>>) /\ FileOK(Plain(<<>>))
  <1>1. <<>> \in Seq(Events) /\ Len(<<>>) = 0
    OBVIOUS
  <1> QED BY <1>1 DEF Short, FileOK, Plain

LEMMA RebuiltFits ==
  ASSUME {drawn, made} \subseteq Nat, drawn <= MaxEvents, NEW e, Short(e),
         NEW n \in 1 .. MaxSaves, NEW k \in 0 .. made, e # <<>> => k # None
  PROVE  FileOK(Rebuilt(e, n, k)) /\ Short(Rebuilt(e, n, k).audit)
  <1>1. CASE e = <<>>
    BY <1>1, EmptyFits DEF Rebuilt, Plain
  <1>2. CASE e # <<>>
    <2> DEFINE c == Chain(e, n, k)
    <2>1. /\ e \in Seq(Events) /\ Len(e) \in 1 .. MaxEvents + 1
          /\ MaxEvents \in Nat /\ MaxSaves \in Nat /\ k \in 1 .. made
      BY <1>2, LedgerAssumption DEF Short, None
    <2>2. Len(c) = Len(e) /\ c[Len(e)].save = n /\ c[Len(e)].seq = Len(e)
      BY <2>1 DEF Chain
    <2>3. \A i \in 1 .. Len(c) : c[i] \in Records
      <3> SUFFICES ASSUME NEW i \in 1 .. Len(e) PROVE c[i] \in Records
        BY <2>2
      <3>1. Len(e) + 1 - i \in 1 .. Len(e)
        BY <2>1
      <3>2. e[Len(e) + 1 - i] \in Events
        BY <2>1, <3>1
      <3>3. i \in 1 .. MaxEvents + 1
        BY <2>1
      <3>4. (IF i = 1 THEN NoHash ELSE <<n, i - 1>>) \in Hashes
        BY <2>1, <3>3 DEF Hashes
      <3>5. c[i] = [seq |-> i, event |-> e[Len(e) + 1 - i], save |-> n,
                    prev |-> IF i = 1 THEN NoHash ELSE <<n, i - 1>>, key |-> k]
        BY DEF Chain
      <3> QED BY <2>1, <3>2, <3>3, <3>4, <3>5 DEF Records
    <2>4. HeadOf(c, k) \in [count : 1 .. MaxEvents + 1, last : Hashes, key : 1 .. made]
      BY <2>1, <2>2 DEF HeadOf, Hash, Hashes
    <2>5. Rebuilt(e, n, k) = [audit |-> <<>>, ledger |-> c, head |-> HeadOf(c, k)]
      BY <1>2 DEF Rebuilt
    <2> HIDE DEF c
    <2> QED BY <2>3, <2>4, <2>5, EmptyFits DEF FileOK
  <1> QED BY <1>1, <1>2

\* A step of p that leaves the file and the saves alone.
LEMMA MovesFit ==
  ASSUME IInv, Fits, IInv', NEW p \in Proc, NEW r, Become(p, r),
         UNCHANGED <<file, written, meddled>>,
         drawn <= drawn', drawn' <= MaxEvents, made <= made', key' <= made',
         CommandFits(p, r)', \A q \in Proc \ {p} : lock = q <=> lock' = q
  PROVE  Fits'
  <1>1. {drawn, made, drawn', made'} \subseteq Nat
    BY DEF IInv, Types
  <1>2. \A f : FileOK(f) => FileOK(f)'
    BY <1>1, StillFits
  <1>3. \A e : Short(e) => Short(e)'
    BY <1>1, StillFits
  <1>4. SavesFit'
    BY <1>2, <1>3 DEF Fits, SavesFit
  <1>5. FileOK(file)' /\ Short(file.audit)'
    BY <1>2, <1>3 DEF Fits
  <1>6. ASSUME NEW q \in Proc PROVE CommandFits(q, proc[q])'
    <2>1. CASE q = p
      <3>1. proc'[q] = r
        BY <2>1 DEF IInv, Types, Become
      <3> QED BY <2>1, <3>1
    <2>2. CASE q # p
      <3>1. proc'[q] = proc[q] /\ CommandFits(q, proc[q])
        BY <2>2 DEF IInv, Types, Become, Fits
      <3> QED BY <1>2, <1>3, <2>2, <3>1 DEF CommandFits
    <2> QED BY <2>1, <2>2
  <1> QED BY <1>4, <1>5, <1>6 DEF Fits

LEMMA IdleFits ==
  ASSUME drawn \in Nat, NEW p, lock # p
  PROVE  CommandFits(p, Idle)
  BY EmptyFits DEF CommandFits, Idle, Saving, Plain

LEMMA IdleFitsNext ==
  ASSUME drawn' \in Nat, NEW p, lock' # p
  PROVE  CommandFits(p, Idle)'
  <1>1. Short(<<>>)'
    <2>1. <<>> \in Seq(Events')
      OBVIOUS
    <2>2. PICK d \in Nat : d = drawn'
      OBVIOUS
    <2>3. Len(<<>>) <= d + 1
      OBVIOUS
    <2> QED BY <2>1, <2>2, <2>3 DEF Short
  <1>2. FileOK(Plain(<<>>))'
    BY DEF FileOK, Plain
  <1>3. /\ Idle.snap = Plain(<<>>) /\ Plain(<<>>).audit = <<>>
        /\ Idle.events = <<>> /\ Idle.phase \notin Saving
    BY DEF Idle, Plain, Saving
  <1> QED BY <1>1, <1>2, <1>3 DEF CommandFits

LEMMA GiveUpFits ==
  ASSUME IInv, Fits, IInv', NEW p \in Proc, lock = p, GiveUp(p),
         UNCHANGED <<file, written, drawn, made, meddled>>, key' <= made
  PROVE  Fits'
  <1>1. drawn \in Nat /\ made \in Nat /\ drawn <= MaxEvents /\ lock' = None /\ p # None
    BY LedgerAssumption DEF IInv, Types, Fits, GiveUp
  <1>2. CommandFits(p, Idle)'
    BY <1>1, IdleFitsNext
  <1>3. \A q \in Proc \ {p} : lock = q <=> lock' = q
    BY <1>1, LedgerAssumption
  <1> QED BY <1>1, <1>2, <1>3, MovesFit DEF GiveUp

LEMMA ReadFits == ASSUME IInv, Fits, IInv', NEW p \in Proc, Read(p) PROVE Fits'
  <1> DEFINE r == [Idle EXCEPT !.phase = "reading", !.snap = file]
  <1>1. drawn \in Nat /\ made \in Nat /\ key <= made /\ drawn <= MaxEvents /\ lock # p
    BY DEF IInv, Types, Fits, CommandFits, Read, Saving
  <1>2. CommandFits(p, r)
    <2>1. r.snap = file /\ r.events = <<>> /\ r.phase = "reading"
      BY DEF Idle
    <2> QED BY <1>1, <2>1, EmptyFits DEF Fits, CommandFits, Saving
  <1>3. CommandFits(p, r)'
    BY <1>2 DEF CommandFits, FileOK, Short, Events, Records, Hashes, Read
  <1> QED BY <1>1, <1>3, MovesFit DEF Read

LEMMA ExitFits == ASSUME IInv, Fits, IInv', NEW p \in Proc, Exit(p) PROVE Fits'
  <1>1. drawn \in Nat /\ made \in Nat /\ key <= made /\ drawn <= MaxEvents /\ lock # p
    BY DEF IInv, Types, Fits, CommandFits, Exit, Saving
  <1>2. CommandFits(p, Idle)'
    BY <1>1, IdleFitsNext DEF Exit
  <1> QED BY <1>1, <1>2, MovesFit DEF Exit

LEMMA LoadFits == ASSUME IInv, Fits, IInv', NEW p \in Proc, Load(p) PROVE Fits'
  <1> DEFINE f == proc[p].snap
             r == LoadFromLedger(f, key)
  <1>1. drawn \in Nat /\ made \in Nat /\ key <= made /\ drawn <= MaxEvents /\ lock # p
    BY DEF IInv, Types, Fits, CommandFits, Load, Saving
  <1>2. CommandFits(p, Idle)
    BY <1>1, IdleFits
  <1>3. CommandFits(p, r)
    <2>1. /\ f \in FileType /\ Genuine(f) /\ AllSaved /\ SavesFit
          /\ FileOK(f) /\ Short(f.audit)
      BY DEF IInv, Types, ProcType, CommandOK, Fits, CommandFits
    <2>2. CommandFits(p, Damaged(f))
      BY <1>2 DEF CommandFits, Damaged, Idle, Saving
    <2>3. ASSUME NEW e, Short(e), NEW b PROVE CommandFits(p, Loaded(f, e, b))
      BY <1>1, <2>1, <2>3 DEF CommandFits, Loaded, Idle, Saving
    <2>4. CASE f.ledger # <<>> /\ key = None
      BY <1>1, <2>3, <2>4, EmptyFits DEF LoadFromLedger
    <2>5. CASE f.ledger # <<>> /\ key # None
      <3>1. CASE Chained(f.ledger, key) /\ HeadMatches(f.ledger, f.head, key)
        <4>1. \E n \in 1 .. Len(written) : Decrypted(f.ledger) = written[n].events
          BY <2>1, <2>5, <3>1, ChainIsOneSave
        <4>2. Short(Decrypted(f.ledger))
          BY <4>1, <2>1 DEF SavesFit
        <4>3. r = Loaded(f, Decrypted(f.ledger), FALSE)
          BY <2>5, <3>1 DEF LoadFromLedger
        <4> QED BY <4>2, <4>3, <2>3
      <3>2. CASE ~(Chained(f.ledger, key) /\ HeadMatches(f.ledger, f.head, key))
        <4>1. r = Damaged(f)
          BY <2>5, <3>2 DEF LoadFromLedger
        <4> QED BY <4>1, <2>2
      <3> QED BY <3>1, <3>2
    <2>6. CASE f.ledger = <<>>
      <3>1. r = Damaged(f) \/ r = Loaded(f, f.audit, FALSE)
        BY <2>6 DEF LoadFromLedger
      <3> QED BY <3>1, <2>1, <2>2, <2>3
    <2> QED BY <2>4, <2>5, <2>6
  <1>4. PICK c : (c = r \/ c = Idle) /\ Become(p, c)
    BY DEF Load
  <1>5. CommandFits(p, c)
    BY <1>2, <1>3, <1>4
  <1>6. CommandFits(p, c)'
    BY <1>5 DEF CommandFits, FileOK, Short, Events, Records, Hashes, Load
  <1> QED BY <1>1, <1>4, <1>6, MovesFit DEF Load

LEMMA MarkedFits ==
  ASSUME drawn \in Nat, NEW e, Short(e), NEW m \in Nat
  PROVE  /\ Marked(e, m) \in Seq(Events) /\ Len(Marked(e, m)) = Len(e)
  <1>1. e \in Seq(Events) /\ Len(e) \in Nat
    BY DEF Short
  <1>2. \A i \in 1 .. Len(e) : e[i] \in Events
    BY <1>1, SeqElement
  <1>3. \A i \in 1 .. Len(e) :
          [id |-> e[i].id, synced |-> e[i].synced \/ i = m] \in Events
    BY <1>2 DEF Events
  <1> QED BY <1>1, <1>3 DEF Marked

LEMMA BeginSaveFits == ASSUME IInv, Fits, IInv', NEW p \in Proc, BeginSave(p) PROVE Fits'
  <1>1. PICK r \in ProcType : r = proc[p]
    BY DEF IInv, Types
  <1>2. /\ drawn \in Nat /\ made \in Nat /\ key <= made /\ drawn <= MaxEvents
        /\ lock = None /\ p # None /\ CommandFits(p, r)
        /\ Len(written) < MaxSaves /\ r.phase = "loaded"
        /\ UNCHANGED <<file, key, written, made, meddled>>
    BY <1>1, LedgerAssumption DEF IInv, Types, Fits, BeginSave
  <1>3. CASE Become(p, Idle) /\ UNCHANGED <<lock, drawn>>
    <2>1. CommandFits(p, Idle)'
      BY <1>2, <1>3, IdleFitsNext
    <2> QED BY <1>2, <1>3, <2>1, MovesFit
  <1>4. ASSUME lock' = p, NEW new \in {0, 1}, NEW m \in 0 .. Len(r.events),
               drawn + new <= MaxEvents, drawn' = drawn + new,
               Become(p, [r EXCEPT !.phase = "keying",
                 !.events = IF new = 1 THEN <<EventOf(drawn + 1)>> \o Marked(r.events, m)
                                       ELSE Marked(r.events, m)])
        PROVE  Fits'
    <2>1. PICK e : e = IF new = 1 THEN <<EventOf(drawn + 1)>> \o Marked(r.events, m)
                       ELSE Marked(r.events, m)
      OBVIOUS
    <2>2. PICK c : c = [r EXCEPT !.phase = "keying", !.events = e]
      OBVIOUS
    <2>3. c.phase = "keying" /\ c.events = e /\ c.snap = r.snap
      BY <2>2 DEF ProcType
    <2>4. drawn' \in Nat /\ drawn <= drawn' /\ drawn' <= MaxEvents
      BY <1>2, <1>4
    <2>5. FileOK(r.snap)' /\ Short(r.snap.audit)'
      <3>1. FileOK(r.snap) /\ Short(r.snap.audit)
        BY <1>2 DEF CommandFits
      <3> QED BY <1>2, <2>4, <3>1, StillFits
    <2>6. Short(e)'
      <3>1. r.events \in Seq(Event) /\ m \in Nat /\ Short(r.events)
        BY <1>2 DEF ProcType, CommandFits
      <3>2. Marked(r.events, m) \in Seq(Events) /\ Len(Marked(r.events, m)) = Len(r.events)
        BY <1>2, <3>1, MarkedFits
      <3>3. Events \subseteq Events'
        BY <1>2, <2>4 DEF Events
      <3>4. Marked(r.events, m) \in Seq(Events')
        BY <3>2, <3>3, SeqOfFewer
      <3>5. Len(r.events) \in Nat /\ Len(r.events) <= drawn + 1
        BY <3>1 DEF Short
      <3>6. e \in Seq(Events') /\ Len(e) = Len(r.events) + new
        <4>1. CASE new = 1
          <5>1. EventOf(drawn + 1) \in Events'
            BY <1>2, <1>4, <4>1 DEF EventOf, Events
          <5> QED BY <2>1, <3>2, <3>4, <4>1, <5>1
        <4>2. CASE new = 0
          BY <2>1, <3>2, <3>4, <3>5, <4>2
        <4> QED BY <4>1, <4>2
      <3>7. Len(e) <= drawn' + 1
        BY <1>2, <1>4, <3>5, <3>6
      <3> QED BY <3>6, <3>7 DEF Short
    <2>7. CommandFits(p, c)'
      BY <1>2, <1>4, <2>3, <2>5, <2>6 DEF CommandFits, Saving
    <2>8. \A q \in Proc \ {p} : lock = q <=> lock' = q
      BY <1>2, <1>4, LedgerAssumption
    <2>9. Become(p, c)
      BY <1>4, <2>1, <2>2
    <2> QED BY <1>2, <2>4, <2>7, <2>8, <2>9, MovesFit
  <1> QED BY <1>1, <1>3, <1>4 DEF BeginSave

LEMMA FindKeyFits == ASSUME IInv, Fits, IInv', NEW p \in Proc, FindKey(p) PROVE Fits'
  <1>1. PICK r \in ProcType : r = proc[p]
    BY DEF IInv, Types
  <1>2. /\ drawn \in Nat /\ made \in Nat /\ key <= made /\ drawn <= MaxEvents
        /\ lock = p /\ CommandFits(p, r) /\ r.phase = "keying"
        /\ UNCHANGED <<file, written, drawn, meddled>>
    BY <1>1 DEF IInv, Types, Fits, CommandFits, Saving, FindKey
  <1>3. CASE GiveUp(p) /\ UNCHANGED <<key, made>>
    BY <1>2, <1>3, GiveUpFits
  <1>4. ASSUME UNCHANGED lock, made <= made', key' <= made', made' \in Nat, NEW c,
               c.phase = "writing", c.events = r.events, c.snap = r.snap, Become(p, c)
        PROVE  Fits'
    <2>1. FileOK(r.snap)' /\ Short(r.snap.audit)' /\ Short(r.events)'
      <3>1. FileOK(r.snap) /\ Short(r.snap.audit) /\ Short(r.events)
        BY <1>2 DEF CommandFits
      <3> QED BY <1>2, <1>4, <3>1, StillFits
    <2>2. CommandFits(p, c)'
      BY <1>2, <1>4, <2>1 DEF CommandFits, Saving
    <2> QED BY <1>2, <1>4, <2>2, MovesFit
  <1>5. CASE Become(p, [r EXCEPT !.phase = "writing"]) /\ UNCHANGED <<key, made, lock>>
    <2>1. PICK c : c = [r EXCEPT !.phase = "writing"]
      OBVIOUS
    <2>2. c.phase = "writing" /\ c.events = r.events /\ c.snap = r.snap /\ Become(p, c)
      BY <1>5, <2>1 DEF ProcType
    <2> QED BY <1>2, <1>4, <1>5, <2>2
  <1>6. CASE /\ made' = made + 1 /\ key' = made + 1 /\ UNCHANGED lock
             /\ Become(p, [r EXCEPT !.phase = "writing", !.fresh = TRUE])
    <2>1. PICK c : c = [r EXCEPT !.phase = "writing", !.fresh = TRUE]
      OBVIOUS
    <2>2. c.phase = "writing" /\ c.events = r.events /\ c.snap = r.snap /\ Become(p, c)
      BY <1>6, <2>1 DEF ProcType
    <2>3. made' \in Nat /\ made <= made' /\ key' <= made'
      BY <1>2, <1>6
    <2> QED BY <1>4, <1>6, <2>2, <2>3
  <1> QED BY <1>1, <1>3, <1>5, <1>6 DEF FindKey

LEMMA KillFits == ASSUME IInv, Fits, IInv', NEW p \in Proc, Kill(p) PROVE Fits'
  <1>1. key' <= made /\ lock = p /\ made' = made
    BY DEF Kill, Fits
  <1> QED BY <1>1, GiveUpFits DEF Kill

LEMMA FailedWriteFits == ASSUME IInv, Fits, IInv', NEW p \in Proc, WriteFails(p) PROVE Fits'
  <1>1. lock = p /\ made \in Nat /\ key \in Nat /\ key <= made
    <2>1. proc[p].phase = "writing" /\ CommandFits(p, proc[p])
      BY DEF WriteFails, Fits
    <2>2. lock = p
      BY <2>1 DEF CommandFits, Saving
    <2> QED BY <2>2 DEF IInv, Types, Fits
  <1>2. key' <= made
    BY <1>1 DEF WriteFails, None
  <1> QED BY <1>1, <1>2, GiveUpFits DEF WriteFails

LEMMA WriteFits == ASSUME IInv, Fits, IInv', NEW p \in Proc, Write(p) PROVE Fits'
  <1>1. PICK r \in ProcType : r = proc[p]
    BY DEF IInv, Types
  <1>2. /\ {drawn, made} \subseteq Nat /\ key \in Nat /\ key <= made /\ drawn <= MaxEvents
        /\ lock = p /\ p # None /\ CommandFits(p, r) /\ Len(written) < MaxSaves
        /\ (r.events # <<>> => key # None) /\ Len(written) \in Nat
        /\ UNCHANGED <<key, drawn, made, meddled>> /\ lock' = None
    BY <1>1, LedgerAssumption DEF IInv, Types, Fits, CommandFits, CommandOK, Saving, Write
  <1>3. PICK f : f = Rebuilt(r.events, Len(written) + 1, key)
    OBVIOUS
  <1>4. FileOK(f) /\ Short(f.audit) /\ Short(r.events)
    <2>1. Len(written) + 1 \in 1 .. MaxSaves /\ key \in 0 .. made
      BY <1>2, LedgerAssumption
    <2>2. Short(r.events)
      BY <1>2 DEF CommandFits
    <2> QED BY <1>2, <1>3, <2>1, <2>2, RebuiltFits
  <1>5. PICK c : c = [r EXCEPT !.phase = "loaded", !.snap = f, !.fresh = FALSE]
    OBVIOUS
  <1>6. c.phase = "loaded" /\ c.snap = f /\ c.events = r.events
    BY <1>5 DEF ProcType
  <1>7. proc' = [proc EXCEPT ![p] = c] /\ file' = f
        /\ written' = Append(written, [file |-> f, events |-> r.events])
    BY <1>1, <1>3, <1>5 DEF Write, Become
  <1>8. /\ Len(written') = Len(written) + 1
        /\ written'[Len(written) + 1] = [file |-> f, events |-> r.events]
        /\ \A n \in 1 .. Len(written) : written'[n] = written[n]
    BY <1>7 DEF IInv, Types
  <1>9. \A g : FileOK(g) <=> FileOK(g)'
    BY <1>2 DEF FileOK, Records, Events, Hashes
  <1>10. \A e : Short(e) <=> Short(e)'
    BY <1>2 DEF Short, Events
  <1>11. SavesFit'
    <2> SUFFICES ASSUME NEW n \in 1 .. Len(written) + 1
                 PROVE  Short(written'[n].events) /\ FileOK(written'[n].file)
      BY <1>8, <1>9, <1>10 DEF SavesFit
    <2>1. CASE n \in 1 .. Len(written)
      BY <1>8, <2>1 DEF Fits, SavesFit
    <2>2. CASE n = Len(written) + 1
      BY <1>4, <1>8, <2>2
    <2> QED BY <1>2, <2>1, <2>2
  <1>12. ASSUME NEW q \in Proc PROVE CommandFits(q, proc[q])'
    <2>1. CASE q = p
      <3>1. proc'[q] = c
        BY <1>7, <2>1 DEF IInv, Types
      <3> QED BY <1>2, <1>4, <1>6, <1>9, <1>10, <2>1, <3>1 DEF CommandFits, Saving
    <2>2. CASE q # p
      <3>1. proc'[q] = proc[q] /\ CommandFits(q, proc[q])
        BY <1>7, <2>2 DEF IInv, Types, Fits
      <3>2. proc[q].phase \notin Saving /\ q # None
        BY <1>2, <2>2, <3>1, LedgerAssumption DEF CommandFits
      <3> QED BY <1>2, <1>9, <1>10, <3>1, <3>2 DEF CommandFits
    <2> QED BY <2>1, <2>2
  <1>13. FileOK(file)' /\ Short(file.audit)'
    BY <1>4, <1>7, <1>9, <1>10
  <1>14. Len(written') <= MaxSaves
    BY <1>2, <1>8, LedgerAssumption
  <1> QED BY <1>2, <1>11, <1>12, <1>13, <1>14 DEF Fits

\* Outside the program nothing of what the commands hold changes.
LEMMA OutsideFits ==
  ASSUME IInv, Fits, IInv', UNCHANGED <<lock, proc, written, drawn, made>>,
         meddled \subseteq meddled', meddled' \subseteq {"lose", "edit"}, key' <= made,
         FileOK(file)', Short(file.audit)'
  PROVE  Fits'
  <1>1. {drawn, made, drawn', made'} \subseteq Nat /\ drawn <= drawn' /\ made <= made'
    BY DEF IInv, Types
  <1>2. \A f : FileOK(f) => FileOK(f)'
    BY <1>1, StillFits
  <1>3. \A e : Short(e) => Short(e)'
    BY <1>1, StillFits
  <1>4. SavesFit'
    BY <1>2, <1>3 DEF Fits, SavesFit
  <1>5. ASSUME NEW q \in Proc PROVE CommandFits(q, proc[q])'
    BY <1>2, <1>3 DEF Fits, CommandFits
  <1> QED BY <1>4, <1>5 DEF Fits

LEMMA KeyFits == ASSUME IInv, Fits, IInv', LoseKey \/ ReturnKey PROVE Fits'
  <1>1. /\ made \in Nat /\ drawn \in Nat /\ key \in Nat /\ key <= made
        /\ meddled \subseteq {"lose", "edit"}
    BY DEF IInv, Types, Fits
  <1>2. /\ UNCHANGED <<file, lock, proc, written, drawn, made>> /\ key' <= made
        /\ meddled \subseteq meddled' /\ meddled' \subseteq {"lose", "edit"}
    <2>1. CASE LoseKey
      BY <1>1, <2>1 DEF LoseKey, None
    <2>2. CASE ReturnKey
      BY <1>1, <2>2 DEF ReturnKey
    <2> QED BY <2>1, <2>2
  <1>3. FileOK(file)' /\ Short(file.audit)'
    <2>1. FileOK(file) /\ Short(file.audit)
      BY DEF Fits
    <2>2. PICK f : f = file
      OBVIOUS
    <2>3. FileOK(f)' /\ Short(f.audit)'
      BY <1>1, <1>2, <2>1, <2>2, StillFits
    <2> QED BY <1>2, <2>2, <2>3
  <1> QED BY <1>2, <1>3, OutsideFits

LEMMA EditFits == ASSUME IInv, Fits, IInv', Edit PROVE Fits'
  <1>1. PICK n \in 0 .. MaxEvents :
          \E ledger \in [1 .. n -> OldRecords], head \in OldHeads, audit \in {<<>>, <<EventOf(None)>>} :
            file' = [audit |-> audit, ledger |-> ledger, head |-> head]
    BY DEF Edit, OldHeads
  <1>2. PICK ledger \in [1 .. n -> OldRecords], head \in OldHeads, audit \in {<<>>, <<EventOf(None)>>} :
          file' = [audit |-> audit, ledger |-> ledger, head |-> head]
    BY <1>1
  <1>3. /\ UNCHANGED <<key, lock, proc, written, drawn, made>>
        /\ meddled' = meddled \cup {"edit"} /\ made \in Nat /\ drawn \in Nat
    BY DEF IInv, Types, Edit
  <1>4. OldRecords \subseteq Records /\ OldHeads \subseteq
          {NoHead} \cup [count : 1 .. MaxEvents + 1, last : Hashes, key : 1 .. made]
    <2>1. \A g \in OldFiles : FileOK(g)
      BY DEF OldFiles, Fits, SavesFit
    <2>2. Altered \in Records
      BY DEF Records
    <2>3. \A g \in OldFiles : \A i \in 1 .. Len(g.ledger) : g.ledger[i] \in Records
      BY <2>1 DEF FileOK
    <2> QED BY <2>1, <2>2, <2>3 DEF OldRecords, OldHeads, FileOK
  <1>5. Len(ledger) = n /\ \A i \in 1 .. n : ledger[i] \in Records
    <2>1. n \in Nat
      BY LedgerAssumption
    <2> QED BY <1>4, <2>1
  <1>6. Short(audit) /\ \A i \in 1 .. Len(audit) : audit[i] \in Events
    <2>1. EventOf(None) \in Events
      BY <1>3 DEF EventOf, Events, None
    <2>2. <<EventOf(None)>> \in Seq(Events) /\ Len(<<EventOf(None)>>) = 1
      BY <2>1
    <2>3. Short(<<EventOf(None)>>)
      BY <1>3, <2>2 DEF Short
    <2>4. Short(audit)
      BY <1>3, <2>3, EmptyFits
    <2> QED BY <2>4, SeqElement DEF Short
  <1>7. FileOK(file)' /\ Short(file.audit)'
    <2>1. Events' = Events /\ Records' = Records
      BY <1>3 DEF Events, Records, Hashes
    <2>2. file'.audit = audit /\ file'.ledger = ledger /\ file'.head = head
      BY <1>2
    <2>3. Short(audit)'
      BY <1>3, <1>6, <2>1 DEF Short
    <2>4. FileOK(file)'
      BY <1>3, <1>4, <1>5, <1>6, <2>1, <2>2 DEF FileOK, Hashes
    <2> QED BY <2>2, <2>3, <2>4
  <1>8. meddled' \subseteq {"lose", "edit"} /\ key' <= made
    BY <1>3 DEF Fits
  <1> QED BY <1>3, <1>7, <1>8, OutsideFits


-----------------------------------------------------------------------------
(* False alarms.                                                           *)

\* A file that the command will not find damaged: it has nothing of a ledger, or
\* the ledger of one save, under the key that is there.
Sound(f) ==
  \/ f.ledger = <<>> /\ f.head = NoHead
  \/ /\ key # None /\ ~NoLedgerSaved
     /\ \E e \in Seq(Event), n \in Nat : e # <<>> /\ f = Rebuilt(e, n, key)

Alarmed(r) == r.phase = "damaged" /\ r.blind

Quiet ==
  meddled = {} =>
    /\ Sound(file)
    /\ \A p \in Proc : Sound(proc[p].snap) /\ ~Alarmed(proc[p])

\* What a save wrote verifies under the key it was written with.
LEMMA RebuiltVerifies ==
  ASSUME NEW e \in Seq(Event), e # <<>>, NEW n \in Nat, NEW k \in Nat
  PROVE  LET f == Rebuilt(e, n, k)
         IN  Chained(f.ledger, k) /\ HeadMatches(f.ledger, f.head, k)
  <1> DEFINE c == Chain(e, n, k)
  <1>1. Len(e) \in Nat \ {0} /\ Len(c) = Len(e)
    BY ChainType
  <1>2. \A i \in 1 .. Len(c) :
          /\ c[i].seq = i /\ c[i].key = k /\ c[i].save = n
          /\ c[i].prev = IF i = 1 THEN NoHash ELSE <<n, i - 1>>
    BY <1>1 DEF Chain
  <1>3. \A i \in 1 .. Len(c) : i # 1 => i - 1 \in 1 .. Len(c)
    BY <1>1
  <1>4. \A i \in 1 .. Len(c) : i # 1 => Hash(c[i - 1]) = <<n, i - 1>>
    BY <1>2, <1>3 DEF Hash
  <1> HIDE DEF c
  <1>5. Chained(c, k)
    BY <1>2, <1>4 DEF Chained
  <1>6. HeadMatches(c, HeadOf(c, k), k)
    BY DEF HeadMatches, HeadOf
  <1>7. Rebuilt(e, n, k) = [audit |-> <<>>, ledger |-> c, head |-> HeadOf(c, k)]
    BY DEF Rebuilt, c
  <1> QED BY <1>5, <1>6, <1>7

LEMMA SoundStays ==
  ASSUME UNCHANGED <<key, written>>, NEW f, Sound(f)
  PROVE  Sound(f)'
  BY SameSaves DEF Sound

\* With no key, or no ledger saved, what is sound has no ledger.
LEMMA SoundIsBare ==
  ASSUME NEW f, Sound(f), key = None \/ NoLedgerSaved
  PROVE  Sound(f)'
  BY DEF Sound

LEMMA PlainIsSound == Sound(Plain(<<>>)) /\ Sound(Plain(<<>>))'
  BY DEF Sound, Plain

\* A step of p that leaves the file alone and does not take the key from it.
LEMMA MovesQuietly ==
  ASSUME IInv, Quiet, NEW p \in Proc, NEW r, Become(p, r),
         UNCHANGED <<file, written, meddled>>,
         key' = key \/ key = None \/ (meddled = {} => NoLedgerSaved),
         meddled = {} => Sound(r.snap) /\ ~Alarmed(r)
  PROVE  Quiet'
  <1> SUFFICES ASSUME meddled = {}
               PROVE  /\ Sound(file)'
                      /\ \A q \in Proc : Sound(proc[q].snap)' /\ ~Alarmed(proc[q])'
    BY DEF Quiet
  <1>1. ASSUME NEW f, Sound(f) PROVE Sound(f)'
    BY <1>1, SoundStays, SoundIsBare
  <1>2. Sound(file)'
    <2>1. PICK f : f = file
      OBVIOUS
    <2>2. Sound(f)'
      BY <1>1, <2>1 DEF Quiet
    <2> QED BY <2>1, <2>2
  <1>3. ASSUME NEW q \in Proc PROVE Sound(proc[q].snap)' /\ ~Alarmed(proc[q])'
    <2>1. PICK c : c = proc'[q]
      OBVIOUS
    <2>2. Sound(c.snap) /\ ~Alarmed(c)
      <3>1. CASE q = p
        <4>1. c = r
          BY <2>1, <3>1 DEF IInv, Types, Become
        <4> QED BY <4>1
      <3>2. CASE q # p
        <4>1. c = proc[q]
          BY <2>1, <3>2 DEF IInv, Types, Become
        <4> QED BY <4>1 DEF Quiet
      <3> QED BY <3>1, <3>2
    <2>3. Sound(c.snap)'
      BY <1>1, <2>2
    <2> QED BY <2>1, <2>2, <2>3 DEF Alarmed
  <1> QED BY <1>2, <1>3

LEMMA GiveUpQuietly ==
  ASSUME IInv, Quiet, NEW p \in Proc, Become(p, Idle), UNCHANGED <<file, written, meddled>>,
         key' = key \/ key = None \/ (meddled = {} => NoLedgerSaved)
  PROVE  Quiet'
  <1>1. Sound(Idle.snap) /\ ~Alarmed(Idle)
    BY PlainIsSound DEF Idle, Alarmed
  <1> QED BY <1>1, MovesQuietly

LEMMA LoadQuietly == ASSUME IInv, Quiet, NEW p \in Proc, Load(p) PROVE Quiet'
  <1>1. PICK f : f = proc[p].snap
    OBVIOUS
  <1>2. /\ UNCHANGED <<file, key, written, meddled>> /\ key \in Nat
        /\ Become(p, LoadFromLedger(f, key)) \/ Become(p, Idle)
    BY <1>1 DEF Load, IInv, Types
  <1>3. CASE Become(p, Idle)
    BY <1>2, <1>3, GiveUpQuietly
  <1>4. CASE Become(p, LoadFromLedger(f, key))
    <2>1. PICK c : c = LoadFromLedger(f, key)
      OBVIOUS
    <2>2. ASSUME meddled = {} PROVE Sound(c.snap) /\ ~Alarmed(c)
      <3>1. Sound(f)
        BY <1>1, <2>2 DEF Quiet
      <3>2. ASSUME NEW e, NEW b PROVE Sound(Loaded(f, e, b).snap) /\ ~Alarmed(Loaded(f, e, b))
        BY <3>1 DEF Loaded, Idle, Alarmed
      <3>3. CASE f.ledger = <<>> /\ f.head = NoHead
        <4>1. Sound(Damaged(f).snap) /\ ~Alarmed(Damaged(f))
          BY <3>3, PlainIsSound DEF Damaged, Idle, Alarmed
        <4>2. c = Damaged(f) \/ c = Loaded(f, f.audit, FALSE)
          BY <2>1, <3>3 DEF LoadFromLedger
        <4> QED BY <4>1, <4>2, <3>2
      <3>4. ASSUME key # None, NEW e \in Seq(Event), NEW n \in Nat, e # <<>>, f = Rebuilt(e, n, key)
            PROVE  Sound(c.snap) /\ ~Alarmed(c)
        <4>1. Chained(f.ledger, key) /\ HeadMatches(f.ledger, f.head, key)
          BY <1>2, <3>4, RebuiltVerifies
        <4>2. f.ledger # <<>>
          <5>1. f.ledger = Chain(e, n, key)
            BY <3>4 DEF Rebuilt
          <5>2. Len(f.ledger) = Len(e) /\ Len(e) # 0
            BY <1>2, <3>4, <5>1, ChainType
          <5> QED BY <5>2
        <4>3. c = Loaded(f, Decrypted(f.ledger), FALSE)
          BY <2>1, <3>4, <4>1, <4>2 DEF LoadFromLedger
        <4> QED BY <3>2, <4>3
      <3> QED BY <3>1, <3>3, <3>4 DEF Sound
    <2>3. Become(p, c)
      BY <1>4, <2>1
    <2> QED BY <1>2, <2>2, <2>3, MovesQuietly
  <1> QED BY <1>2, <1>3, <1>4

\* A step by which a command keeps what it has read, and does not load it.
LEMMA GoesOnQuietly ==
  ASSUME IInv, Quiet, NEW p \in Proc, NEW c, Become(p, c), UNCHANGED <<file, written, meddled>>,
         key' = key \/ key = None, c.snap \in {file, proc[p].snap}, c.phase # "damaged"
  PROVE  Quiet'
  BY MovesQuietly DEF Quiet, Alarmed

LEMMA BeginSaveQuietly == ASSUME IInv, Quiet, NEW p \in Proc, BeginSave(p) PROVE Quiet'
  <1>1. PICK r \in ProcType : r = proc[p]
    BY DEF IInv, Types
  <1>2. UNCHANGED <<file, key, written, meddled>>
    BY DEF BeginSave
  <1>3. CASE Become(p, Idle)
    BY <1>2, <1>3, GiveUpQuietly
  <1>4. ASSUME NEW e, Become(p, [r EXCEPT !.phase = "keying", !.events = e])
        PROVE  Quiet'
    <2>1. PICK c : c = [r EXCEPT !.phase = "keying", !.events = e]
      OBVIOUS
    <2>2. c.phase = "keying" /\ c.snap = r.snap /\ Become(p, c)
      BY <1>4, <2>1 DEF ProcType
    <2> QED BY <1>1, <1>2, <2>2, GoesOnQuietly
  <1>5. Become(p, Idle) \/ \E e : Become(p, [r EXCEPT !.phase = "keying", !.events = e])
    BY <1>1 DEF BeginSave
  <1> QED BY <1>3, <1>4, <1>5

LEMMA FindKeyQuietly == ASSUME IInv, Quiet, NEW p \in Proc, FindKey(p) PROVE Quiet'
  <1>1. PICK r \in ProcType : r = proc[p]
    BY DEF IInv, Types
  <1>2. UNCHANGED <<file, written, meddled>>
    BY DEF FindKey
  <1>3. CASE GiveUp(p) /\ UNCHANGED key
    BY <1>2, <1>3, GiveUpQuietly DEF GiveUp
  <1>4. CASE Become(p, [r EXCEPT !.phase = "writing"]) /\ UNCHANGED key
    <2>1. PICK c : c = [r EXCEPT !.phase = "writing"]
      OBVIOUS
    <2>2. c.phase = "writing" /\ c.snap = r.snap /\ Become(p, c)
      BY <1>4, <2>1 DEF ProcType
    <2> QED BY <1>1, <1>2, <1>4, <2>2, GoesOnQuietly
  <1>5. CASE Become(p, [r EXCEPT !.phase = "writing", !.fresh = TRUE]) /\ key = None
    <2>1. PICK c : c = [r EXCEPT !.phase = "writing", !.fresh = TRUE]
      OBVIOUS
    <2>2. c.phase = "writing" /\ c.snap = r.snap /\ Become(p, c)
      BY <1>5, <2>1 DEF ProcType
    <2> QED BY <1>1, <1>2, <1>5, <2>2, GoesOnQuietly
  <1> QED BY <1>1, <1>3, <1>4, <1>5 DEF FindKey

LEMMA WriteFailsQuietly == ASSUME IInv, Quiet, NEW p \in Proc, WriteFails(p) PROVE Quiet'
  <1>1. Become(p, Idle) /\ UNCHANGED <<file, written, meddled>>
        /\ (key' = key \/ proc[p].fresh)
    BY DEF WriteFails, GiveUp
  <1>2. proc[p].fresh => "lose" \in meddled \/ NoLedgerSaved
    BY DEF IInv, CommandOK
  <1> QED BY <1>1, <1>2, GiveUpQuietly

LEMMA WriteQuietly == ASSUME IInv, Quiet, NEW p \in Proc, Write(p) PROVE Quiet'
  <1>1. PICK r \in ProcType : r = proc[p]
    BY DEF IInv, Types
  <1>2. /\ key \in Nat /\ Len(written) \in Nat /\ r.events \in Seq(Event)
        /\ (r.events # <<>> => key # None) /\ UNCHANGED <<key, meddled>>
    BY <1>1 DEF IInv, Types, ProcType, CommandOK, Write
  <1>3. PICK f : f = Rebuilt(r.events, Len(written) + 1, key)
    OBVIOUS
  <1>4. PICK c : c = [r EXCEPT !.phase = "loaded", !.snap = f, !.fresh = FALSE]
    OBVIOUS
  <1>5. c.phase = "loaded" /\ c.snap = f
    BY <1>4 DEF ProcType
  <1>6. /\ proc' = [proc EXCEPT ![p] = c] /\ file' = f
        /\ written' = Append(written, [file |-> f, events |-> r.events])
    BY <1>1, <1>3, <1>4 DEF Write, Become
  <1>7. /\ Len(written') = Len(written) + 1 /\ written'[Len(written) + 1].file = f
        /\ \A n \in 1 .. Len(written) : written'[n] = written[n]
    BY <1>6 DEF IInv, Types
  <1>8. NoLedgerSaved' => NoLedgerSaved
    BY <1>2, <1>7 DEF NoLedgerSaved
  <1>9. Sound(f)'
    <2>1. CASE r.events = <<>>
      <3>1. f = Plain(<<>>)
        BY <1>3, <2>1 DEF Rebuilt
      <3> QED BY <3>1, PlainIsSound
    <2>2. CASE r.events # <<>>
      <3>1. f.ledger = Chain(r.events, Len(written) + 1, key)
        BY <1>3, <2>2 DEF Rebuilt
      <3>2. Len(f.ledger) = Len(r.events) /\ Len(r.events) # 0
        BY <1>2, <2>2, <3>1, ChainType
      <3>3. ~NoLedgerSaved'
        <4>1. f.ledger # <<>>
          BY <3>2
        <4> QED BY <1>2, <1>7, <4>1 DEF NoLedgerSaved
      <3> QED BY <1>2, <1>3, <2>2, <3>3 DEF Sound
    <2> QED BY <2>1, <2>2
  <1> SUFFICES ASSUME meddled = {}
               PROVE  /\ Sound(file)'
                      /\ \A q \in Proc : Sound(proc[q].snap)' /\ ~Alarmed(proc[q])'
    BY <1>2 DEF Quiet
  <1>10. ASSUME NEW q \in Proc PROVE Sound(proc[q].snap)' /\ ~Alarmed(proc[q])'
    <2>1. CASE q = p
      <3>1. proc'[q] = c
        BY <1>6, <2>1 DEF IInv, Types
      <3> QED BY <1>5, <1>9, <3>1 DEF Alarmed
    <2>2. CASE q # p
      <3>1. PICK d : d = proc[q]
        OBVIOUS
      <3>2. proc'[q] = d
        BY <1>6, <2>2, <3>1 DEF IInv, Types
      <3>3. Sound(d.snap) /\ ~Alarmed(d)
        BY <3>1 DEF Quiet
      <3>4. Sound(d.snap)'
        BY <1>2, <1>8, <3>3 DEF Sound
      <3> QED BY <3>2, <3>3, <3>4 DEF Alarmed
    <2> QED BY <2>1, <2>2
  <1> QED BY <1>6, <1>9, <1>10

LEMMA ReadQuietly == ASSUME IInv, Quiet, NEW p \in Proc, Read(p) PROVE Quiet'
  <1>1. PICK c : c = [Idle EXCEPT !.phase = "reading", !.snap = file]
    OBVIOUS
  <1>2. c.phase = "reading" /\ c.snap = file /\ Become(p, c)
        /\ UNCHANGED <<file, key, written, meddled>>
    BY <1>1 DEF Idle, Read
  <1> QED BY <1>2, GoesOnQuietly

LEMMA ExitQuietly == ASSUME IInv, Quiet, NEW p \in Proc, Exit(p) PROVE Quiet'
  BY GiveUpQuietly DEF Exit

LEMMA KillQuietly == ASSUME IInv, Quiet, NEW p \in Proc, Kill(p) PROVE Quiet'
  BY GiveUpQuietly DEF Kill, GiveUp

LEMMA OutsideQuietly == ASSUME LoseKey \/ ReturnKey \/ Edit PROVE Quiet'
  <1>1. meddled' # {}
    BY DEF LoseKey, ReturnKey, Edit
  <1> QED BY <1>1 DEF Quiet

LEMMA StaysQuiet == ASSUME Quiet, UNCHANGED vars PROVE Quiet'
  <1>1. NoLedgerSaved' = NoLedgerSaved
    BY SameSaves DEF vars
  <1> QED BY <1>1 DEF Quiet, Sound, Alarmed, vars

LEMMA StaysFitting == ASSUME Fits, UNCHANGED vars PROVE Fits'
  <1>1. UNCHANGED <<Events, Records>>
    BY DEF Records, Events, Hashes, vars
  <1>2. \A f : FileOK(f) <=> FileOK(f)'
    BY <1>1 DEF FileOK, Hashes, vars
  <1>3. \A e : Short(e) <=> Short(e)'
    BY <1>1 DEF Short, vars
  <1>4. SavesFit' /\ FileOK(file)' /\ Short(file.audit)'
    BY <1>2, <1>3 DEF Fits, SavesFit, vars
  <1>5. \A p \in Proc : CommandFits(p, proc[p])'
    BY <1>2, <1>3 DEF Fits, CommandFits, vars
  <1> QED BY <1>4, <1>5 DEF Fits, vars

LEMMA NextKeepsBounds ==
  ASSUME IInv, Fits, Quiet, IInv', [Next]_vars
  PROVE  Fits' /\ Quiet'
  <1>1. ASSUME NEW p \in Proc, Read(p) PROVE Fits' /\ Quiet'
    BY <1>1, ReadFits, ReadQuietly
  <1>2. ASSUME NEW p \in Proc, Load(p) PROVE Fits' /\ Quiet'
    BY <1>2, LoadFits, LoadQuietly
  <1>3. ASSUME NEW p \in Proc, BeginSave(p) PROVE Fits' /\ Quiet'
    BY <1>3, BeginSaveFits, BeginSaveQuietly
  <1>4. ASSUME NEW p \in Proc, FindKey(p) PROVE Fits' /\ Quiet'
    BY <1>4, FindKeyFits, FindKeyQuietly
  <1>5. ASSUME NEW p \in Proc, Write(p) PROVE Fits' /\ Quiet'
    BY <1>5, WriteFits, WriteQuietly
  <1>6. ASSUME NEW p \in Proc, WriteFails(p) PROVE Fits' /\ Quiet'
    BY <1>6, FailedWriteFits, WriteFailsQuietly
  <1>7. ASSUME NEW p \in Proc, Exit(p) PROVE Fits' /\ Quiet'
    BY <1>7, ExitFits, ExitQuietly
  <1>8. ASSUME NEW p \in Proc, Kill(p) PROVE Fits' /\ Quiet'
    BY <1>8, KillFits, KillQuietly
  <1>9. CASE UNCHANGED vars
    BY <1>9, StaysFitting, StaysQuiet
  <1>10. CASE LoseKey \/ ReturnKey
    BY <1>10, KeyFits, OutsideQuietly
  <1>11. CASE Edit
    BY <1>11, EditFits, OutsideQuietly
  <1> QED BY <1>1, <1>2, <1>3, <1>4, <1>5, <1>6, <1>7, <1>8, <1>9, <1>10, <1>11 DEF Next

LEMMA InitFits == ASSUME Init PROVE Fits /\ Quiet
  <1>1. PICK s \in Start :
          /\ file = CASE s = "fresh"  -> Rebuilt(<<EventOf(1)>>, 1, 1)
                      [] s = "legacy" -> Plain(<<EventOf(1)>>)
                      [] s = "bare"   -> Plain(<<>>)
          /\ key = IF s = "fresh" THEN 1 ELSE None
          /\ made = key
          /\ drawn = IF s = "bare" THEN 0 ELSE 1
          /\ written = IF s = "fresh" THEN << [file |-> file, events |-> <<EventOf(1)>>] >> ELSE <<>>
    BY DEF Init
  <1>2. s \in {"fresh", "legacy", "bare"} /\ MaxEvents \in Nat \ {0} /\ MaxSaves \in Nat \ {0}
    BY LedgerAssumption
  <1>3. drawn \in {0, 1} /\ made \in {0, 1} /\ key = made /\ drawn <= MaxEvents
    BY <1>1, <1>2 DEF None
  <1>4. proc = [p \in Proc |-> Idle] /\ lock = None /\ meddled = {}
    BY DEF Init
  <1>5. \A p \in Proc : CommandFits(p, proc[p]) /\ Sound(proc[p].snap) /\ ~Alarmed(proc[p])
    <2> SUFFICES ASSUME NEW p \in Proc
                 PROVE  CommandFits(p, Idle) /\ Sound(Idle.snap) /\ ~Alarmed(Idle)
      BY <1>4
    <2>1. drawn \in Nat /\ lock # p
      BY <1>3, <1>4, LedgerAssumption
    <2> QED BY <2>1, IdleFits, PlainIsSound DEF Idle, Alarmed
  <1>6. Short(<<EventOf(1)>>) \/ s = "bare"
    <2>1. CASE drawn = 1
      <3>1. EventOf(1) \in Events
        BY <2>1 DEF EventOf, Events
      <3>2. <<EventOf(1)>> \in Seq(Events) /\ Len(<<EventOf(1)>>) = 1
        BY <3>1
      <3> QED BY <2>1, <3>2 DEF Short
    <2> QED BY <1>1, <1>2, <2>1
  <1>7. CASE s = "fresh"
    <2>1. /\ file = Rebuilt(<<EventOf(1)>>, 1, 1) /\ key = 1 /\ made = 1
          /\ written = << [file |-> file, events |-> <<EventOf(1)>>] >>
      BY <1>1, <1>7
    <2>2. Len(written) = 1 /\ written[1].file = file /\ written[1].events = <<EventOf(1)>>
      BY <2>1
    <2>3. <<EventOf(1)>> \in Seq(Event) /\ <<EventOf(1)>> # <<>>
      <3>1. EventOf(1) \in Event
        BY DEF EventOf, Event
      <3> QED BY <3>1
    <2>4. FileOK(file) /\ Short(file.audit)
      <3>1. {drawn, made} \subseteq Nat /\ 1 \in 1 .. MaxSaves /\ 1 \in 0 .. made /\ 1 # None
        BY <1>2, <1>3, <2>1 DEF None
      <3>2. Short(<<EventOf(1)>>)
        BY <1>6, <1>7
      <3> QED BY <1>3, <2>1, <3>1, <3>2, RebuiltFits
    <2>5. SavesFit
      BY <1>6, <1>7, <2>2, <2>4 DEF SavesFit
    <2>6. Sound(file)
      <3>1. PICK e \in Seq(Event) : e = <<EventOf(1)>>
        BY <2>3
      <3>2. e # <<>> /\ Len(e) = 1 /\ file = Rebuilt(e, 1, 1)
        BY <2>1, <2>3, <3>1
      <3>3. file.ledger = Chain(e, 1, 1) /\ 1 \in Nat
        BY <3>2 DEF Rebuilt
      <3>4. Len(file.ledger) = 1
        <4>1. Len(Chain(e, 1, 1)) = Len(e)
          BY <3>3, ChainType
        <4> QED BY <3>2, <3>3, <4>1
      <3>5. ~NoLedgerSaved
        <4>1. file.ledger # <<>>
          <5>1. Len(<<>>) = 0 /\ 0 # 1
            OBVIOUS
          <5> QED BY <3>4, <5>1
        <4>2. 1 \in 1 .. Len(written)
          BY <2>2
        <4> QED BY <2>2, <4>1, <4>2 DEF NoLedgerSaved
      <3>6. key = 1 /\ key # None
        BY <2>1 DEF None
      <3> QED BY <3>2, <3>5, <3>6 DEF Sound
    <2>7. key <= made /\ Len(written) <= MaxSaves
      BY <1>2, <2>1, <2>2
    <2> QED BY <1>3, <1>4, <1>5, <2>4, <2>5, <2>6, <2>7 DEF Fits, Quiet
  <1>8. ASSUME NEW e, Short(e), file = Plain(e), written = <<>> PROVE Fits /\ Quiet
    <2>1. FileOK(file) /\ Short(file.audit) /\ Sound(file)
      <3>1. \A i \in 1 .. Len(e) : e[i] \in Events
        BY <1>8, SeqElement DEF Short
      <3> QED BY <1>8, <3>1 DEF FileOK, Plain, Sound
    <2>2. SavesFit /\ Len(written) <= MaxSaves /\ key <= made
      BY <1>2, <1>3, <1>8 DEF SavesFit
    <2> QED BY <1>3, <1>4, <1>5, <2>1, <2>2 DEF Fits, Quiet
  <1>9. CASE s = "legacy"
    BY <1>1, <1>6, <1>8, <1>9
  <1>10. CASE s = "bare"
    <2>1. Short(<<>>)
      BY <1>3, EmptyFits
    <2> QED BY <1>1, <1>8, <1>10, <2>1
  <1> QED BY <1>2, <1>7, <1>9, <1>10


-----------------------------------------------------------------------------
(* The theorems.                                                           *)

LEMMA InitHolds == ASSUME Init PROVE IInv
  <1>1. <<EventOf(1)>> \in Seq(Event) /\ <<>> \in Seq(Event) /\ <<>> \in Seq(OldRecords)
    <2>1. EventOf(1) \in Event
      BY DEF EventOf, Event
    <2> QED BY <2>1
  <1>2. proc = [p \in Proc |-> Idle] /\ lock = None /\ meddled = {}
    BY DEF Init
  <1>3. \A p \in Proc : CommandOK(p, proc[p])
    BY <1>2, IdleOK
  <1>4. proc \in [Proc -> ProcType]
    BY <1>2, IdleType
  <1>5. CASE file = Rebuilt(<<EventOf(1)>>, 1, 1) /\ key = 1 /\ drawn = 1
             /\ written = << [file |-> file, events |-> <<EventOf(1)>>] >>
    <2>1. file \in FileType
      BY <1>1, <1>5, RebuiltType
    <2>2. Types
      <3>1. written \in Seq([file : FileType, events : Seq(Event)])
        <4>1. [file |-> file, events |-> <<EventOf(1)>>] \in [file : FileType, events : Seq(Event)]
          BY <1>1, <2>1
        <4> QED BY <4>1, <1>5
      <3>2. made \in Nat /\ {key, made, drawn} \subseteq Nat /\ lock \in Proc \cup {None}
        BY <1>2, <1>5 DEF Init
      <3> QED BY <1>4, <2>1, <3>1, <3>2 DEF Types
    <2>3. Len(written) = 1 /\ written[1].file = file /\ written[1].events = <<EventOf(1)>>
      BY <1>5
    <2>4. AllSaved
      <3>1. 1 # None /\ file = Rebuilt(written[1].events, 1, 1)
        BY <1>5, <2>3 DEF None
      <3>2. SavedAt(written[1], 1)
        BY <1>1, <2>3, <3>1 DEF SavedAt
      <3> QED BY <2>3, <3>2 DEF AllSaved
    <2>5. Genuine(file)
      <3>1. file \in OldFiles
        BY <2>3 DEF OldFiles
      <3>2. file.ledger \in Seq(OldRecords)
        BY <2>1, <3>1, SeqOfFewer DEF FileType, OldRecords
      <3> QED BY <2>1, <3>1, <3>2 DEF Genuine, OldHeads, FileType
    <2>6. FileIsLast /\ AppendOnly /\ KeyKept
      BY <1>5, <2>3 DEF FileIsLast, AppendOnly, KeyKept, None
    <2> QED BY <1>3, <2>2, <2>4, <2>5, <2>6 DEF IInv
  <1>6. ASSUME NEW e \in Seq(Event), file = Plain(e), key = None, drawn \in Nat, written = <<>>
        PROVE  IInv
    <2>1. Types
      <3>1. file \in FileType
        BY <1>6, PlainType
      <3>2. written \in Seq([file : FileType, events : Seq(Event)])
        BY <1>6
      <3>3. {key, made, drawn} \subseteq Nat /\ lock \in Proc \cup {None}
        BY <1>2, <1>6 DEF Init, None
      <3> QED BY <1>4, <3>1, <3>2, <3>3 DEF Types
    <2>2. AllSaved /\ FileIsLast /\ AppendOnly /\ KeyKept
      BY <1>6 DEF AllSaved, FileIsLast, AppendOnly, KeyKept
    <2>3. Genuine(file)
      BY <1>1, <1>6 DEF Genuine, Plain, OldHeads
    <2> QED BY <1>3, <2>1, <2>2, <2>3 DEF IInv
  <1>7. PICK s \in Start :
          /\ file = CASE s = "fresh"  -> Rebuilt(<<EventOf(1)>>, 1, 1)
                      [] s = "legacy" -> Plain(<<EventOf(1)>>)
                      [] s = "bare"   -> Plain(<<>>)
          /\ key = IF s = "fresh" THEN 1 ELSE None
          /\ drawn = IF s = "bare" THEN 0 ELSE 1
          /\ written = IF s = "fresh" THEN << [file |-> file, events |-> <<EventOf(1)>>] >> ELSE <<>>
    BY DEF Init
  <1>8. s \in {"fresh", "legacy", "bare"}
    BY LedgerAssumption
  <1>9. CASE s = "fresh"
    BY <1>5, <1>7, <1>9
  <1>10. CASE s = "legacy"
    BY <1>1, <1>6, <1>7, <1>10
  <1>11. CASE s = "bare"
    BY <1>1, <1>6, <1>7, <1>11
  <1> QED BY <1>8, <1>9, <1>10, <1>11

LEMMA NextKeeps == ASSUME IInv, [Next]_vars PROVE IInv'
  <1>1. ASSUME NEW p \in Proc, Read(p) PROVE IInv'
    BY <1>1, ReadKeeps
  <1>2. ASSUME NEW p \in Proc, Load(p) PROVE IInv'
    BY <1>2, LoadKeeps
  <1>3. ASSUME NEW p \in Proc, BeginSave(p) PROVE IInv'
    BY <1>3, BeginSaveKeeps
  <1>4. ASSUME NEW p \in Proc, FindKey(p) PROVE IInv'
    BY <1>4, FindKeyKeeps
  <1>5. ASSUME NEW p \in Proc, Write(p) PROVE IInv'
    BY <1>5, WriteKeeps
  <1>6. ASSUME NEW p \in Proc, WriteFails(p) PROVE IInv'
    BY <1>6, FailedWriteKeeps
  <1>7. ASSUME NEW p \in Proc, Exit(p) PROVE IInv'
    BY <1>7, ExitKeeps
  <1>8. ASSUME NEW p \in Proc, Kill(p) PROVE IInv'
    BY <1>8, KillKeeps
  <1>9. CASE UNCHANGED vars
    <2>1. Types'
      BY <1>9 DEF vars, IInv, Types
    <2>2. AllSaved' /\ (Genuine(file))'
      BY <1>9, SameSaves DEF vars, IInv, Genuine
    <2>3. FileIsLast' /\ AppendOnly' /\ KeyKept'
      BY <1>9 DEF vars, IInv, FileIsLast, AppendOnly, KeyKept
    <2>4. ASSUME NEW q \in Proc PROVE CommandOK(q, proc[q])'
      BY <1>9, OthersKeep DEF vars
    <2> QED BY <2>1, <2>2, <2>3, <2>4 DEF IInv
  <1> QED BY <1>1, <1>2, <1>3, <1>4, <1>5, <1>6, <1>7, <1>8, <1>9,
             LoseKeyKeeps, ReturnKeyKeeps, EditKeeps DEF Next

\* The inductive invariant holds in every reachable state.
THEOREM Invariance == Spec => []IInv
  <1>1. Init => IInv
    BY InitHolds
  <1>2. IInv /\ [Next]_vars => IInv'
    BY NextKeeps
  <1> QED BY <1>1, <1>2, PTL DEF Spec

\* A ledger that the program accepts is the whole ledger of one save, whatever
\* was made of older files (loadAuditFromLedger, decryptAuditLedger).
THEOREM LedgersAreSaves == Spec => []LoadedWasSaved
  <1>1. IInv => LoadedWasSaved
    BY DEF IInv, CommandOK, FromSave, LoadedWasSaved
  <1> QED BY <1>1, Invariance, PTL

\* Every save keeps the events of the one before, in their order, however many
\* processes save, fail or are killed, and though the key is lost (save,
\* requireCurrentStateSnapshot, rebuildAuditLedger).
THEOREM NoEventLost == Spec => []AppendOnly
  <1>1. IInv => AppendOnly
    BY DEF IInv
  <1> QED BY <1>1, Invariance, PTL

\* The program never deletes the key of a ledger that it has saved
\* (auditLedgerKey, save).
THEOREM KeyIsKept == Spec => []KeyKept
  <1>1. IInv => KeyKept
    BY DEF IInv
  <1> QED BY <1>1, Invariance, PTL

\* A vault that only the program has written is never called damaged while it
\* has a ledger, and nothing in it outgrows what was recorded: for any number of
\* processes, whichever calls fail (loadAuditFromLedger, auditLedgerKey, save).
THEOREM NoAlarmIsFalse == Spec => []NoFalseAlarm
  <1>1. Init => Fits /\ Quiet
    BY InitFits
  <1>2. IInv /\ IInv' /\ Fits /\ Quiet /\ [Next]_vars => (Fits /\ Quiet)'
    BY NextKeepsBounds
  <1>3. IInv /\ Fits /\ Quiet => NoFalseAlarm
    <2> SUFFICES ASSUME IInv, Fits, Quiet PROVE NoFalseAlarm
      OBVIOUS
    <2>1. ASSUME NEW p \in Proc
          PROVE  /\ proc[p].phase \in Phases
                 /\ proc[p].phase \in {"keying", "writing"} <=> lock = p
                 /\ proc[p].blind \in BOOLEAN /\ proc[p].fresh \in BOOLEAN
                 /\ FileOK(proc[p].snap)
                 /\ \A i \in 1 .. Len(proc[p].events) : proc[p].events[i] \in Events
      <3>1. proc[p] \in ProcType /\ CommandFits(p, proc[p])
        BY DEF IInv, Types, Fits
      <3>2. \A i \in 1 .. Len(proc[p].events) : proc[p].events[i] \in Events
        BY <3>1, SeqElement DEF CommandFits, Short
      <3> QED BY <3>1, <3>2 DEF ProcType, CommandFits, Saving
    <2>2. key \in 0 .. made /\ lock \in {None} \cup Proc
      BY DEF IInv, Types, Fits
    <2>3. TypeOK
      BY <2>1, <2>2 DEF Fits, TypeOK, Phases
    <2>4. meddled = {} => \A p \in Proc : ~(proc[p].phase = "damaged" /\ proc[p].blind)
      BY DEF Quiet, Alarmed
    <2> QED BY <2>3, <2>4 DEF NoFalseAlarm
  <1> QED BY <1>1, <1>2, <1>3, Invariance, PTL DEF Spec
=============================================================================
