----------------------------- MODULE AuditLedger -----------------------------
(***************************************************************************)
(* The local audit ledger of internal/store/store.go: the events of a      *)
(* vault, oldest first, each encrypted in a record that carries the hash   *)
(* of the one before it and an HMAC under a key that is kept in the        *)
(* keystore, and a head with the number of records and the hash of the     *)
(* last.  Every save rebuilds the whole chain.  A file of a version        *)
(* without ledgers has its events in plain text, and its first save makes  *)
(* the key.                                                                *)
(*                                                                         *)
(* A hash is named by the save that computed it, whose nonces are its own, *)
(* and the record's place; a record that was changed in any field no       *)
(* longer has a hash or an HMAC that verifies, and is Altered.             *)
(***************************************************************************)
EXTENDS Integers, Sequences, FiniteSets

CONSTANTS
  Proc,          \* processes that use the vault
  Start,         \* what it may be at first: "fresh", "legacy", "bare"
  Environment,   \* "lose" and "return" the key, "edit" the file
  Faults,        \* "locked", "store", "delete", "write", "kill"
  MaxEvents,     \* bound on the events that are recorded
  MaxSaves,      \* bound on the saves that write the file
  MaxKeys        \* bound on the keys that are made

None == 0        \* no event, key, save or process

ASSUME LedgerAssumption ==
  /\ Start \subseteq {"fresh", "legacy", "bare"}
  /\ {MaxEvents, MaxSaves, MaxKeys} \subseteq Nat \ {0}
  /\ None \notin Proc

VARIABLES
  file,          \* the audit fields of the state file
  key,           \* the key of the ledger in the keystore
  lock,          \* the process that holds the state lock
  proc,          \* the commands that run
  written,       \* every save that wrote the file: what it wrote, of which events
  drawn,         \* how many events there are
  made,          \* how many keys were made
  meddled        \* what happened outside the program

vars == <<file, key, lock, proc, written, drawn, made, meddled>>

-----------------------------------------------------------------------------
(* The chain.                                                              *)

Hash(r) == <<r.save, r.seq>>
NoHash == <<None, None>>
Event == [id : Nat, synced : BOOLEAN]
EventOf(d) == [id |-> d, synced |-> FALSE]
Altered == [seq |-> 1, event |-> EventOf(None), save |-> None, prev |-> NoHash, key |-> None]
NoHead == [count |-> None, last |-> NoHash, key |-> None]
Plain(events) == [audit |-> events, ledger |-> <<>>, head |-> NoHead]

\* The newest event comes first in memory, the oldest in the ledger.
Chain(events, n, k) ==
  [i \in 1 .. Len(events) |->
     [seq |-> i, event |-> events[Len(events) + 1 - i], save |-> n,
      prev |-> IF i = 1 THEN NoHash ELSE <<n, i - 1>>, key |-> k]]

HeadOf(ledger, k) ==
  [count |-> Len(ledger), last |-> Hash(ledger[Len(ledger)]), key |-> k]

Rebuilt(events, n, k) ==
  IF events = <<>> THEN Plain(<<>>)
  ELSE [audit |-> <<>>, ledger |-> Chain(events, n, k), head |-> HeadOf(Chain(events, n, k), k)]

\* As it would be if the hash of the record before were not compared.
ChainedLoosely(ledger, k) ==
  \A i \in 1 .. Len(ledger) : ledger[i].seq = i /\ ledger[i].key = k

Chained(ledger, k) ==
  \A i \in 1 .. Len(ledger) :
    /\ ledger[i].seq = i
    /\ ledger[i].prev = IF i = 1 THEN NoHash ELSE Hash(ledger[i - 1])
    /\ ledger[i].key = k

HeadMatches(ledger, head, k) ==
  /\ head.count = Len(ledger)
  /\ head.last = Hash(ledger[Len(ledger)])
  /\ head.key = k

Decrypted(ledger) == [i \in 1 .. Len(ledger) |-> ledger[Len(ledger) + 1 - i].event]

-----------------------------------------------------------------------------
(* Loading.                                                                *)

Idle == [phase |-> "idle", snap |-> Plain(<<>>), events |-> <<>>, blind |-> FALSE, fresh |-> FALSE]

Init ==
  \E s \in Start :
    /\ file = CASE s = "fresh"  -> Rebuilt(<<EventOf(1)>>, 1, 1)
                [] s = "legacy" -> Plain(<<EventOf(1)>>)
                [] s = "bare"   -> Plain(<<>>)
    /\ key = IF s = "fresh" THEN 1 ELSE None
    /\ made = key
    /\ drawn = IF s = "bare" THEN 0 ELSE 1
    /\ written = IF s = "fresh" THEN << [file |-> file, events |-> <<EventOf(1)>>] >> ELSE <<>>
    /\ lock = None
    /\ proc = [p \in Proc |-> Idle]
    /\ meddled = {}

Become(p, r) == proc' = [proc EXCEPT ![p] = r]

\* A command reads the file, without the lock, and then asks for the key.
Read(p) ==
  /\ proc[p].phase = "idle"
  /\ Become(p, [Idle EXCEPT !.phase = "reading", !.snap = file])
  /\ UNCHANGED <<file, key, lock, written, drawn, made, meddled>>

\* It has refused f: blind tells that there is something of a ledger in it.
Damaged(f) ==
  [Idle EXCEPT !.phase = "damaged", !.blind = f.ledger # <<>> \/ f.head # NoHead]

Loaded(f, events, blind) ==
  [Idle EXCEPT !.phase = "loaded", !.snap = f, !.events = events, !.blind = blind]

\* What becomes of a command that has read f and finds k in the keystore.
LoadFromLedger(f, k) ==
  IF f.ledger # <<>>
  THEN CASE k = None -> Loaded(f, <<>>, TRUE)
         [] k # None /\ Chained(f.ledger, k) /\ HeadMatches(f.ledger, f.head, k) ->
              Loaded(f, Decrypted(f.ledger), FALSE)
         [] OTHER -> Damaged(f)
  ELSE IF f.head # NoHead \/ k # None THEN Damaged(f)
  ELSE Loaded(f, f.audit, FALSE)

Load(p) ==
  /\ proc[p].phase = "reading"
  /\ \/ Become(p, LoadFromLedger(proc[p].snap, key))
     \/ "locked" \in Faults /\ Become(p, Idle)
  /\ UNCHANGED <<file, key, lock, written, drawn, made, meddled>>

-----------------------------------------------------------------------------
(* Saving.                                                                 *)

\* The control plane has acknowledged the m-th event; none if m is 0.
Marked(events, m) ==
  [i \in 1 .. Len(events) |->
     [id |-> events[i].id, synced |-> events[i].synced \/ i = m]]

\* The command records an event, or none, and marks one as synced, or none; it
\* takes the lock and finds out whether the file is still what it loaded.
BeginSave(p) ==
  /\ proc[p].phase = "loaded" /\ lock = None /\ Len(written) < MaxSaves
  /\ \/ /\ proc[p].snap # file
        /\ Become(p, Idle)
        /\ UNCHANGED <<lock, drawn>>
     \/ /\ proc[p].snap = file
        /\ lock' = p
        /\ \E new \in {0, 1}, m \in 0 .. Len(proc[p].events) :
             /\ drawn + new <= MaxEvents
             /\ drawn' = drawn + new
             /\ Become(p, [proc[p] EXCEPT !.phase = "keying",
                  !.events = IF new = 1
                             THEN <<EventOf(drawn + 1)>> \o Marked(proc[p].events, m)
                             ELSE Marked(proc[p].events, m)])
  /\ UNCHANGED <<file, key, written, made, meddled>>

\* As it would be if only the head told whether there is a ledger to keep.
UnavailableNever(r) == FALSE

\* A command that could not read the ledger for want of its key may not save.
Unavailable(r) == r.blind

GiveUp(p) == Become(p, Idle) /\ lock' = None

\* As it would be if every save made a key of its own.
FindKeyAnew(p) ==
  /\ proc[p].phase = "keying" /\ ~Unavailable(proc[p])
  /\ made < MaxKeys /\ made' = made + 1 /\ key' = made + 1
  /\ Become(p, [proc[p] EXCEPT !.phase = "writing", !.fresh = TRUE])
  /\ UNCHANGED <<file, lock, written, drawn, meddled>>

\* The key is made if it is not there.
FindKey(p) ==
  LET r == proc[p]
  IN  /\ r.phase = "keying"
      /\ \/ Unavailable(r) /\ GiveUp(p) /\ UNCHANGED <<key, made>>
         \/ /\ ~Unavailable(r) /\ (r.events = <<>> \/ key # None)
            /\ Become(p, [r EXCEPT !.phase = "writing"])
            /\ UNCHANGED <<key, made, lock>>
         \/ /\ ~Unavailable(r) /\ r.events # <<>> /\ key = None
            /\ \/ /\ made < MaxKeys /\ made' = made + 1 /\ key' = made + 1
                  /\ Become(p, [r EXCEPT !.phase = "writing", !.fresh = TRUE])
                  /\ UNCHANGED lock
               \/ "store" \in Faults /\ GiveUp(p) /\ UNCHANGED <<key, made>>
         \/ /\ ~Unavailable(r) /\ r.events # <<>> /\ "locked" \in Faults
            /\ GiveUp(p)
            /\ UNCHANGED <<key, made>>
      /\ UNCHANGED <<file, written, drawn, meddled>>

Write(p) ==
  LET r == proc[p]
      f == Rebuilt(r.events, Len(written) + 1, key)
  IN  /\ r.phase = "writing"
      /\ file' = f
      /\ written' = Append(written, [file |-> f, events |-> r.events])
      /\ Become(p, [r EXCEPT !.phase = "loaded", !.snap = f, !.fresh = FALSE])
      /\ lock' = None
      /\ UNCHANGED <<key, drawn, made, meddled>>

\* As they would be if a failed write took the key in any case, or left it.
WriteFailsTakes(p) ==
  /\ proc[p].phase = "writing" /\ "write" \in Faults
  /\ key' = None
  /\ GiveUp(p)
  /\ UNCHANGED <<file, written, drawn, made, meddled>>

WriteFailsKeeps(p) ==
  /\ proc[p].phase = "writing" /\ "write" \in Faults
  /\ GiveUp(p)
  /\ UNCHANGED <<file, key, written, drawn, made, meddled>>

\* A write that failed takes the key with it that was made for it.
WriteFails(p) ==
  /\ proc[p].phase = "writing" /\ "write" \in Faults
  /\ \/ key' = IF proc[p].fresh THEN None ELSE key
     \/ "delete" \in Faults /\ key' = key
  /\ GiveUp(p)
  /\ UNCHANGED <<file, written, drawn, made, meddled>>

Exit(p) ==
  /\ proc[p].phase \in {"loaded", "damaged"}
  /\ Become(p, Idle)
  /\ UNCHANGED <<file, key, lock, written, drawn, made, meddled>>

\* The process is killed; the operating system gives its lock back.
Kill(p) ==
  /\ "kill" \in Faults /\ lock = p
  /\ GiveUp(p)
  /\ UNCHANGED <<file, key, written, drawn, made, meddled>>

-----------------------------------------------------------------------------
(* Outside the program: the keychain is reset or comes back, and the file  *)
(* is put together from parts of files that were saved before, with or     *)
(* without an event in plain text that nobody recorded.                    *)

LoseKey ==
  /\ "lose" \in Environment /\ key # None /\ lock = None
  /\ key' = None
  /\ meddled' = meddled \cup {"lose"}
  /\ UNCHANGED <<file, lock, proc, written, drawn, made>>

ReturnKey ==
  /\ "return" \in Environment /\ "lose" \in meddled /\ key = None /\ lock = None
  /\ key' \in 1 .. made
  /\ UNCHANGED <<file, lock, proc, written, drawn, made, meddled>>

OldFiles == {written[n].file : n \in 1 .. Len(written)}
OldRecords ==
  {Altered} \cup UNION {{f.ledger[i] : i \in 1 .. Len(f.ledger)} : f \in OldFiles}

Edit ==
  /\ "edit" \in Environment /\ "edit" \notin meddled /\ lock = None
  /\ \E n \in 0 .. MaxEvents :
       \E ledger \in [1 .. n -> OldRecords], head \in {NoHead} \cup {f.head : f \in OldFiles},
          audit \in {<<>>, <<EventOf(None)>>} :
         file' = [audit |-> audit, ledger |-> ledger, head |-> head]
  /\ meddled' = meddled \cup {"edit"}
  /\ UNCHANGED <<key, lock, proc, written, drawn, made>>

Next ==
  \/ \E p \in Proc : \/ Read(p) \/ Load(p) \/ BeginSave(p) \/ FindKey(p)
                     \/ Write(p) \/ WriteFails(p) \/ Exit(p) \/ Kill(p)
  \/ LoseKey \/ ReturnKey \/ Edit

Spec == Init /\ [][Next]_vars

-----------------------------------------------------------------------------
(* What holds.                                                             *)

Events == [id : 0 .. drawn, synced : BOOLEAN]
Hashes == {NoHash} \cup ((1 .. MaxSaves) \X (1 .. MaxEvents + 1))
Records ==
  {Altered} \cup [seq : 1 .. MaxEvents + 1, event : Events, save : 1 .. MaxSaves,
                 prev : Hashes, key : 1 .. made]
FileOK(f) ==
  /\ \A i \in 1 .. Len(f.audit) : f.audit[i] \in Events
  /\ \A i \in 1 .. Len(f.ledger) : f.ledger[i] \in Records
  /\ f.head \in {NoHead} \cup [count : 1 .. MaxEvents + 1, last : Hashes, key : 1 .. made]
  /\ f.ledger # <<>> /\ "edit" \notin meddled => f.audit = <<>>

\* Types: among them that a file with a ledger has no event in plain text, and
\* that a command holds the lock exactly while it saves.
TypeOK ==
  /\ FileOK(file)
  /\ key \in 0 .. made
  /\ lock \in {None} \cup Proc
  /\ meddled \subseteq {"lose", "edit"}
  /\ \A p \in Proc :
       /\ proc[p].phase \in {"idle", "reading", "loaded", "keying", "writing", "damaged"}
       /\ proc[p].phase \in {"keying", "writing"} <=> lock = p
       /\ proc[p].blind \in BOOLEAN /\ proc[p].fresh \in BOOLEAN
       /\ FileOK(proc[p].snap)
       /\ \A i \in 1 .. Len(proc[p].events) : proc[p].events[i] \in Events

\* Whatever is made of the records and heads of older files, a ledger that the
\* program accepts (loadAuditFromLedger) holds the events of one save, all of
\* them and in their order.
LoadedWasSaved ==
  \A p \in Proc :
    proc[p].phase = "loaded" /\ proc[p].snap.ledger # <<>> /\ ~proc[p].blind =>
      \E n \in 1 .. Len(written) : written[n].events = proc[p].events

Extends(new, old) ==
  /\ Len(new) >= Len(old)
  /\ \A i \in 1 .. Len(old) :
       /\ new[Len(new) - Len(old) + i].id = old[i].id
       /\ old[i].synced => new[Len(new) - Len(old) + i].synced

\* Every save keeps the events of the saves before it, in their order and their
\* marks: also when the key was lost or came back, two commands save, or one was
\* killed.
AppendOnly ==
  "edit" \notin meddled =>
    \A n \in 2 .. Len(written) : Extends(written[n].events, written[n - 1].events)

\* The program keeps the key of a ledger it has saved, so that a file without
\* the ledger is not taken for one of an older version.
KeyKept ==
  "lose" \notin meddled /\ (\E n \in 1 .. Len(written) : written[n].file.ledger # <<>>) =>
    key # None

\* No load calls a file with a ledger damaged in a vault that only the program
\* has written, whatever saves are under way, were killed or failed.  (A file
\* without one is refused as soon as there is a key: see LegacyLoads.)
NoFalseAlarm ==
  /\ TypeOK
  /\ meddled = {} => \A p \in Proc : ~(proc[p].phase = "damaged" /\ proc[p].blind)

\* store_test.go:690: a legacy state "should remain loadable after failed save".
LegacyLoads == lock = None /\ file.ledger = <<>> /\ file.head = NoHead => key = None
=============================================================================
