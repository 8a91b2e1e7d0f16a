---------------------------- MODULE ImportProofs ----------------------------
(***************************************************************************)
(* What holds of an import of bundles of any size, of any number of        *)
(* secrets, seals and versions, whichever calls fail; and of the two       *)
(* components an import stands between, which it instantiates: the session *)
(* it asks the control plane with (Login), and the deletions of the        *)
(* records it reads (Deletion).                                            *)
(***************************************************************************)
EXTENDS Import, WellFoundedInduction, TLAPS

-----------------------------------------------------------------------------
(* Types.                                                                  *)

Accounts == Names \X Nat
Versions == [status : {"active", "stale", "deleted"}, env : Envelopes, account : Accounts]
Files == [secrets : [Names -> SUBSET Versions], refs : SUBSET Accounts]
Items == [name : Names, env : Envelopes, account : Accounts]
Backups == [account : Accounts, was : SUBSET Envelopes]
Busy == [at : {"items", "undo"}, todo : SUBSET Items, items : SUBSET Items,
         stored : SUBSET Backups, file : Files, opened : SUBSET Versions,
         stray : SUBSET Accounts, spoiled : BOOLEAN]

KeysTyped == keystore \in [DOMAIN keystore -> Envelopes] /\ DOMAIN keystore \subseteq Accounts

Typed ==
    /\ file \in Files
    /\ KeysTyped
    /\ made \in [Names -> Nat]
    /\ job \in Busy \/ job \in [at : Ends]

-----------------------------------------------------------------------------
(* The state file.                                                         *)

\* A secret has one version per number, one live one, and an account each,
\* none of them made later than now.
Sound(n, secret) ==
    /\ \A x \in secret : x.account[1] = n /\ x.account[2] <= made[n]
    /\ \A x, y \in secret :
         /\ x.env[1] = y.env[1] => x = y
         /\ x.status = "active" /\ y.status = "active" => x = y
         /\ x.account = y.account => x = y

FileSound ==
    /\ \A n \in Names : Sound(n, file.secrets[n])
    /\ \A a \in DOMAIN keystore : a[2] <= made[a[1]]

-----------------------------------------------------------------------------
(* The import under way.                                                   *)

Done == job.items \ job.todo

\* An item has an account of its own secret: a new one, or that of the version
\* it replaces, whose value is the same if it could be read.
ItemSound(i) ==
    /\ i.account[1] = i.name /\ i.account[2] <= made[i.name]
    /\ \A x \in file.secrets[i.name] : x.account = i.account => x.env[1] = i.env[1]
    /\ \A x \in job.opened : x.account = i.account => Equal(i.env, x.env)

\* What the file will be: the items stored so far are live in it.
Planned ==
    /\ \A n \in Names :
         IF \E i \in Done : i.name = n
           THEN \E i \in Done : i.name = n /\ job.file.secrets[n] = WithLive(file.secrets[n], i)
           ELSE job.file.secrets[n] = file.secrets[n]
    /\ job.file.refs = file.refs \cup {i.account : i \in Done}

\* What an account held before the import.
Was(a) ==
    IF \E s \in job.stored : s.account = a
      THEN (CHOOSE s \in job.stored : s.account = a).was
      ELSE Previous(a)

Importing ==
    /\ job.todo \subseteq job.items
    /\ \A i, j \in job.items : i.name = j.name => i = j
    /\ \A i \in job.items : ItemSound(i)
    /\ \A x \in job.opened : \E n \in Names : x \in file.secrets[n]
    /\ Planned
    /\ \A s \in job.stored : \E i \in Done : i.account = s.account
    /\ \A s, t \in job.stored : s.account = t.account => s = t
    /\ \A s \in job.stored : \A e, f \in s.was : e = f
    /\ job.at = "items" =>
         \A i \in Done : i.account \in DOMAIN keystore /\ keystore[i.account] = i.env
    /\ \A x \in job.opened : Opens(keystore, x) \/ \E i \in Done : i.account = x.account
    /\ ~job.spoiled =>
         /\ \A x \in job.opened : Was(x.account) = {x.env}
         /\ \A a \in Accounts : Was(a) # {} => a \in file.refs \cup job.stray
    /\ DOMAIN keystore \subseteq file.refs \cup job.stray \cup {i.account : i \in Done}

IInv == Typed /\ FileSound /\ (~Free => Importing)

-----------------------------------------------------------------------------
(* The keystore.                                                           *)

LEMMA StoredKeys ==
  ASSUME KeysTyped, NEW account \in Accounts, NEW env \in Envelopes, keystore' = Stored(account, env)
  PROVE  /\ KeysTyped'
         /\ DOMAIN keystore' = DOMAIN keystore \cup {account}
         /\ keystore'[account] = env
         /\ \A a \in DOMAIN keystore : a # account => keystore'[a] = keystore[a]
  <1>1. keystore' = [a \in DOMAIN keystore \cup {account} |-> IF a = account THEN env ELSE keystore[a]]
    BY DEF Stored
  <1> QED BY <1>1 DEF KeysTyped

LEMMA RemovedKey ==
  ASSUME KeysTyped, NEW account, keystore' = Restrict(keystore, DOMAIN keystore \ {account})
  PROVE  /\ KeysTyped'
         /\ DOMAIN keystore' = DOMAIN keystore \ {account}
         /\ \A a \in DOMAIN keystore' : keystore'[a] = keystore[a]
  BY DEF Restrict, KeysTyped

\* What is restored is what was there, and no other account is touched.
LEMMA RestoredKeys ==
  ASSUME KeysTyped, NEW s \in Backups, \A e, f \in s.was : e = f, keystore' = Restored(s)
  PROVE  /\ KeysTyped'
         /\ DOMAIN keystore' \subseteq DOMAIN keystore \cup {s.account}
         /\ DOMAIN keystore \ {s.account} \subseteq DOMAIN keystore'
         /\ Previous(s.account)' = s.was
         /\ \A a \in Accounts \ {s.account} :
              /\ a \in DOMAIN keystore' <=> a \in DOMAIN keystore
              /\ a \in DOMAIN keystore => keystore'[a] = keystore[a]
  <1>1. s.account \in Accounts /\ s.was \subseteq Envelopes
    BY DEF Backups
  <1>2. CASE s.was = {}
    <2>1. keystore' = Restrict(keystore, DOMAIN keystore \ {s.account})
      BY <1>2 DEF Restored
    <2> QED BY <1>2, <2>1, RemovedKey DEF Previous
  <1>3. CASE s.was # {}
    <2> DEFINE e == CHOOSE e \in s.was : TRUE
    <2>1. e \in s.was
      BY <1>3
    <2>2. s.was = {e} /\ e \in Envelopes
      BY <1>1, <2>1
    <2>3. keystore' = Stored(s.account, e)
      BY <1>3 DEF Restored
    <2> HIDE DEF e
    <2>4. /\ KeysTyped'
          /\ DOMAIN keystore' = DOMAIN keystore \cup {s.account}
          /\ keystore'[s.account] = e
          /\ \A a \in DOMAIN keystore : a # s.account => keystore'[a] = keystore[a]
      BY <1>1, <2>2, <2>3, StoredKeys
    <2> QED BY <2>2, <2>4 DEF Previous
  <1> QED BY <1>2, <1>3

-----------------------------------------------------------------------------
(* A secret with an item's version in it.                                  *)

LEMMA SoundLater ==
  ASSUME NEW n \in Names, NEW secret \in SUBSET Versions, Sound(n, secret),
         made \in [Names -> Nat], made' \in [Names -> Nat], made[n] <= made'[n]
  PROVE  Sound(n, secret)'
  BY DEF Sound, Versions, Accounts

LEMMA WithLiveSound ==
  ASSUME NEW n \in Names, NEW secret \in SUBSET Versions, Sound(n, secret), NEW item \in Items,
         item.account[1] = n, item.account[2] <= made[n],
         \A x \in secret : x.account = item.account => x.env[1] = item.env[1]
  PROVE  LET next == WithLive(secret, item) IN
         /\ next \in SUBSET Versions /\ Sound(n, next)
         /\ \E y \in Live(next) : y.env = item.env /\ y.account = item.account
         /\ \A y \in next : y.account = item.account => y.env = item.env
         /\ \A y \in next : y.account # item.account =>
              \E x \in secret : x.account = y.account /\ x.env = y.env
  <1> DEFINE aged(x) == IF x.status = "active" THEN [x EXCEPT !.status = "stale"] ELSE x
             live == [status |-> "active", env |-> item.env, account |-> item.account]
             rest == {x \in secret : x.env[1] # item.env[1]}
             next == WithLive(secret, item)
  <1>1. next = {aged(x) : x \in rest} \cup {live}
    BY DEF WithLive
  <1>2. \A x \in rest : /\ aged(x) \in Versions /\ aged(x).env = x.env
                        /\ aged(x).account = x.account /\ aged(x).status # "active"
    BY DEF Versions
  <1>3. live \in Versions /\ live.env = item.env /\ live.account = item.account /\ live.status = "active"
    BY DEF Versions, Items
  <1> HIDE DEF aged, live, next
  <1>4. \A x \in rest : x.account # item.account /\ x \in secret /\ x.env[1] # item.env[1]
    OBVIOUS
  <1>5. \A y \in next : y = live \/ \E x \in rest : y = aged(x)
    BY <1>1
  <1>6. next \in SUBSET Versions
    BY <1>2, <1>3, <1>5
  <1>7. ASSUME NEW y \in next, NEW z \in next
        PROVE  /\ y.account[1] = n /\ y.account[2] <= made[n]
               /\ y.env[1] = z.env[1] => y = z
               /\ y.status = "active" /\ z.status = "active" => y = z
               /\ y.account = z.account => y = z
    <2>1. CASE y = live /\ z = live
      BY <1>3, <2>1
    <2>2. ASSUME NEW x \in rest, y = aged(x), z = live
          PROVE  /\ y.account[1] = n /\ y.account[2] <= made[n]
                 /\ y.env[1] # z.env[1] /\ y.status # "active" /\ y.account # z.account
      BY <1>2, <1>3, <1>4, <2>2 DEF Sound
    <2>3. ASSUME NEW x \in rest, z = aged(x), y = live
          PROVE  /\ y.account[1] = n /\ y.account[2] <= made[n]
                 /\ y.env[1] # z.env[1] /\ z.status # "active" /\ y.account # z.account
      BY <1>2, <1>3, <1>4, <2>3 DEF Sound
    <2>4. ASSUME NEW x \in rest, NEW w \in rest, y = aged(x), z = aged(w)
          PROVE  /\ y.account[1] = n /\ y.account[2] <= made[n] /\ y.status # "active"
                 /\ y.env[1] = z.env[1] => y = z
                 /\ y.account = z.account => y = z
      BY <1>2, <1>4, <2>4 DEF Sound
    <2> QED BY <1>5, <2>1, <2>2, <2>3, <2>4
  <1>8. Sound(n, next)
    BY <1>7 DEF Sound
  <1>9. live \in Live(next)
    BY <1>1, <1>3 DEF Live
  <1>10. \A y \in next : y.account = item.account => y.env = item.env
    BY <1>2, <1>3, <1>4, <1>5
  <1>11. \A y \in next : y.account # item.account => \E x \in secret : x.account = y.account /\ x.env = y.env
    BY <1>2, <1>3, <1>4, <1>5
  <1> QED BY <1>3, <1>6, <1>8, <1>9, <1>10, <1>11 DEF next

-----------------------------------------------------------------------------
(* The end of an import.                                                   *)

LEMMA BusyOrFree ==
  ASSUME Typed
  PROVE  (~Free => job \in Busy) /\ (Free => job \in [at : Ends])
  BY DEF Typed, Free, Ends, Busy

\* What the invariant says of the file that is planned.
LEMMA PlannedSound ==
  ASSUME IInv, ~Free
  PROVE  /\ job.file \in Files
         /\ \A n \in Names : Sound(n, job.file.secrets[n])
         /\ \A i \in Done :
              /\ \E y \in Live(job.file.secrets[i.name]) : y.env = i.env /\ y.account = i.account
              /\ \A y \in job.file.secrets[i.name] : y.account = i.account => y.env = i.env
  <1>0. /\ job \in Busy /\ file \in Files /\ job.file \in Files /\ job.items \subseteq Items
        /\ \A i, j \in job.items : i.name = j.name => i = j
        /\ \A i \in job.items : ItemSound(i)
        /\ \A n \in Names : Sound(n, file.secrets[n])
        /\ Planned
    BY BusyOrFree DEF IInv, Typed, FileSound, Importing, Busy
  <1>1. ASSUME NEW i \in Done
        PROVE  /\ i.name \in Names
               /\ job.file.secrets[i.name] = WithLive(file.secrets[i.name], i)
               /\ Sound(i.name, job.file.secrets[i.name])
               /\ \E y \in Live(job.file.secrets[i.name]) : y.env = i.env /\ y.account = i.account
               /\ \A y \in job.file.secrets[i.name] : y.account = i.account => y.env = i.env
    <2>1. i \in Items /\ i.name \in Names /\ ItemSound(i) /\ file.secrets[i.name] \in SUBSET Versions
      BY <1>0, <1>1 DEF Done, Items, Files
    <2>2. PICK j \in Done : j.name = i.name /\ job.file.secrets[i.name] = WithLive(file.secrets[i.name], j)
      BY <1>0, <1>1, <2>1 DEF Planned
    <2>3. j = i
      BY <1>0, <2>2 DEF Done
    <2>4. job.file.secrets[i.name] = WithLive(file.secrets[i.name], i)
      BY <2>2, <2>3
    <2>5. i.account[1] = i.name /\ i.account[2] <= made[i.name]
          /\ \A x \in file.secrets[i.name] : x.account = i.account => x.env[1] = i.env[1]
      BY <2>1 DEF ItemSound
    <2>6. Sound(i.name, file.secrets[i.name])
      BY <1>0, <2>1
    <2> QED BY <2>1, <2>4, <2>5, <2>6, WithLiveSound
  <1>2. ASSUME NEW n \in Names, \A i \in Done : i.name # n
        PROVE  Sound(n, job.file.secrets[n])
    BY <1>0, <1>2 DEF Planned
  <1> QED BY <1>0, <1>1, <1>2

LEMMA SaveKeeps ==
  ASSUME IInv, Save
  PROVE  IInv' /\ Free'
  <1>1. ~Free
    BY DEF Save, Free, Ends
  <1>2. job.file \in Files /\ \A n \in Names : Sound(n, job.file.secrets[n])
    BY <1>1, PlannedSound
  <1>3. file' = job.file /\ job' = [at |-> "done"] /\ UNCHANGED <<keystore, made>>
    BY DEF Save
  <1>4. Typed'
    BY <1>2, <1>3 DEF IInv, Typed, KeysTyped, Ends
  <1>5. FileSound'
    BY <1>2, <1>3 DEF IInv, FileSound, Sound
  <1>6. Free'
    BY <1>3 DEF Free, Ends
  <1> QED BY <1>4, <1>5, <1>6 DEF IInv

LEMMA EndKeeps ==
  ASSUME IInv, Undone \/ Kill
  PROVE  IInv' /\ Free'
  <1>1. job' \in {[at |-> "failed"], [at |-> "killed"]} /\ UNCHANGED <<file, keystore, made>>
    BY DEF Undone, Kill
  <1>2. job' \in [at : Ends] /\ Free'
    BY <1>1 DEF Ends, Free
  <1> QED BY <1>1, <1>2 DEF IInv, Typed, KeysTyped, FileSound, Sound

-----------------------------------------------------------------------------
(* The calls in between.                                                   *)

LEMMA WasOf ==
  ASSUME Importing, NEW s \in job.stored
  PROVE  Was(s.account) = s.was
  <1>1. \A t \in job.stored : t.account = s.account => t = s
    BY DEF Importing
  <1>2. (CHOOSE t \in job.stored : t.account = s.account) = s
    BY <1>1
  <1> QED BY <1>2 DEF Was

LEMMA WasElse ==
  ASSUME NEW a, \A s \in job.stored : s.account # a
  PROVE  Was(a) = Previous(a)
  BY DEF Was

LEMMA FailsKeeps ==
  ASSUME IInv, StoreFails \/ SaveFails
  PROVE  IInv' /\ ~Free'
  <1>0. ~Free
    BY DEF StoreFails, SaveFails, Free, Ends
  <1>1. job \in Busy /\ Importing
    BY <1>0, BusyOrFree DEF IInv
  <1>2. job' = [job EXCEPT !.at = "undo"] /\ UNCHANGED <<file, keystore, made>>
    BY DEF StoreFails, SaveFails
  <1>3. /\ job' \in Busy /\ job'.at = "undo"
        /\ job'.todo = job.todo /\ job'.items = job.items /\ job'.stored = job.stored
        /\ job'.file = job.file /\ job'.opened = job.opened /\ job'.stray = job.stray
        /\ job'.spoiled = job.spoiled
    BY <1>1, <1>2 DEF Busy
  <1>4. ~Free'
    BY <1>3 DEF Free, Ends
  <1>5. Typed'
    BY <1>2, <1>3 DEF IInv, Typed, KeysTyped
  <1>6. FileSound'
    BY <1>2 DEF IInv, FileSound, Sound
  <1>7. Done' = Done /\ (\A a : Was(a)' = Was(a))
    BY <1>2, <1>3 DEF Done, Was, Previous
  <1>8. \A i \in job.items : ItemSound(i)'
    BY <1>1, <1>2, <1>3 DEF Importing, ItemSound
  <1>9. Planned'
    BY <1>1, <1>2, <1>3, <1>7 DEF Importing, Planned
  <1>10. Importing'
    BY <1>1, <1>2, <1>3, <1>7, <1>8, <1>9 DEF Importing, Opens
  <1> QED BY <1>4, <1>5, <1>6, <1>10 DEF IInv

LEMMA UndoKeeps ==
  ASSUME IInv, ~Free, NEW s \in job.stored, Undo(s)
  PROVE  IInv' /\ ~Free'
  <1>1. job \in Busy /\ Importing /\ KeysTyped
    BY BusyOrFree DEF IInv, Typed
  <1>2. PICK fails \in BOOLEAN :
           /\ keystore' = IF fails THEN keystore ELSE Restored(s)
           /\ job' = [job EXCEPT !.stored = @ \ {s}, !.spoiled = @ \/ fails]
    BY DEF Undo
  <1>3. UNCHANGED <<file, made>> /\ job.at = "undo"
    BY DEF Undo
  <1>4. /\ job' \in Busy /\ job'.at = "undo"
        /\ job'.todo = job.todo /\ job'.items = job.items /\ job'.stored = job.stored \ {s}
        /\ job'.file = job.file /\ job'.opened = job.opened /\ job'.stray = job.stray
        /\ job'.spoiled = (job.spoiled \/ fails)
    <2> DEFINE rest == job.stored \ {s}
               spoiled == job.spoiled \/ fails
    <2>1. rest \in SUBSET Backups /\ spoiled \in BOOLEAN
      BY <1>1 DEF Busy
    <2>2. job' = [job EXCEPT !.stored = rest, !.spoiled = spoiled]
      BY <1>1, <1>2 DEF Busy
    <2> HIDE DEF rest, spoiled
    <2>3. /\ job' \in Busy /\ job'.at = job.at
          /\ job'.todo = job.todo /\ job'.items = job.items /\ job'.stored = rest
          /\ job'.file = job.file /\ job'.opened = job.opened /\ job'.stray = job.stray
          /\ job'.spoiled = spoiled
      BY <1>1, <2>1, <2>2 DEF Busy
    <2> QED BY <1>3, <2>3 DEF rest, spoiled
  <1>5. ~Free'
    BY <1>4 DEF Free, Ends
  <1>6. /\ s \in Backups /\ s.account \in Accounts /\ (\A e, f \in s.was : e = f)
        /\ \E i \in Done : i.account = s.account
        /\ \A t \in job.stored \ {s} : t.account # s.account
    BY <1>1 DEF Importing, Busy, Backups
  <1>7. /\ KeysTyped'
        /\ DOMAIN keystore' \subseteq DOMAIN keystore \cup {s.account}
        /\ ~fails => Previous(s.account)' = s.was
        /\ \A a \in Accounts \ {s.account} :
             /\ a \in DOMAIN keystore' <=> a \in DOMAIN keystore
             /\ a \in DOMAIN keystore => keystore'[a] = keystore[a]
    <2>1. CASE fails
      BY <1>1, <1>2, <2>1 DEF KeysTyped
    <2>2. CASE ~fails
      BY <1>1, <1>2, <1>6, <2>2, RestoredKeys
    <2> QED BY <2>1, <2>2
  <1>8. Done' = Done
    BY <1>4 DEF Done
  <1>9. \A i \in Done : i.account[1] = i.name /\ i.account[2] <= made[i.name]
    BY <1>1 DEF Importing, ItemSound, Done
  <1>10. Typed'
    BY <1>3, <1>4, <1>7 DEF IInv, Typed
  <1>11. FileSound'
    <2>1. \A a \in DOMAIN keystore' : a[2] <= made[a[1]]
      BY <1>6, <1>7, <1>9 DEF IInv, FileSound
    <2> QED BY <1>3, <2>1 DEF IInv, FileSound, Sound
  <1>12. \A i \in job.items : ItemSound(i)'
    BY <1>1, <1>3, <1>4 DEF Importing, ItemSound
  <1>13. Planned'
    BY <1>1, <1>3, <1>4, <1>8 DEF Importing, Planned
  <1>14. \A x \in job.opened : Opens(keystore, x)' \/ \E i \in Done : i.account = x.account
    <2> SUFFICES ASSUME NEW x \in job.opened, \A i \in Done : i.account # x.account
                 PROVE  Opens(keystore, x)'
      OBVIOUS
    <2>1. x.account \in Accounts /\ x.account # s.account /\ Opens(keystore, x)
      BY <1>1, <1>6 DEF Importing, Busy, Versions
    <2> QED BY <1>7, <2>1 DEF Opens
  <1>15. ~job'.spoiled => \A a \in Accounts : Was(a)' = Was(a)
    <2> SUFFICES ASSUME ~job'.spoiled, NEW a \in Accounts
                 PROVE  Was(a)' = Was(a)
      OBVIOUS
    <2>1. ~fails
      BY <1>4
    <2>2. CASE a = s.account
      <3>1. Was(a)' = Previous(a)'
        BY <1>4, <1>6, <2>2 DEF Was
      <3>2. Was(a) = s.was
        BY <1>1, <2>2, WasOf
      <3> QED BY <1>7, <2>1, <2>2, <3>1, <3>2
    <2>3. CASE a # s.account
      <3>1. Previous(a)' = Previous(a)
        BY <1>7, <2>3 DEF Previous
      <3>2. CASE \E t \in job.stored : t.account = a
        <4>1. PICK t \in job.stored : t.account = a
          BY <3>2
        <4>2. t \in job'.stored /\ \A u \in job'.stored : u.account = a => u = t
          BY <1>1, <1>4, <2>3, <4>1 DEF Importing
        <4>3. (CHOOSE u \in job'.stored : u.account = a) = t
          BY <4>1, <4>2
        <4>4. Was(a)' = t.was
          BY <4>1, <4>2, <4>3 DEF Was
        <4> QED BY <1>1, <4>1, <4>4, WasOf
      <3>3. CASE \A t \in job.stored : t.account # a
        BY <1>4, <3>1, <3>3 DEF Was
      <3> QED BY <3>2, <3>3
    <2> QED BY <2>2, <2>3
  <1>16. ~job'.spoiled =>
           /\ \A x \in job.opened : Was(x.account)' = {x.env}
           /\ \A a \in Accounts : Was(a)' # {} => a \in file.refs \cup job.stray
    <2>1. ~job'.spoiled => ~job.spoiled
      BY <1>4
    <2>2. \A x \in job.opened : x.account \in Accounts
      BY <1>1 DEF Busy, Versions
    <2> QED BY <1>1, <1>15, <2>1, <2>2 DEF Importing
  <1>17. DOMAIN keystore' \subseteq file.refs \cup job.stray \cup {i.account : i \in Done}
    BY <1>1, <1>6, <1>7 DEF Importing
  <1>18. Importing'
    BY <1>1, <1>3, <1>4, <1>8, <1>12, <1>13, <1>14, <1>16, <1>17 DEF Importing
  <1> QED BY <1>5, <1>10, <1>11, <1>18 DEF IInv

LEMMA StoreKeyKeeps ==
  ASSUME IInv, ~Free, NEW item \in job.todo, StoreKey(item)
  PROVE  IInv' /\ ~Free'
  <1>1. job \in Busy /\ Importing /\ KeysTyped /\ file \in Files /\ made \in [Names -> Nat]
    BY BusyOrFree DEF IInv, Typed
  <1>2. /\ job.todo \subseteq Items /\ job.items \subseteq Items /\ job.todo \subseteq job.items
        /\ job.stored \subseteq Backups /\ job.file \in Files /\ job.spoiled \in BOOLEAN
        /\ job.opened \subseteq Versions
    BY <1>1 DEF Busy, Importing
  <1>3. item \in Items /\ item \in job.items /\ item.name \in Names /\ item.env \in Envelopes
        /\ item.account \in Accounts
    BY <1>2 DEF Items
  <1>4. UNCHANGED <<file, made>> /\ job.at = "items" /\ keystore' = Stored(item.account, item.env)
    BY DEF StoreKey, Put
  <1>5. PICK was \in {Previous(item.account), {}} :
          job' = [job EXCEPT !.todo = @ \ {item},
                             !.stored = @ \cup {[account |-> item.account, was |-> was]},
                             !.spoiled = @ \/ was # Previous(item.account),
                             !.file = Take(@, item)]
    BY DEF StoreKey
  <1> DEFINE s == [account |-> item.account, was |-> was]
             todo == job.todo \ {item}
             stored == job.stored \cup {s}
             spoiled == job.spoiled \/ was # Previous(item.account)
             next == Take(job.file, item)
  <1>6. Previous(item.account) \subseteq Envelopes /\ \A e, f \in Previous(item.account) : e = f
    BY <1>1 DEF Previous, KeysTyped
  <1>7. s \in Backups /\ s.account = item.account /\ s.was = was /\ \A e, f \in s.was : e = f
    BY <1>3, <1>6 DEF Backups
  <1>8. WithLive(job.file.secrets[item.name], item) \in SUBSET Versions
    <2>1. job.file.secrets[item.name] \in SUBSET Versions
      BY <1>2, <1>3 DEF Files
    <2> QED BY <1>3, <2>1 DEF WithLive, Versions
  <1>9. /\ next \in Files
        /\ next.refs = job.file.refs \cup {item.account}
        /\ next.secrets[item.name] = WithLive(job.file.secrets[item.name], item)
        /\ \A n \in Names \ {item.name} : next.secrets[n] = job.file.secrets[n]
    <2> DEFINE secrets == [job.file.secrets EXCEPT ![item.name] = WithLive(@, item)]
               refs == job.file.refs \cup {item.account}
    <2>1. job.file.secrets \in [Names -> SUBSET Versions] /\ job.file.refs \in SUBSET Accounts
      BY <1>2 DEF Files
    <2>2. /\ secrets \in [Names -> SUBSET Versions]
          /\ secrets[item.name] = WithLive(job.file.secrets[item.name], item)
          /\ \A n \in Names \ {item.name} : secrets[n] = job.file.secrets[n]
      BY <1>3, <1>8, <2>1
    <2>3. refs \in SUBSET Accounts
      BY <1>3, <2>1
    <2>4. next = [secrets |-> secrets, refs |-> refs]
      BY DEF Take
    <2> HIDE DEF secrets, next
    <2> QED BY <2>2, <2>3, <2>4 DEF Files
  <1>10. todo \in SUBSET Items /\ stored \in SUBSET Backups /\ spoiled \in BOOLEAN
    BY <1>2, <1>7
  <1>11. job' = [job EXCEPT !.todo = todo, !.stored = stored, !.spoiled = spoiled, !.file = next]
    BY <1>1, <1>5 DEF Busy
  <1> HIDE DEF todo, stored, spoiled, next, s
  <1>12. /\ job' \in Busy /\ job'.at = "items"
         /\ job'.todo = todo /\ job'.items = job.items /\ job'.stored = stored
         /\ job'.file = next /\ job'.opened = job.opened /\ job'.stray = job.stray
         /\ job'.spoiled = spoiled
    BY <1>1, <1>4, <1>9, <1>10, <1>11 DEF Busy
  <1>13. ~Free'
    BY <1>12 DEF Free, Ends
  <1>14. /\ KeysTyped'
         /\ DOMAIN keystore' = DOMAIN keystore \cup {item.account}
         /\ keystore'[item.account] = item.env
         /\ \A a \in DOMAIN keystore : a # item.account => keystore'[a] = keystore[a]
    BY <1>1, <1>3, <1>4, StoredKeys
  <1>15. Done' = Done \cup {item}
    BY <1>3, <1>12 DEF Done, todo
  <1>16. ItemSound(item)
    BY <1>1, <1>3 DEF Importing
  <1>17. \A i \in Done : i.account # item.account /\ i.name # item.name
    <2> SUFFICES ASSUME NEW i \in Done
                 PROVE  i.account # item.account /\ i.name # item.name
      OBVIOUS
    <2>1. i \in job.items /\ i # item
      BY DEF Done
    <2>2. i.name # item.name
      BY <1>1, <1>3, <2>1 DEF Importing
    <2>3. i.account[1] = i.name /\ item.account[1] = item.name
      BY <1>1, <1>16, <2>1 DEF Importing, ItemSound
    <2> QED BY <2>2, <2>3
  <1>18. \A t \in job.stored : t.account # item.account
    BY <1>1, <1>17 DEF Importing
  <1>19. Typed'
    BY <1>1, <1>4, <1>12, <1>14 DEF Typed
  <1>20. FileSound'
    <2>1. \A a \in DOMAIN keystore' : a[2] <= made[a[1]]
      BY <1>14, <1>16 DEF IInv, FileSound, ItemSound
    <2> QED BY <1>4, <2>1 DEF IInv, FileSound, Sound
  <1>21. \A i \in job.items : ItemSound(i)'
    BY <1>1, <1>4, <1>12 DEF Importing, ItemSound
  <1>22. Planned'
    <2>1. next.refs = file.refs \cup {i.account : i \in Done'}
      BY <1>1, <1>9, <1>15 DEF Importing, Planned
    <2>2. ASSUME NEW n \in Names
          PROVE  IF \E i \in Done' : i.name = n
                   THEN \E i \in Done' : i.name = n /\ next.secrets[n] = WithLive(file.secrets[n], i)
                   ELSE next.secrets[n] = file.secrets[n]
      <3>1. CASE n = item.name
        <4>1. job.file.secrets[n] = file.secrets[n]
          BY <1>1, <1>17, <3>1 DEF Importing, Planned
        <4> QED BY <1>9, <1>15, <3>1, <4>1
      <3>2. CASE n # item.name
        <4>1. next.secrets[n] = job.file.secrets[n]
          BY <1>9, <3>2
        <4>2. IF \E i \in Done : i.name = n
                THEN \E i \in Done : i.name = n /\ job.file.secrets[n] = WithLive(file.secrets[n], i)
                ELSE job.file.secrets[n] = file.secrets[n]
          BY <1>1 DEF Importing, Planned
        <4> QED BY <1>15, <3>2, <4>1, <4>2
      <3> QED BY <3>1, <3>2
    <2> QED BY <1>4, <1>12, <2>1, <2>2 DEF Planned, WithLive
  <1>23. /\ \A t \in stored : \E i \in Done' : i.account = t.account
         /\ \A t, u \in stored : t.account = u.account => t = u
         /\ \A t \in stored : \A e, f \in t.was : e = f
    BY <1>1, <1>7, <1>15, <1>18 DEF Importing, stored
  <1>24. \A i \in Done' : i.account \in DOMAIN keystore' /\ keystore'[i.account] = i.env
    BY <1>1, <1>4, <1>14, <1>15, <1>17 DEF Importing
  <1>25. \A x \in job.opened : Opens(keystore, x)' \/ \E i \in Done' : i.account = x.account
    BY <1>1, <1>14, <1>15 DEF Importing, Opens
  <1>26. ~spoiled => \A a : Was(a)' = Was(a)
    <2> SUFFICES ASSUME ~spoiled, NEW a
                 PROVE  Was(a)' = Was(a)
      OBVIOUS
    <2>1. CASE a = item.account
      <3>1. Was(a) = Previous(item.account)
        BY <1>18, <2>1, WasElse
      <3>2. s \in stored /\ \A u \in stored : u.account = a => u = s
        BY <1>7, <1>18, <2>1 DEF stored
      <3>3. (CHOOSE u \in stored : u.account = a) = s
        BY <1>7, <2>1, <3>2
      <3>4. Was(a)' = was
        BY <1>7, <1>12, <2>1, <3>2, <3>3 DEF Was
      <3> QED BY <3>1, <3>4 DEF spoiled
    <2>2. CASE a # item.account
      <3>1. Previous(a)' = Previous(a)
        BY <1>14, <2>2 DEF Previous
      <3>2. CASE \E t \in job.stored : t.account = a
        <4>1. PICK t \in job.stored : t.account = a
          BY <3>2
        <4>2. t \in stored /\ \A u \in stored : u.account = a => u = t
          BY <1>1, <1>7, <2>2, <4>1 DEF Importing, stored
        <4>3. (CHOOSE u \in stored : u.account = a) = t
          BY <4>1, <4>2
        <4>4. Was(a)' = t.was
          BY <1>12, <4>1, <4>2, <4>3 DEF Was
        <4> QED BY <1>1, <4>1, <4>4, WasOf
      <3>3. CASE \A t \in job.stored : t.account # a
        BY <1>7, <1>12, <2>2, <3>1, <3>3 DEF Was, stored
      <3> QED BY <3>2, <3>3
    <2> QED BY <2>1, <2>2
  <1>27. ~spoiled =>
           /\ \A x \in job.opened : Was(x.account)' = {x.env}
           /\ \A a \in Accounts : Was(a)' # {} => a \in file.refs \cup job.stray
    <2>1. ~spoiled => ~job.spoiled
      BY DEF spoiled
    <2> QED BY <1>1, <1>26, <2>1 DEF Importing
  <1>28. DOMAIN keystore' \subseteq file.refs \cup job.stray \cup {i.account : i \in Done'}
    BY <1>1, <1>14, <1>15 DEF Importing
  <1>29. todo \subseteq job.items
    BY <1>2 DEF todo
  <1>30. Importing'
    BY <1>1, <1>4, <1>12, <1>21, <1>22, <1>23, <1>24, <1>25, <1>27, <1>28, <1>29 DEF Importing
  <1> QED BY <1>13, <1>19, <1>20, <1>30 DEF IInv

-----------------------------------------------------------------------------
(* The start of an import.                                                 *)

\* An item takes a new account, or that of a version with its number, which is
\* equal inside when it can be read.
LEMMA ItemChosen ==
  ASSUME file \in Files, made \in [Names -> Nat], NEW mode \in Modes, NEW n \in Names,
         NEW record \in Records, Verdict(mode, file.secrets[n], record) = "take"
  PROVE  LET i == Item(mode, n, record.env) IN
         /\ i \in Items /\ i.name = n /\ i.env = record.env
         /\ \/ i.account = <<n, made[n] + 1>>
            \/ \E x \in file.secrets[n] :
                 /\ x.account = i.account /\ x.env[1] = i.env[1]
                 /\ Opens(keystore, x) => Equal(i.env, x.env)
  <1> DEFINE secret == file.secrets[n]
             env == record.env
             old == Reused(mode, secret, env)
             i == Item(mode, n, env)
  <1>1. secret \in SUBSET Versions /\ env \in Envelopes
    BY DEF Files, Records
  <1>2. i = [name |-> n, env |-> env,
             account |-> IF old = {} THEN <<n, made[n] + 1>> ELSE (CHOOSE x \in old : TRUE).account]
    BY DEF Item
  <1>3. <<n, made[n] + 1>> \in Accounts
    BY DEF Accounts
  <1>4. CASE old = {}
    <2>1. i = [name |-> n, env |-> env, account |-> <<n, made[n] + 1>>]
      BY <1>2, <1>4
    <2> HIDE DEF i, env
    <2> QED BY <1>1, <1>3, <2>1 DEF Items, env, i
  <1>5. CASE old # {}
    <2> DEFINE x == CHOOSE x \in old : TRUE
    <2>1. x \in old
      BY <1>5
    <2>2. i = [name |-> n, env |-> env, account |-> x.account]
      BY <1>2, <1>5
    <2> HIDE DEF x, i
    <2>3. x \in secret /\ x.env[1] = env[1]
      BY <2>1 DEF Reused, At, Live
    <2>4. x.account \in Accounts
      BY <1>1, <2>3 DEF Versions
    <2>5. ASSUME Opens(keystore, x), x.env # env
          PROVE  Equal(env, x.env)
      <3>1. mode # "force" /\ x \in At(Live(secret), env[1])
        BY <2>1, <2>5 DEF Reused
      <3>2. mode = "pull" \/ mode = "sync"
        BY <3>1, ImportAssumption
      <3>3. /\ mode = "pull" => PullVerdict(secret, env) = "take"
            /\ mode = "sync" => SyncVerdict(secret, env) = "take"
        BY DEF Verdict
      <3>4. x \in {y \in At(Live(secret), env[1]) : y.env # env}
        BY <2>5, <3>1
      <3>5. ASSUME mode = "pull"
            PROVE  Equal(x.env, env)
        <4>1. PullVerdict(secret, env) = "take" /\ secret # {} /\ At(Live(secret), env[1]) # {}
          BY <2>3, <3>1, <3>3, <3>5
        <4> HIDE DEF secret, env
        <4> QED BY <2>5, <3>4, <4>1 DEF PullVerdict
      <3>6. ASSUME mode = "sync"
            PROVE  Equal(x.env, env)
        <4>1. SyncVerdict(secret, env) = "take"
          BY <3>3, <3>6
        <4> HIDE DEF secret, env
        <4> QED BY <2>5, <3>4, <4>1 DEF SyncVerdict
      <3>7. Equal(x.env, env)
        BY <3>2, <3>5, <3>6
      <3> QED BY <3>7 DEF Equal
    <2>6. Opens(keystore, x) => Equal(env, x.env)
      BY <2>5 DEF Equal
    <2> HIDE DEF env, secret
    <2>7. i \in Items /\ i.name = n /\ i.env = env /\ i.account = x.account
      BY <1>1, <2>2, <2>4 DEF Items
    <2> QED BY <2>3, <2>6, <2>7 DEF env, secret, i
  <1> QED BY <1>4, <1>5

LEMMA BeginKeeps ==
  ASSUME IInv, NEW mode \in Modes, NEW names \in SUBSET Names, NEW bundle \in [names -> Records],
         Begin(mode, bundle)
  PROVE  IInv' /\ Free
  <1> DEFINE verdict == [n \in DOMAIN bundle |-> Verdict(mode, file.secrets[n], bundle[n])]
             items == {Item(mode, n, bundle[n].env) : n \in {m \in DOMAIN bundle : verdict[m] = "take"}}
             new == {i \in items : i.account = <<i.name, made[i.name] + 1>>}
             grown == [n \in Names |-> IF \E i \in new : i.name = n THEN made[n] + 1 ELSE made[n]]
             stray == DOMAIN keystore \ file.refs
             next == [at |-> "items", todo |-> items, items |-> items, stored |-> {},
                      file |-> file, opened |-> Opened, stray |-> stray, spoiled |-> FALSE]
  <1>1. /\ Free /\ UNCHANGED <<file, keystore>>
        /\ (job' \in {[at |-> "failed"], [at |-> "done"]} /\ made' = made) \/ (made' = grown /\ job' = next)
    BY DEF Begin
  <1>2. /\ file \in Files /\ KeysTyped /\ made \in [Names -> Nat]
        /\ \A n \in Names : Sound(n, file.secrets[n])
    BY DEF IInv, Typed, FileSound
  <1>3. CASE job' \in {[at |-> "failed"], [at |-> "done"]} /\ made' = made
    <2>1. job' \in [at : Ends] /\ Free'
      BY <1>3 DEF Ends, Free
    <2> QED BY <1>1, <1>3, <2>1 DEF IInv, Typed, KeysTyped, FileSound, Sound
  <1>4. ASSUME NEW i \in items
        PROVE  /\ i \in Items
               /\ \E n \in names : i = Item(mode, n, bundle[n].env) /\ i.name = n
               /\ \/ i.account = <<i.name, made[i.name] + 1>>
                  \/ \E x \in file.secrets[i.name] :
                       /\ x.account = i.account /\ x.env[1] = i.env[1]
                       /\ Opens(keystore, x) => Equal(i.env, x.env)
    <2>1. PICK n \in names : i = Item(mode, n, bundle[n].env) /\ verdict[n] = "take"
      BY <1>4
    <2>2. n \in Names /\ bundle[n] \in Records /\ Verdict(mode, file.secrets[n], bundle[n]) = "take"
      BY <2>1
    <2> DEFINE j == Item(mode, n, bundle[n].env)
    <2>3. /\ j \in Items /\ j.name = n /\ j.env = bundle[n].env
          /\ \/ j.account = <<n, made[n] + 1>>
             \/ \E x \in file.secrets[n] :
                  /\ x.account = j.account /\ x.env[1] = j.env[1]
                  /\ Opens(keystore, x) => Equal(j.env, x.env)
      BY <1>2, <2>2, ItemChosen
    <2>4. i = j
      BY <2>1
    <2> HIDE DEF j
    <2>5. i.name = n
      BY <2>3, <2>4
    <2> QED BY <2>1, <2>3, <2>4, <2>5
  <1> HIDE DEF items, verdict
  <1>5. \A i, j \in items : i.name = j.name => i = j
    BY <1>4
  <1>6. Opened \subseteq Versions /\ \A x \in Opened : Opens(keystore, x) /\ \E n \in Names : x \in file.secrets[n]
    BY <1>2 DEF Opened, Files
  <1>7. stray \in SUBSET Accounts
    BY <1>2 DEF KeysTyped
  <1>8. grown \in [Names -> Nat] /\ \A n \in Names : made[n] <= grown[n]
    BY <1>2
  <1>9. \A i \in new : i.name \in Names /\ grown[i.name] = made[i.name] + 1
    BY <1>4 DEF Items
  <1>10. next \in Busy
    <2>1. items \in SUBSET Items
      BY <1>4
    <2> QED BY <1>2, <1>6, <1>7, <2>1 DEF Busy
  <1>11. ASSUME NEW i \in items
         PROVE  /\ i.account[1] = i.name /\ i.account[2] <= grown[i.name]
                /\ \A x \in file.secrets[i.name] : x.account = i.account => x.env[1] = i.env[1]
                /\ \A x \in Opened : x.account = i.account => Equal(i.env, x.env)
    <2>1. i.name \in Names /\ made[i.name] \in Nat /\ file.secrets[i.name] \in SUBSET Versions
      BY <1>2, <1>4 DEF Items, Files
    <2>2. Sound(i.name, file.secrets[i.name])
      BY <1>2, <2>1
    <2>3. \A x \in Opened : x.account[1] = i.name => x \in file.secrets[i.name]
      BY <1>2, <1>6 DEF Sound
    <2>4. CASE i.account = <<i.name, made[i.name] + 1>>
      <3>1. i.account[1] = i.name /\ i.account[2] = made[i.name] + 1
        BY <2>4
      <3>2. i.account[2] = grown[i.name]
        BY <1>9, <2>4, <3>1
      <3>3. grown[i.name] \in Nat
        BY <1>8, <2>1
      <3>4. \A x \in file.secrets[i.name] : x.account[2] \in Nat /\ x.account[2] <= made[i.name]
        BY <2>1, <2>2 DEF Sound, Versions, Accounts
      <3>5. \A x \in file.secrets[i.name] : x.account # i.account
        BY <2>1, <3>1, <3>4
      <3> HIDE DEF grown
      <3> QED BY <2>3, <3>1, <3>2, <3>3, <3>5
    <2>5. CASE \E x \in file.secrets[i.name] :
                 /\ x.account = i.account /\ x.env[1] = i.env[1]
                 /\ Opens(keystore, x) => Equal(i.env, x.env)
      <3>1. PICK x \in file.secrets[i.name] :
                 /\ x.account = i.account /\ x.env[1] = i.env[1]
                 /\ Opens(keystore, x) => Equal(i.env, x.env)
        BY <2>5
      <3>2. \A y \in file.secrets[i.name] : y.account = i.account => y = x
        BY <2>2, <3>1 DEF Sound
      <3>3. i.account[1] = i.name /\ i.account[2] <= made[i.name] /\ i.account[2] \in Nat
        BY <2>1, <2>2, <3>1 DEF Sound, Versions, Accounts
      <3>4. i.account[2] <= grown[i.name]
        BY <1>8, <2>1, <3>3
      <3> HIDE DEF grown
      <3> QED BY <1>6, <2>3, <3>1, <3>2, <3>3, <3>4
    <2> QED BY <1>4, <2>4, <2>5
  <1>12. CASE made' = grown /\ job' = next
    <2>1. /\ job'.at = "items" /\ job'.todo = items /\ job'.items = items /\ job'.stored = {}
          /\ job'.file = file /\ job'.opened = Opened /\ job'.stray = stray /\ job'.spoiled = FALSE
      BY <1>12
    <2>2. job' \in Busy /\ made' \in [Names -> Nat] /\ \A n \in Names : made[n] <= made'[n]
      BY <1>8, <1>10, <1>12
    <2>3. \A i \in items : ItemSound(i)'
      BY <1>1, <1>11, <1>12, <2>1 DEF ItemSound
    <2> HIDE DEF next, grown
    <2>4. Typed'
      BY <1>1, <1>2, <2>2 DEF Typed, KeysTyped
    <2>5. FileSound'
      <3>1. \A n \in Names : Sound(n, file.secrets[n])'
        <4> SUFFICES ASSUME NEW n \in Names
                     PROVE  Sound(n, file.secrets[n])'
          OBVIOUS
        <4>1. file.secrets[n] \in SUBSET Versions /\ Sound(n, file.secrets[n])
          BY <1>2 DEF Files
        <4> QED BY <1>1, <1>2, <2>2, <4>1 DEF Sound, Versions, Accounts
      <3>2. \A a \in DOMAIN keystore' : a[2] <= made'[a[1]]
        <4> SUFFICES ASSUME NEW a \in DOMAIN keystore
                     PROVE  a[2] <= made'[a[1]]
          BY <1>1
        <4>1. a[1] \in Names /\ a[2] \in Nat /\ a[2] <= made[a[1]]
          BY <1>2 DEF IInv, FileSound, KeysTyped, Accounts
        <4> QED BY <1>2, <2>2, <4>1
      <3> QED BY <3>1, <3>2 DEF FileSound
    <2>6. Done' = {}
      BY <2>1 DEF Done
    <2>7. Planned'
      BY <1>1, <2>1, <2>6 DEF Planned
    <2>8. \A a : Was(a)' = Previous(a)
      BY <1>1, <2>1 DEF Was, Previous
    <2>9. \A x \in Opened : Previous(x.account) = {x.env}
      BY <1>6 DEF Previous, Opens
    <2>10. \A a \in Accounts : Previous(a) # {} => a \in file.refs \cup stray
      BY DEF Previous
    <2>11. DOMAIN keystore \subseteq file.refs \cup stray
      OBVIOUS
    <2>12. \A x \in Opened : Opens(keystore, x)'
      BY <1>1, <1>6 DEF Opens
    <2> HIDE DEF stray
    <2>13. Importing'
      BY <1>1, <1>5, <1>6, <2>1, <2>3, <2>6, <2>7, <2>8, <2>9, <2>10, <2>11, <2>12 DEF Importing
    <2> QED BY <1>1, <2>4, <2>5, <2>13 DEF IInv
  <1> QED BY <1>1, <1>3, <1>12

-----------------------------------------------------------------------------
(* The invariant.                                                          *)

LEMMA InitSound ==
  ASSUME Init
  PROVE  IInv
  <1>0. PICK first \in Firsts : \E kept \in SUBSET {n \in Names : first[n] # {}} : Start(first, kept)
    BY DEF Init
  <1>1. PICK kept \in SUBSET {n \in Names : first[n] # {}} : Start(first, kept)
    BY <1>0
  <1> DEFINE own(n) == {[status |-> x.status, env |-> x.env, account |-> <<n, 1>>] : x \in first[n]}
             secrets == [n \in Names |-> own(n)]
             refs == {<<n, 1>> : n \in {m \in Names : first[m] # {}}}
  <1>2. \A n \in Names :
          first[n] = {} \/ \E s \in {"active", "deleted"}, v \in 1 .. MaxVersion, t \in Same :
                             first[n] = {[status |-> s, env |-> <<v, t>>]}
    BY DEF Firsts
  <1>3. \A n \in Names : \A x \in first[n] :
          x.status \in {"active", "deleted"} /\ x.env \in Envelopes /\ first[n] = {x}
    <2> SUFFICES ASSUME NEW n \in Names, NEW x \in first[n]
                 PROVE  x.status \in {"active", "deleted"} /\ x.env \in Envelopes /\ first[n] = {x}
      OBVIOUS
    <2>1. PICK s \in {"active", "deleted"}, v \in 1 .. MaxVersion, t \in Same :
                 first[n] = {[status |-> s, env |-> <<v, t>>]}
      BY <1>2
    <2>2. <<v, t>> \in Envelopes
      BY ImportAssumption DEF Envelopes
    <2> QED BY <2>1, <2>2
  <1>4. ASSUME NEW n \in Names
        PROVE  /\ own(n) \in SUBSET Versions
               /\ \A y \in own(n) : first[n] # {} /\ own(n) = {y} /\ y.account = <<n, 1>>
    <2>1. <<n, 1>> \in Accounts
      BY DEF Accounts
    <2>2. ASSUME NEW x \in first[n]
          PROVE  [status |-> x.status, env |-> x.env, account |-> <<n, 1>>] \in Versions
      BY <1>3, <2>1, <2>2 DEF Versions
    <2> QED BY <1>3, <2>2
  <1>5. file = [secrets |-> secrets, refs |-> refs]
    BY <1>1 DEF Start
  <1>6. secrets \in [Names -> SUBSET Versions] /\ \A n \in Names : secrets[n] = own(n)
    BY <1>4
  <1>7. refs \in SUBSET Accounts
    BY DEF Accounts
  <1> HIDE DEF own, secrets, refs
  <1>8. file \in Files /\ \A n \in Names : file.secrets[n] = own(n)
    BY <1>5, <1>6, <1>7 DEF Files
  <1>9. keystore = [a \in {<<n, 1>> : n \in kept} |-> (CHOOSE x \in first[a[1]] : TRUE).env]
    BY <1>1 DEF Start
  <1>10. made = [n \in Names |-> IF first[n] = {} THEN 0 ELSE 1]
    BY <1>1 DEF Start
  <1>11. /\ made \in [Names -> Nat]
         /\ \A n \in Names : first[n] # {} => made[n] = 1
    BY <1>10
  <1>12. KeysTyped /\ \A a \in DOMAIN keystore : a[2] <= made[a[1]]
    <2>1. DOMAIN keystore = {<<n, 1>> : n \in kept}
      BY <1>9
    <2>2. DOMAIN keystore \subseteq Accounts
      BY <2>1 DEF Accounts
    <2>3. ASSUME NEW a \in DOMAIN keystore
          PROVE  keystore[a] \in Envelopes /\ a[2] <= made[a[1]]
      <3>1. PICK n \in kept : a = <<n, 1>>
        BY <2>1
      <3>2. n \in Names /\ first[n] # {} /\ a[1] = n /\ a[2] = 1
        BY <3>1
      <3>3. (CHOOSE x \in first[n] : TRUE) \in first[n]
        BY <3>2
      <3>4. keystore[a] = (CHOOSE x \in first[n] : TRUE).env
        BY <1>9, <2>1, <3>2
      <3> QED BY <1>3, <1>11, <3>2, <3>3, <3>4
    <2>4. keystore = [a \in DOMAIN keystore |-> keystore[a]]
      BY <1>9
    <2> QED BY <2>2, <2>3, <2>4 DEF KeysTyped
  <1>13. job \in [at : Ends] /\ Free
    BY DEF Init, Ends, Free
  <1>14. ASSUME NEW n \in Names
         PROVE  Sound(n, file.secrets[n])
    <2>1. \A y \in own(n) : first[n] # {} /\ own(n) = {y} /\ y.account = <<n, 1>>
      BY <1>4
    <2>2. \A y \in own(n) : y.account[1] = n /\ y.account[2] <= made[n]
      BY <1>11, <2>1
    <2> QED BY <1>8, <2>1, <2>2 DEF Sound
  <1> QED BY <1>8, <1>11, <1>12, <1>13, <1>14 DEF IInv, Typed, FileSound

LEMMA Stutter ==
  ASSUME IInv, UNCHANGED vars
  PROVE  IInv'
  <1>1. UNCHANGED <<file, keystore, made, job>>
    BY DEF vars
  <1>2. Typed' /\ FileSound'
    BY <1>1 DEF IInv, Typed, KeysTyped, FileSound, Sound
  <1>3. Importing => Importing'
    <2>1. Done' = Done /\ (\A a : Was(a)' = Was(a))
      BY <1>1 DEF Done, Was, Previous
    <2>2. \A i : ItemSound(i)' <=> ItemSound(i)
      BY <1>1 DEF ItemSound
    <2>3. Planned => Planned'
      BY <1>1, <2>1 DEF Planned
    <2> QED BY <1>1, <2>1, <2>2, <2>3 DEF Importing, Opens
  <1> QED BY <1>1, <1>2, <1>3 DEF IInv, Free

\* The steps, told apart by whether an import begins, goes on or ends.
LEMMA StepCases ==
  ASSUME IInv, Next
  PROVE  IInv' /\ (Free \/ ~Free' \/ Save \/ Undone \/ Kill)
  <1>1. ASSUME NEW mode \in Modes, NEW names \in SUBSET Names, NEW bundle \in [names -> Records],
               Begin(mode, bundle)
        PROVE  IInv' /\ Free
    BY <1>1, BeginKeeps
  <1>2. ASSUME ~Free, NEW item \in job.todo, StoreKey(item)
        PROVE  IInv' /\ ~Free'
    BY <1>2, StoreKeyKeeps
  <1>3. ASSUME StoreFails \/ SaveFails
        PROVE  IInv' /\ ~Free'
    BY <1>3, FailsKeeps
  <1>4. ASSUME ~Free, NEW s \in job.stored, Undo(s)
        PROVE  IInv' /\ ~Free'
    BY <1>4, UndoKeeps
  <1>5. ASSUME Save
        PROVE  IInv'
    BY <1>5, SaveKeeps
  <1>6. ASSUME Undone \/ Kill
        PROVE  IInv'
    BY <1>6, EndKeeps
  <1> QED BY <1>1, <1>2, <1>3, <1>4, <1>5, <1>6 DEF Next

\* Between a state file with an account for every version and a keystore where
\* some accounts already hold the keys of the file to come, an import always
\* knows what it has stored, what was there before, and what it will save.
THEOREM ImportInvariance == Spec => []IInv
  <1>1. Init => IInv
    BY InitSound
  <1>2. IInv /\ [Next]_vars => IInv'
    BY StepCases, Stutter
  <1> QED BY <1>1, <1>2, PTL DEF Spec

-----------------------------------------------------------------------------
(* What the runs check.                                                    *)

\* No two versions of a secret ever share an account, so that no key stored
\* for one destroys the key of another (reusedDataKeyAccount), however many
\* bundles are imported and whatever calls fail.
THEOREM AccountsAreApart == Spec => []OneAccountPerVersion
  <1>1. IInv => OneAccountPerVersion
    <2> SUFFICES ASSUME IInv
                 PROVE  OneAccountPerVersion
      OBVIOUS
    <2>1. ASSUME NEW n \in Names
          PROVE  Sound(n, file.secrets[n]) /\ file.secrets[n] \subseteq Versions
      BY DEF IInv, Typed, FileSound, Files
    <2>2. \A a \in DOMAIN keystore : a[2] <= made[a[1]]
      BY DEF IInv, FileSound
    <2>3. TypeOK
      BY <2>1, <2>2 DEF TypeOK, Sound, Versions
    <2> QED BY <2>1, <2>3 DEF OneAccountPerVersion, Sound
  <1> QED BY <1>1, ImportInvariance, PTL

\* The item that took an account over is equal inside to what the account held.
LEMMA TakenOver ==
  ASSUME IInv, ~Free, NEW x \in job.opened
  PROVE  Opens(keystore, x) \/ \E i \in job.items : i.account = x.account /\ Equal(i.env, x.env)
  <1>1. Importing
    BY DEF IInv
  <1>2. \A i \in Done : i \in job.items /\ ItemSound(i)
    BY <1>1 DEF Importing, Done
  <1> QED BY <1>1, <1>2 DEF Importing, ItemSound

LEMMA SaveLosesNothing ==
  ASSUME IInv, Save
  PROVE  /\ ~Free /\ job'.at = "done"
         /\ \A x \in job.opened : Named(x) => Opens(keystore', x)
         /\ DOMAIN keystore' \ file'.refs \subseteq job.stray
         /\ \A i \in job.items : \E x \in Live(file'.secrets[i.name]) : x.env = i.env /\ Opens(keystore', x)
  <1>1. job.at = "items" /\ job.todo = {} /\ file' = job.file /\ job'.at = "done" /\ keystore' = keystore
    BY DEF Save
  <1>2. ~Free
    BY <1>1 DEF Free, Ends
  <1>3. Importing /\ Done = job.items
    BY <1>1, <1>2 DEF IInv, Done
  <1>4. \A i \in job.items :
          /\ \E y \in Live(job.file.secrets[i.name]) : y.env = i.env /\ y.account = i.account
          /\ \A y \in job.file.secrets[i.name] : y.account = i.account => y.env = i.env
    BY <1>2, <1>3, PlannedSound
  <1>5. \A i \in job.items : /\ i.account[1] = i.name
                             /\ i.account \in DOMAIN keystore /\ keystore[i.account] = i.env
    BY <1>1, <1>3 DEF Importing, ItemSound
  <1>6. ASSUME NEW x \in job.opened, Named(x)
        PROVE  Opens(keystore', x)
    <2>1. PICK y \in job.file.secrets[x.account[1]] : y.account = x.account /\ y.env = x.env
      BY <1>1, <1>6 DEF Named
    <2>2. CASE Opens(keystore, x)
      BY <1>1, <2>2 DEF Opens
    <2>3. ASSUME NEW i \in job.items, i.account = x.account
          PROVE  Opens(keystore', x)
      <3>1. y \in job.file.secrets[i.name] /\ y.account = i.account
        BY <1>5, <2>1, <2>3
      <3>2. x.env = i.env
        BY <1>4, <2>1, <3>1
      <3> QED BY <1>1, <1>5, <2>3, <3>2 DEF Opens
    <2> QED BY <1>3, <2>2, <2>3 DEF Importing
  <1>7. DOMAIN keystore' \ file'.refs \subseteq job.stray
    BY <1>1, <1>3 DEF Importing, Planned
  <1>8. ASSUME NEW i \in job.items
        PROVE  \E x \in Live(file'.secrets[i.name]) : x.env = i.env /\ Opens(keystore', x)
    <2>1. PICK y \in Live(job.file.secrets[i.name]) : y.env = i.env /\ y.account = i.account
      BY <1>4
    <2> QED BY <1>1, <1>5, <2>1 DEF Opens
  <1> QED BY <1>1, <1>2, <1>6, <1>7, <1>8

\* Once everything stored is taken back and no call failed, the keystore is as
\* it was when the import began.
LEMMA UndoneLosesNothing ==
  ASSUME IInv, Undone
  PROVE  /\ job'.at = "failed"
         /\ ~job.spoiled => /\ \A x \in job.opened : Opens(keystore', x)
                            /\ DOMAIN keystore' \ file'.refs \subseteq job.stray
  <1>1. job.at = "undo" /\ job.stored = {} /\ job'.at = "failed" /\ UNCHANGED <<file, keystore>>
    BY DEF Undone
  <1>2. ~Free
    BY <1>1 DEF Free, Ends
  <1>3. Importing /\ DOMAIN keystore \subseteq Accounts
    BY <1>2 DEF IInv, Typed, KeysTyped
  <1>4. \A a : Was(a) = Previous(a)
    BY <1>1 DEF Was
  <1>5. ASSUME ~job.spoiled
        PROVE  /\ \A x \in job.opened : Opens(keystore', x)
               /\ DOMAIN keystore' \ file'.refs \subseteq job.stray
    <2>1. \A x \in job.opened : Previous(x.account) = {x.env}
      BY <1>3, <1>4, <1>5 DEF Importing
    <2>2. \A x \in job.opened : Opens(keystore, x)
      BY <2>1 DEF Previous, Opens
    <2>3. \A a \in DOMAIN keystore : a \in file.refs \cup job.stray
      BY <1>3, <1>4, <1>5 DEF Importing, Previous
    <2> QED BY <1>1, <2>2, <2>3 DEF Opens
  <1> QED BY <1>1, <1>5

LEMMA EndLosesNothing ==
  ASSUME IInv, [Next]_vars, ~Free, Free'
  PROVE  /\ \A x \in job.opened :
              \/ Named(x) => Opens(keystore', x)
              \/ /\ job.spoiled \/ job'.at = "killed"
                 /\ \E i \in job.items : i.account = x.account /\ Equal(i.env, x.env)
         /\ ~job.spoiled /\ job'.at # "killed" => DOMAIN keystore' \ file'.refs \subseteq job.stray
         /\ job'.at = "done" =>
              \A i \in job.items : \E x \in Live(file'.secrets[i.name]) :
                 x.env = i.env /\ Opens(keystore', x)
  <1>1. Save \/ Undone \/ Kill
    BY StepCases DEF vars, Free
  <1>2. CASE Save
    BY <1>2, SaveLosesNothing
  <1>3. CASE Undone
    <2>1. keystore' = keystore
      BY <1>3 DEF Undone
    <2> QED BY <1>3, <2>1, UndoneLosesNothing, TakenOver
  <1>4. CASE Kill
    <2>1. keystore' = keystore /\ job'.at = "killed"
      BY <1>4 DEF Kill
    <2> QED BY <2>1, TakenOver
  <1> QED BY <1>1, <1>2, <1>3, <1>4

\* An import that ends costs the device no key and leaves none behind: a
\* failure is taken back to what the keystore held, account by account
\* (restoreStoredAccounts), and a kill or a failing undo costs at most keys
\* that were replaced by one of the same value.
THEOREM NothingIsLostOrLeft == Spec => NothingLostOrLeft
  <1>1. IInv /\ [Next]_vars =>
          /\ [~Free /\ Free' =>
                \A x \in job.opened :
                   \/ Named(x) => Opens(keystore', x)
                   \/ /\ job.spoiled \/ job'.at = "killed"
                      /\ \E i \in job.items : i.account = x.account /\ Equal(i.env, x.env)]_vars
          /\ [~Free /\ Free' /\ ~job.spoiled /\ job'.at # "killed" =>
                DOMAIN keystore' \ file'.refs \subseteq job.stray]_vars
    BY EndLosesNothing
  <1> QED BY <1>1, ImportInvariance, PTL DEF Spec, NothingLostOrLeft, NoKeyLost, NoStrayKey

\* What an import reports as imported the device can read from then on, also
\* when an earlier, killed import left other keys in those accounts.
THEOREM ImportedIsReadable == Spec => ImportedOpens
  <1>1. IInv /\ [Next]_vars =>
          [~Free /\ job'.at = "done" =>
             \A i \in job.items : \E x \in Live(file'.secrets[i.name]) :
                x.env = i.env /\ Opens(keystore', x)]_vars
    <2>1. job'.at = "done" => Free'
      BY DEF Free, Ends
    <2> QED BY <2>1, EndLosesNothing
  <1> QED BY <1>1, ImportInvariance, PTL DEF Spec, ImportedOpens

-----------------------------------------------------------------------------
(* The session with which a device imports (Session): any number of        *)
(* processes, logins and expiries, whatever fails.                         *)

CONSTANTS Users, MaxSessions, MaxPeriods, Commands, LoginFaults

VARIABLES sessionFile, tokens, current, login, user, server, orphan, alone

Login == INSTANCE Session WITH file <- sessionFile, keystore <- tokens, job <- login, Faults <- LoginFaults

\* What Session assumes of its constants.
LoginAssumption ==
    /\ {"locked", "nobody"} \cap Users = {}
    /\ MaxSessions \in Nat \ {0} /\ MaxPeriods \in Nat \ {0}
    /\ Commands \subseteq {"login", "force", "logout"}
    /\ LoginFaults \subseteq {"remote", "store", "save", "kill", "end", "event"}

-----------------------------------------------------------------------------
(* Types.                                                                  *)

Tokens == Login!Sessions \X (1 .. MaxPeriods)
Lasts == {"none", "ok", "failed", "unauthorized", "killed"}
Rests == [at : {"idle"}, last : Lasts]

Asks == [at : {"ensure", "refresh"}, expiry : 0 .. MaxPeriods, retry : BOOLEAN, held : BOOLEAN]
Stores == [at : {"store"}, token : Tokens, expiry : 0 .. MaxPeriods, retry : BOOLEAN, held : BOOLEAN]
Sends == [at : {"sent"}, bearer : Tokens \cup {Login!NoToken}, expiry : 0 .. MaxPeriods, retry : BOOLEAN, held : BOOLEAN]
Requests == Rests \cup Asks \cup Stores \cup Sends

Ats == {"code", "refresh", "remote", "store", "link", "saveLink", "clear", "saveClear"}
Works == [at : Ats,
          cmd : {"login", "force", "logout"}, linked : BOOLEAN, session : Login!Sessions \cup {Login!None}]

SessionTyped ==
    /\ sessionFile \in [linked : BOOLEAN, expiry : 0 .. MaxPeriods]
    /\ tokens \in [access : Tokens \cup {Login!NoToken}, refresh : Login!Sessions \cup {Login!None}]
    /\ current \subseteq Users \cup {Login!Locked}
    /\ login \in Rests \cup Works
    /\ user \in [Users -> Requests]
    /\ server \in [approved : 0 .. MaxSessions, live : SUBSET Login!Sessions, period : 1 .. MaxPeriods]
    /\ alone \in Users \cup {Login!Locked, Login!Nobody}

-----------------------------------------------------------------------------
(* The sessions.                                                           *)

\* A session is numbered as it is approved; a login asks first whether the one
\* it has is over.
Approved ==
    /\ server.live \subseteq 1 .. server.approved
    /\ tokens.refresh <= server.approved
    /\ login.at = "store" => tokens.refresh # Login!None
    /\ login.at = "link" => login.session \in 1 .. server.approved
    /\ login.at = "remote" => login.cmd # "login"

\* The session a login has been given and not yet stored.
Granted == IF login.at = "link" THEN {login.session} ELSE {}

\* Where the refresh token in the keystore is about to go, its session is over,
\* or was lost to a failure.
Leaving ==
    /\ login.at \in {"code", "link"} /\ login.linked => tokens.refresh \notin server.live
    /\ login.at = "clear" => tokens.refresh \notin server.live \ orphan

Held == server.live \subseteq {tokens.refresh} \cup orphan \cup Granted

SInv == SessionTyped /\ Approved /\ Leaving /\ Held

-----------------------------------------------------------------------------
(* A process that is alone.                                                *)

\* A request that nothing disturbed is one step from success, or can still be
\* tried again with a new token.
Undisturbed(u) ==
    LET r == user[u] IN
    /\ u \in current
    /\ tokens.refresh \in server.live
    /\ r.at = "ensure" => ~r.retry
    /\ r.at = "store" => r.token = Login!Token(tokens.refresh)
    /\ r.at = "sent" => Login!Valid(r.bearer) \/ Login!Retries(r)

LogsOut ==
    /\ Login!Locked \in current
    /\ login.at \in {"remote", "clear", "saveClear"}
    /\ login.at = "saveClear" => tokens = Login!TokensDeleted

AInv ==
    /\ SInv
    /\ \A u \in Users : alone = u /\ user[u].at # "idle" /\ user[u].held => Undisturbed(u)
    /\ alone = Login!Locked /\ ~Login!JobFree /\ login.cmd = "logout" => LogsOut

-----------------------------------------------------------------------------
(* What each step makes of the variables.                                  *)

LEMMA Phases ==
  ASSUME SessionTyped
  PROVE  /\ \A u \in Users : /\ user[u].at = "idle" => user[u] \in Rests
                             /\ user[u].at \in {"ensure", "refresh"} => user[u] \in Asks
                             /\ user[u].at = "store" => user[u] \in Stores
                             /\ user[u].at = "sent" => user[u] \in Sends
         /\ Login!JobFree => login \in Rests
         /\ ~Login!JobFree => login \in Works
         /\ server.period \in 1 .. MaxPeriods /\ server.live \subseteq Login!Sessions
  <1>1. \A u \in Users : user[u] \in Requests
    BY DEF SessionTyped
  <1>2. \A r \in Requests : /\ r.at = "idle" => r \in Rests
                            /\ r.at \in {"ensure", "refresh"} => r \in Asks
                            /\ r.at = "store" => r \in Stores
                            /\ r.at = "sent" => r \in Sends
    BY DEF Requests, Rests, Asks, Stores, Sends
  <1>3. login.at = "idle" => login \in Rests
    BY DEF SessionTyped, Works, Ats
  <1>4. login.at # "idle" => login \in Works
    BY DEF SessionTyped, Rests
  <1>5. server.period \in 1 .. MaxPeriods /\ server.live \subseteq Login!Sessions
    BY DEF SessionTyped
  <1> QED BY <1>1, <1>2, <1>3, <1>4, <1>5 DEF Login!JobFree

LEMMA IdleTyped ==
  ASSUME NEW last \in Lasts
  PROVE  Login!Idle(last) \in Rests /\ Login!Idle(last).at = "idle" /\ Login!Idle(last).last = last
  BY DEF Login!Idle, Rests

LEMMA SentIs ==
  ASSUME NEW r \in Asks \cup Stores, NEW bearer \in Tokens \cup {Login!NoToken}
  PROVE  /\ Login!Sent(r, bearer) \in Sends /\ Login!Sent(r, bearer).at = "sent" /\ Login!Sent(r, bearer).bearer = bearer
         /\ Login!Sent(r, bearer).retry = r.retry /\ Login!Sent(r, bearer).held = r.held
  BY DEF Login!Sent, Asks, Stores, Sends

LEMMA AskingIs ==
  ASSUME NEW r \in Asks \cup Sends, NEW retry \in BOOLEAN
  PROVE  /\ Login!Asking(r, retry) \in Asks /\ Login!Asking(r, retry).at = "refresh" /\ Login!Asking(r, retry).held = r.held
  BY DEF Login!Asking, Asks, Sends

LEMMA StoringIs ==
  ASSUME NEW r \in Asks, NEW token \in Tokens
  PROVE  /\ Login!Storing(r, token) \in Stores /\ Login!Storing(r, token).at = "store"
         /\ Login!Storing(r, token).token = token /\ Login!Storing(r, token).held = r.held
  BY DEF Login!Storing, Asks, Stores

Turns(u, next) == user' = [user EXCEPT ![u] = next]

\* A step of a process without the lock: it makes something of its own request,
\* of the access token and of the state file, and of no session.
OwnStep(u) ==
    /\ UNCHANGED <<login, server, orphan>>
    /\ tokens' \in [access : Tokens \cup {Login!NoToken}, refresh : Login!Sessions \cup {Login!None}]
    /\ tokens'.refresh = tokens.refresh
    /\ sessionFile' \in [linked : BOOLEAN, expiry : 0 .. MaxPeriods] /\ sessionFile'.linked = sessionFile.linked
    /\ current' \subseteq Users \cup {Login!Locked}
    /\ alone' \in {u, Login!Nobody}
    /\ \E next \in Requests : Turns(u, next)

LEMMA RefreshesIs ==
  ASSUME SessionTyped, NEW token \in Tokens, NEW p \in Users \cup {Login!Locked},
         Login!Refreshes(p, token) \/ Login!RefreshNotSaved(p, token)
  PROVE  /\ tokens' \in [access : Tokens \cup {Login!NoToken}, refresh : Login!Sessions \cup {Login!None}]
         /\ tokens'.refresh = tokens.refresh
         /\ sessionFile' \in [linked : BOOLEAN, expiry : 0 .. MaxPeriods] /\ sessionFile'.linked = sessionFile.linked
         /\ current' \subseteq Users \cup {Login!Locked}
         /\ Login!Refreshes(p, token) => tokens'.access = token /\ p \in current'
  <1>1. token[2] \in 0 .. MaxPeriods
    BY DEF Tokens
  <1>2. LET next == [tokens EXCEPT !.access = token] IN
        /\ next \in [access : Tokens \cup {Login!NoToken}, refresh : Login!Sessions \cup {Login!None}]
        /\ next.refresh = tokens.refresh /\ next.access = token
    BY DEF SessionTyped
  <1>3. LET next == [sessionFile EXCEPT !.expiry = token[2]] IN
        next \in [linked : BOOLEAN, expiry : 0 .. MaxPeriods] /\ next.linked = sessionFile.linked
    BY <1>1 DEF SessionTyped
  <1>4. tokens' = [tokens EXCEPT !.access = token] \/ tokens' = tokens
    BY DEF Login!Refreshes, Login!RefreshNotSaved
  <1>5. sessionFile' = [sessionFile EXCEPT !.expiry = token[2]] \/ sessionFile' = sessionFile
    BY DEF Login!Refreshes, Login!RefreshNotSaved
  <1>6. current' = {p} \/ current' = current
    BY DEF Login!Refreshes, Login!RefreshNotSaved, Login!Saves, Login!SaveRefused
  <1>7. Login!Refreshes(p, token) => tokens' = [tokens EXCEPT !.access = token] /\ p \in current'
    BY DEF Login!Refreshes, Login!Saves
  <1>8. tokens \in [access : Tokens \cup {Login!NoToken}, refresh : Login!Sessions \cup {Login!None}]
        /\ sessionFile \in [linked : BOOLEAN, expiry : 0 .. MaxPeriods] /\ current \subseteq Users \cup {Login!Locked}
    BY DEF SessionTyped
  <1> QED BY <1>2, <1>3, <1>4, <1>5, <1>6, <1>7, <1>8

LEMMA LoadIs ==
  ASSUME SessionTyped, NEW u \in Users, Login!Load(u)
  PROVE  /\ OwnStep(u) /\ u \in current' /\ alone' = u /\ user[u].at = "idle" /\ UNCHANGED tokens
         /\ \E next \in Asks : /\ Turns(u, next) /\ next.at = "ensure" /\ ~next.retry
                               /\ next.held = (tokens.refresh \in server.live)
  <1> DEFINE held == tokens.refresh \in server.live
             next == [at |-> "ensure", expiry |-> sessionFile.expiry, retry |-> FALSE, held |-> held]
  <1>1. /\ Turns(u, next) /\ current' = current \cup {u} /\ alone' = u /\ user[u].at = "idle"
        /\ UNCHANGED <<sessionFile, tokens, login, server, orphan>>
    BY DEF Login!Load, Turns
  <1>2. held \in BOOLEAN /\ sessionFile.expiry \in 0 .. MaxPeriods
    BY DEF SessionTyped
  <1>3. next \in Asks /\ next.at = "ensure" /\ ~next.retry /\ next.held = held
    BY <1>2 DEF Asks
  <1> HIDE DEF next
  <1>4. /\ tokens' \in [access : Tokens \cup {Login!NoToken}, refresh : Login!Sessions \cup {Login!None}]
        /\ sessionFile' \in [linked : BOOLEAN, expiry : 0 .. MaxPeriods]
        /\ current' \subseteq Users \cup {Login!Locked}
    BY <1>1 DEF SessionTyped
  <1> QED BY <1>1, <1>3, <1>4 DEF OwnStep, Requests

LEMMA EnsureIs ==
  ASSUME LoginAssumption, SessionTyped, NEW u \in Users, Login!Ensure(u)
  PROVE  /\ OwnStep(u) /\ UNCHANGED <<tokens, current>> /\ user[u].at = "ensure"
         /\ alone' = u => alone = u
         /\ \/ \E next \in Sends : /\ Turns(u, next) /\ next.bearer = tokens.access
                                   /\ next.retry = user[u].retry /\ next.held = user[u].held
            \/ \E next \in Asks : Turns(u, next) /\ next.at = "refresh" /\ next.held = user[u].held
  <1>1. user[u] \in Asks /\ tokens.access \in Tokens \cup {Login!NoToken}
    BY Phases DEF Login!Ensure, SessionTyped
  <1>2. Turns(u, Login!Sent(user[u], tokens.access)) \/ Turns(u, Login!Asking(user[u], FALSE))
    BY DEF Login!Ensure, Turns, SessionTyped
  <1>3. /\ Login!Sent(user[u], tokens.access) \in Sends /\ Login!Asking(user[u], FALSE) \in Asks
        /\ Login!Sent(user[u], tokens.access).bearer = tokens.access
        /\ Login!Sent(user[u], tokens.access).retry = user[u].retry
        /\ Login!Sent(user[u], tokens.access).held = user[u].held
        /\ Login!Asking(user[u], FALSE).at = "refresh" /\ Login!Asking(user[u], FALSE).held = user[u].held
    BY <1>1, SentIs, AskingIs
  <1>4. UNCHANGED <<sessionFile, tokens, current, login, server, orphan>> /\ alone' \in {u, Login!Nobody}
        /\ user[u].at = "ensure" /\ (alone' = u => alone = u)
    BY DEF Login!Ensure, Login!Acts, Login!Nobody, LoginAssumption
  <1>5. /\ tokens' \in [access : Tokens \cup {Login!NoToken}, refresh : Login!Sessions \cup {Login!None}]
        /\ sessionFile' \in [linked : BOOLEAN, expiry : 0 .. MaxPeriods]
        /\ current' \subseteq Users \cup {Login!Locked}
    BY <1>4 DEF SessionTyped
  <1>6. \E next \in Requests : Turns(u, next)
    BY <1>2, <1>3 DEF Requests
  <1>7. OwnStep(u)
    BY <1>4, <1>5, <1>6 DEF OwnStep
  <1> QED BY <1>2, <1>3, <1>4, <1>7

LEMMA AskRefreshIs ==
  ASSUME LoginAssumption, SessionTyped, NEW u \in Users, Login!AskRefresh(u)
  PROVE  /\ OwnStep(u) /\ UNCHANGED <<tokens, current>> /\ user[u].at = "refresh"
         /\ alone' = u => alone = u
         /\ \/ \E next \in Stores : /\ Turns(u, next) /\ next.token = Login!Token(tokens.refresh)
                                    /\ next.held = user[u].held
            \/ \E next \in Rests : Turns(u, next) /\ (~Login!RefreshAnswers \/ alone' = Login!Nobody)
  <1>1. user[u] \in Asks /\ user[u].at = "refresh"
    BY Phases DEF Login!AskRefresh
  <1>2. UNCHANGED <<sessionFile, tokens, current, login, server, orphan>> /\ alone' \in {u, Login!Nobody} /\ (alone' = u => alone = u)
    BY DEF Login!AskRefresh, Login!Acts, Login!Fails, Login!Nobody, LoginAssumption
  <1>3. /\ tokens' \in [access : Tokens \cup {Login!NoToken}, refresh : Login!Sessions \cup {Login!None}]
        /\ sessionFile' \in [linked : BOOLEAN, expiry : 0 .. MaxPeriods]
        /\ current' \subseteq Users \cup {Login!Locked}
    BY <1>2 DEF SessionTyped
  <1>4. CASE Login!RefreshAnswers /\ Turns(u, Login!Storing(user[u], Login!Token(tokens.refresh)))
    <2>1. Login!Token(tokens.refresh) \in Tokens
      BY <1>4, Phases DEF Login!RefreshAnswers, Login!Token, Tokens
    <2>2. /\ Login!Storing(user[u], Login!Token(tokens.refresh)) \in Stores
          /\ Login!Storing(user[u], Login!Token(tokens.refresh)).token = Login!Token(tokens.refresh)
          /\ Login!Storing(user[u], Login!Token(tokens.refresh)).held = user[u].held
      BY <1>1, <2>1, StoringIs
    <2>3. \E next \in Requests : Turns(u, next)
      BY <1>4, <2>2 DEF Requests
    <2>4. OwnStep(u)
      BY <1>2, <1>3, <2>3 DEF OwnStep
    <2> QED BY <1>1, <1>2, <1>4, <2>2, <2>4
  <1>5. CASE /\ Turns(u, Login!Idle("unauthorized")) \/ Turns(u, Login!Idle("failed"))
             /\ ~Login!RefreshAnswers \/ alone' = Login!Nobody
    <2>1. Login!Idle("unauthorized") \in Rests /\ Login!Idle("failed") \in Rests
      BY IdleTyped DEF Lasts
    <2>2. \E next \in Requests : Turns(u, next)
      BY <1>5, <2>1 DEF Requests
    <2>3. OwnStep(u)
      BY <1>2, <1>3, <2>2 DEF OwnStep
    <2> QED BY <1>1, <1>2, <1>5, <2>1, <2>3
  <1>6. \/ Login!RefreshAnswers /\ Turns(u, Login!Storing(user[u], Login!Token(tokens.refresh)))
        \/ /\ Turns(u, Login!Idle("unauthorized")) \/ Turns(u, Login!Idle("failed"))
           /\ ~Login!RefreshAnswers \/ alone' = Login!Nobody
    BY DEF Login!AskRefresh, Turns, SessionTyped, Login!Fails
  <1> QED BY <1>4, <1>5, <1>6

LEMMA StoreRefreshIs ==
  ASSUME LoginAssumption, SessionTyped, NEW u \in Users, Login!StoreRefresh(u)
  PROVE  /\ OwnStep(u) /\ user[u].at = "store"
         /\ alone' = u => alone = u
         /\ \/ \E next \in Sends : /\ Turns(u, next) /\ next.bearer = user[u].token /\ next.held = user[u].held
                                   /\ u \in current'
            \/ alone' = Login!Nobody
  <1>1. user[u] \in Stores /\ user[u].at = "store" /\ user[u].token \in Tokens
    BY Phases DEF Login!StoreRefresh, Stores
  <1>2. UNCHANGED <<login, server, orphan>> /\ alone' \in {u, Login!Nobody} /\ (alone' = u => alone = u)
    BY DEF Login!StoreRefresh, Login!Acts, Login!Fails, Login!Nobody, LoginAssumption
  <1>3. /\ tokens' \in [access : Tokens \cup {Login!NoToken}, refresh : Login!Sessions \cup {Login!None}]
        /\ tokens'.refresh = tokens.refresh
        /\ sessionFile' \in [linked : BOOLEAN, expiry : 0 .. MaxPeriods] /\ sessionFile'.linked = sessionFile.linked
        /\ current' \subseteq Users \cup {Login!Locked}
        /\ Login!Refreshes(u, user[u].token) => u \in current'
    BY <1>1, RefreshesIs DEF Login!StoreRefresh
  <1>4. \/ Login!Refreshes(u, user[u].token) /\ Turns(u, Login!Sent(user[u], user[u].token))
        \/ Turns(u, Login!Idle("failed")) /\ alone' = Login!Nobody
    BY DEF Login!StoreRefresh, Turns, SessionTyped, Login!Fails
  <1>5. /\ Login!Sent(user[u], user[u].token) \in Sends /\ Login!Sent(user[u], user[u].token).bearer = user[u].token
        /\ Login!Sent(user[u], user[u].token).held = user[u].held
    BY <1>1, SentIs
  <1>6. Login!Idle("failed") \in Rests
    BY IdleTyped DEF Lasts
  <1>7. \E next \in Requests : Turns(u, next)
    BY <1>4, <1>5, <1>6 DEF Requests
  <1>8. OwnStep(u)
    BY <1>2, <1>3, <1>7 DEF OwnStep
  <1> QED BY <1>1, <1>2, <1>3, <1>4, <1>5, <1>8

LEMMA AnswerIs ==
  ASSUME LoginAssumption, SessionTyped, NEW u \in Users, Login!Answer(u)
  PROVE  /\ OwnStep(u) /\ UNCHANGED <<tokens, current>> /\ user[u].at = "sent"
         /\ alone' = u => alone = u
         /\ \/ Turns(u, Login!Idle("ok"))
            \/ \E next \in Asks : Turns(u, next) /\ next.at = "refresh" /\ next.held = user[u].held
            \/ \E next \in Rests : Turns(u, next) /\ (alone' = Login!Nobody \/ (~Login!Valid(user[u].bearer) /\ ~Login!Retries(user[u])))
  <1>1. user[u] \in Sends /\ user[u].at = "sent"
    BY Phases DEF Login!Answer
  <1>2. UNCHANGED <<sessionFile, tokens, current, login, server, orphan>> /\ alone' \in {u, Login!Nobody} /\ (alone' = u => alone = u)
    BY DEF Login!Answer, Login!Acts, Login!Fails, Login!Nobody, LoginAssumption
  <1>3. /\ tokens' \in [access : Tokens \cup {Login!NoToken}, refresh : Login!Sessions \cup {Login!None}]
        /\ sessionFile' \in [linked : BOOLEAN, expiry : 0 .. MaxPeriods]
        /\ current' \subseteq Users \cup {Login!Locked}
    BY <1>2 DEF SessionTyped
  <1>4. \/ Turns(u, Login!Idle("ok"))
        \/ Turns(u, Login!Asking(user[u], TRUE))
        \/ Turns(u, Login!Idle("unauthorized")) /\ ~Login!Valid(user[u].bearer) /\ ~Login!Retries(user[u])
        \/ Turns(u, Login!Idle("failed")) /\ alone' = Login!Nobody
    BY DEF Login!Answer, Turns, SessionTyped, Login!Fails
  <1>5. /\ Login!Asking(user[u], TRUE) \in Asks /\ Login!Asking(user[u], TRUE).at = "refresh"
        /\ Login!Asking(user[u], TRUE).held = user[u].held
    BY <1>1, AskingIs
  <1>6. Login!Idle("ok") \in Rests /\ Login!Idle("unauthorized") \in Rests /\ Login!Idle("failed") \in Rests
    BY IdleTyped DEF Lasts
  <1>7. \E next \in Requests : Turns(u, next)
    BY <1>4, <1>5, <1>6 DEF Requests
  <1>8. OwnStep(u)
    BY <1>2, <1>3, <1>7 DEF OwnStep
  <1> QED BY <1>1, <1>2, <1>4, <1>5, <1>6, <1>8

LEMMA SaveEventIs ==
  ASSUME LoginAssumption, SessionTyped, NEW u \in Users, Login!SaveEvent(u)
  PROVE  /\ OwnStep(u) /\ UNCHANGED <<user, tokens>> /\ u \in current'
         /\ alone' = u => alone = u
  <1>1. UNCHANGED <<sessionFile, tokens, login, user, server, orphan>> /\ alone' \in {u, Login!Nobody} /\ (alone' = u => alone = u)
        /\ current' = {u}
    BY DEF Login!SaveEvent, Login!Saves, Login!Acts, Login!Nobody, LoginAssumption
  <1>2. /\ tokens' \in [access : Tokens \cup {Login!NoToken}, refresh : Login!Sessions \cup {Login!None}]
        /\ sessionFile' \in [linked : BOOLEAN, expiry : 0 .. MaxPeriods]
        /\ current' \subseteq Users \cup {Login!Locked}
    BY <1>1 DEF SessionTyped
  <1>3. Turns(u, user[u]) /\ user[u] \in Requests
    BY <1>1 DEF SessionTyped, Turns
  <1> QED BY <1>1, <1>2, <1>3 DEF OwnStep

\* Whatever a process without the lock does, no session is lost by it.
LEMMA OwnStepHeld ==
  ASSUME SInv, NEW u \in Users, OwnStep(u)
  PROVE  /\ SInv' /\ \A v \in Users \ {u} : user'[v] = user[v]
  <1>1. PICK next \in Requests : Turns(u, next)
    BY DEF OwnStep
  <1>2. user' \in [Users -> Requests] /\ \A v \in Users \ {u} : user'[v] = user[v]
    BY <1>1 DEF Turns, SInv, SessionTyped
  <1>3. SessionTyped'
    BY <1>2 DEF SInv, SessionTyped, OwnStep
  <1>4. Approved' /\ Leaving' /\ Held'
    BY DEF SInv, OwnStep, Approved, Leaving, Held, Granted
  <1> QED BY <1>2, <1>3, <1>4 DEF SInv

LEMMA TurnsIs ==
  ASSUME SessionTyped, NEW u \in Users, NEW next, Turns(u, next)
  PROVE  user'[u] = next
  BY DEF Turns, SessionTyped

-----------------------------------------------------------------------------
(* A request that is alone.                                                *)

LEMMA AloneOwn ==
  ASSUME LoginAssumption, AInv, NEW u \in Users, OwnStep(u),
         alone' = u /\ user'[u].at # "idle" /\ user'[u].held => Undisturbed(u)'
  PROVE  AInv'
  <1>1. SInv'
    BY OwnStepHeld DEF AInv
  <1>2. \A v \in Users : v # u => alone' # v
    BY DEF OwnStep, Login!Nobody, LoginAssumption
  <1>3. alone' # Login!Locked
    BY DEF OwnStep, Login!Nobody, Login!Locked, LoginAssumption
  <1> QED BY <1>1, <1>2, <1>3 DEF AInv

LEMMA AloneLoad ==
  ASSUME LoginAssumption, AInv, NEW u \in Users, Login!Load(u)
  PROVE  AInv'
  <1>1. SessionTyped
    BY DEF AInv, SInv
  <1>2. OwnStep(u) /\ u \in current' /\ UNCHANGED <<tokens, server>>
    BY <1>1, LoadIs DEF OwnStep
  <1>3. user'[u].at = "ensure" /\ ~user'[u].retry /\ user'[u].held = (tokens.refresh \in server.live)
    BY <1>1, LoadIs, TurnsIs
  <1>4. user'[u].held => Undisturbed(u)'
    BY <1>2, <1>3 DEF Undisturbed
  <1> QED BY <1>2, <1>4, AloneOwn

LEMMA AloneEnsure ==
  ASSUME LoginAssumption, AInv, NEW u \in Users, Login!Ensure(u)
  PROVE  AInv'
  <1>1. SessionTyped
    BY DEF AInv, SInv
  <1>2. OwnStep(u) /\ UNCHANGED <<tokens, current, server>> /\ user[u].at = "ensure" /\ (alone' = u => alone = u)
    BY <1>1, EnsureIs DEF OwnStep
  <1>3. \/ /\ user'[u].at = "sent" /\ user'[u].bearer = tokens.access
           /\ user'[u].retry = user[u].retry /\ user'[u].held = user[u].held
        \/ user'[u].at = "refresh" /\ user'[u].held = user[u].held
    BY <1>1, EnsureIs, TurnsIs DEF Sends
  <1>4. ASSUME alone' = u, user'[u].held
        PROVE  Undisturbed(u)'
    <2>1. Undisturbed(u)
      BY <1>2, <1>3, <1>4 DEF AInv
    <2>2. u \in current' /\ tokens'.refresh \in server'.live /\ ~user[u].retry
      BY <1>2, <2>1 DEF Undisturbed
    <2>3. user'[u].at = "sent" => Login!Retries(user[u])'
      BY <1>2, <1>3, <2>2 DEF Login!Retries
    <2> QED BY <1>3, <2>2, <2>3 DEF Undisturbed
  <1> QED BY <1>2, <1>4, AloneOwn

LEMMA AloneAsk ==
  ASSUME LoginAssumption, AInv, NEW u \in Users, Login!AskRefresh(u)
  PROVE  AInv'
  <1>1. SessionTyped
    BY DEF AInv, SInv
  <1>2. OwnStep(u) /\ UNCHANGED <<tokens, current, server>> /\ user[u].at = "refresh" /\ (alone' = u => alone = u)
    BY <1>1, AskRefreshIs DEF OwnStep
  <1>3. \/ /\ user'[u].at = "store" /\ user'[u].token = Login!Token(tokens.refresh) /\ user'[u].held = user[u].held
        \/ user'[u].at = "idle"
    BY <1>1, AskRefreshIs, TurnsIs DEF Stores, Rests
  <1>4. ASSUME alone' = u, user'[u].at # "idle", user'[u].held
        PROVE  Undisturbed(u)'
    <2>1. Undisturbed(u)
      BY <1>2, <1>3, <1>4 DEF AInv
    <2>2. Login!Token(tokens.refresh)' = Login!Token(tokens.refresh)
      BY <1>2 DEF Login!Token
    <2> QED BY <1>2, <1>3, <1>4, <2>1, <2>2 DEF Undisturbed
  <1> QED BY <1>2, <1>4, AloneOwn

LEMMA AloneStore ==
  ASSUME LoginAssumption, AInv, NEW u \in Users, Login!StoreRefresh(u)
  PROVE  AInv'
  <1>1. SessionTyped
    BY DEF AInv, SInv
  <1>2. OwnStep(u) /\ UNCHANGED server /\ tokens'.refresh = tokens.refresh
        /\ user[u].at = "store" /\ (alone' = u => alone = u)
    BY <1>1, StoreRefreshIs DEF OwnStep
  <1>3. \/ /\ user'[u].at = "sent" /\ user'[u].bearer = user[u].token /\ user'[u].held = user[u].held
           /\ u \in current'
        \/ alone' = Login!Nobody
    BY <1>1, StoreRefreshIs, TurnsIs DEF Sends
  <1>4. ASSUME alone' = u, user'[u].at # "idle", user'[u].held
        PROVE  Undisturbed(u)'
    <2>1. alone' # Login!Nobody
      BY <1>4 DEF Login!Nobody, LoginAssumption
    <2>2. Undisturbed(u)
      BY <1>2, <1>3, <1>4, <2>1 DEF AInv
    <2>3. user[u].token = <<tokens.refresh, server.period>> /\ tokens.refresh \in server.live
      BY <1>2, <2>2 DEF Undisturbed, Login!Token
    <2>4. Login!Valid(user[u].bearer)'
      <3>1. user'[u].bearer = <<tokens.refresh, server.period>>
        BY <1>3, <2>1, <2>3
      <3>2. user'[u].bearer[1] \in server'.live /\ user'[u].bearer[2] = server'.period
        BY <1>2, <2>3, <3>1
      <3> QED BY <3>2 DEF Login!Valid
    <2> QED BY <1>2, <1>3, <1>4, <2>1, <2>3, <2>4 DEF Undisturbed
  <1> QED BY <1>2, <1>4, AloneOwn

LEMMA AloneAnswer ==
  ASSUME LoginAssumption, AInv, NEW u \in Users, Login!Answer(u)
  PROVE  AInv'
  <1>1. SessionTyped
    BY DEF AInv, SInv
  <1>2. OwnStep(u) /\ UNCHANGED <<tokens, current, server>> /\ user[u].at = "sent" /\ (alone' = u => alone = u)
    BY <1>1, AnswerIs DEF OwnStep
  <1>3. \/ user'[u].at = "refresh" /\ user'[u].held = user[u].held
        \/ user'[u].at = "idle"
    <2>1. Login!Idle("ok").at = "idle"
      BY DEF Login!Idle
    <2> QED BY <1>1, <2>1, AnswerIs, TurnsIs DEF Rests
  <1>4. ASSUME alone' = u, user'[u].at # "idle", user'[u].held
        PROVE  Undisturbed(u)'
    <2>1. Undisturbed(u)
      BY <1>2, <1>3, <1>4 DEF AInv
    <2> QED BY <1>2, <1>3, <1>4, <2>1 DEF Undisturbed
  <1> QED BY <1>2, <1>4, AloneOwn

LEMMA AloneEvent ==
  ASSUME LoginAssumption, AInv, NEW u \in Users, Login!SaveEvent(u)
  PROVE  AInv'
  <1>1. OwnStep(u) /\ UNCHANGED <<user, tokens, server>> /\ u \in current' /\ (alone' = u => alone = u)
    BY SaveEventIs DEF AInv, SInv, OwnStep
  <1>2. ASSUME alone' = u, user'[u].at # "idle", user'[u].held
        PROVE  Undisturbed(u)'
    <2>1. Undisturbed(u)
      BY <1>1, <1>2 DEF AInv
    <2>2. \A r : (Login!Valid(r) => Login!Valid(r)') /\ (Login!Retries(r) => Login!Retries(r)')
      BY <1>1 DEF Login!Valid, Login!Retries
    <2>3. Login!Token(tokens.refresh)' = Login!Token(tokens.refresh)
      BY <1>1 DEF Login!Token
    <2> QED BY <1>1, <2>1, <2>2, <2>3 DEF Undisturbed
  <1> QED BY <1>1, <1>2, AloneOwn

LEMMA AloneUser ==
  ASSUME LoginAssumption, AInv, NEW u \in Users, Login!UserStep(u) \/ Login!SaveEvent(u)
  PROVE  AInv'
  BY AloneLoad, AloneEnsure, AloneAsk, AloneStore, AloneAnswer, AloneEvent DEF Login!UserStep

Succeeds(u) ==
    user[u].at # "idle" /\ user'[u].at = "idle" /\ alone' = u /\ user[u].held => user'[u].last = "ok"

LEMMA OwnSucceeds ==
  ASSUME LoginAssumption, AInv, NEW u \in Users, Login!UserStep(u) \/ Login!SaveEvent(u)
  PROVE  Succeeds(u)
  <1> SUFFICES ASSUME user[u].at # "idle", user'[u].at = "idle", alone' = u, user[u].held
               PROVE  user'[u].last = "ok"
    BY DEF Succeeds
  <1>1. SessionTyped /\ alone' # Login!Nobody
    BY DEF AInv, SInv, Login!Nobody, LoginAssumption
  <1>2. CASE Login!Load(u) \/ Login!SaveEvent(u)
    BY <1>1, <1>2, LoadIs, SaveEventIs
  <1>3. CASE Login!Ensure(u)
    BY <1>1, <1>3, EnsureIs, TurnsIs DEF Sends
  <1>4. CASE Login!AskRefresh(u)
    <2>1. alone = u
      BY <1>1, <1>4, AskRefreshIs
    <2>2. tokens.refresh \in server.live /\ server.live \subseteq Login!Sessions
      BY <1>1, <2>1, Phases DEF AInv, Undisturbed
    <2>3. Login!RefreshAnswers
      BY <2>2 DEF Login!RefreshAnswers, Login!Sessions, Login!None
    <2> QED BY <1>1, <1>4, <2>3, AskRefreshIs, TurnsIs DEF Stores
  <1>5. CASE Login!StoreRefresh(u)
    BY <1>1, <1>5, StoreRefreshIs, TurnsIs DEF Sends
  <1>6. CASE Login!Answer(u)
    <2>1. alone = u /\ user[u].at = "sent"
      BY <1>1, <1>6, AnswerIs
    <2>2. Login!Valid(user[u].bearer) \/ Login!Retries(user[u])
      BY <2>1 DEF AInv, Undisturbed
    <2>3. user'[u] = Login!Idle("ok")
      BY <1>1, <1>6, <2>2, AnswerIs, TurnsIs
    <2> QED BY <2>3 DEF Login!Idle
  <1> QED BY <1>2, <1>3, <1>4, <1>5, <1>6 DEF Login!UserStep

-----------------------------------------------------------------------------
(* The commands that hold the state lock.                                  *)

LEMMA WorkingIs ==
  ASSUME SessionTyped, NEW at \in {"code", "refresh", "remote"}, NEW cmd \in {"login", "force", "logout"}
  PROVE  /\ Login!Working(at, cmd, Login!None) \in Works /\ Login!Working(at, cmd, Login!None).at = at
         /\ Login!Working(at, cmd, Login!None).cmd = cmd /\ Login!Working(at, cmd, Login!None).linked = sessionFile.linked
  <1>1. sessionFile.linked \in BOOLEAN
    BY DEF SessionTyped
  <1> QED BY <1>1 DEF Login!Working, Works, Ats

Moved(j, at) == [j EXCEPT !.at = at]

LEMMA MovedIs ==
  ASSUME NEW j \in Works, NEW at \in Ats
  PROVE  /\ Moved(j, at) \in Works /\ Moved(j, at).at = at /\ Moved(j, at).cmd = j.cmd
         /\ Moved(j, at).linked = j.linked /\ Moved(j, at).session = j.session
  BY DEF Moved, Works

LEMMA NoTokenTyped ==
  Login!NoToken \in Tokens \cup {Login!NoToken} /\ Login!TokensDeleted \in [access : Tokens \cup {Login!NoToken}, refresh : Login!Sessions \cup {Login!None}]
  BY DEF Login!TokensDeleted

LEMMA EndsIs ==
  ASSUME SessionTyped, NEW s
  PROVE  /\ Login!Ends(s) \in [approved : 0 .. MaxSessions, live : SUBSET Login!Sessions, period : 1 .. MaxPeriods]
         /\ Login!Ends(s).approved = server.approved /\ Login!Ends(s).live = server.live \ {s} /\ Login!Ends(s).period = server.period
  <1> DEFINE live == server.live \ {s}
  <1>1. Login!Ends(s) = [server EXCEPT !.live = live]
    BY DEF Login!Ends, SessionTyped
  <1>2. live \in SUBSET Login!Sessions
    BY DEF SessionTyped
  <1> HIDE DEF live
  <1>3. LET next == [server EXCEPT !.live = live] IN
        /\ next \in [approved : 0 .. MaxSessions, live : SUBSET Login!Sessions, period : 1 .. MaxPeriods]
        /\ next.approved = server.approved /\ next.live = live /\ next.period = server.period
    BY <1>2 DEF SessionTyped
  <1> QED BY <1>1, <1>3 DEF live

\* A step of the command that holds the lock leaves the requests alone.
LEMMA LockedStep ==
  ASSUME LoginAssumption, AInv, SInv', UNCHANGED user, alone' \in {Login!Locked, Login!Nobody},
         alone' = Login!Locked /\ login'.at # "idle" /\ login'.cmd = "logout" => LogsOut'
  PROVE  AInv'
  <1>1. \A u \in Users : alone' # u
    BY DEF Login!Locked, Login!Nobody, LoginAssumption
  <1> QED BY <1>1 DEF AInv, Login!JobFree

LEMMA SBegin ==
  ASSUME LoginAssumption, AInv, NEW cmd \in {"login", "force", "logout"}, Login!Begin(cmd)
  PROVE  AInv'
  <1>1. SessionTyped /\ SInv
    BY DEF AInv, SInv
  <1>2. /\ Login!JobFree /\ UNCHANGED <<sessionFile, tokens, user, server, orphan>> /\ alone' = Login!Locked
        /\ current' = current \cup {Login!Locked}
    BY DEF Login!Begin
  <1>3. \/ login' = Login!Idle("ok")
        \/ login' = Login!Working("code", cmd, Login!None) /\ ~sessionFile.linked
        \/ login' = Login!Working("refresh", cmd, Login!None) /\ cmd # "logout"
        \/ login' = Login!Working("remote", cmd, Login!None) /\ cmd # "login"
    BY DEF Login!Begin
  <1>4. /\ login' \in Rests \cup Works
        /\ login'.at \in {"idle", "code", "refresh", "remote"}
        /\ login'.at = "code" => ~login'.linked
        /\ login'.at = "remote" => login'.cmd # "login"
        /\ login'.at # "idle" /\ login'.cmd = "logout" => login'.at \in {"code", "remote"}
    <2>1. Login!Idle("ok") \in Rests /\ Login!Idle("ok").at = "idle"
      BY IdleTyped DEF Lasts
    <2>2. \A at \in {"code", "refresh", "remote"} :
            /\ Login!Working(at, cmd, Login!None) \in Works /\ Login!Working(at, cmd, Login!None).at = at
            /\ Login!Working(at, cmd, Login!None).cmd = cmd /\ Login!Working(at, cmd, Login!None).linked = sessionFile.linked
      BY <1>1, WorkingIs
    <2> QED BY <1>3, <2>1, <2>2
  <1>5. login'.at # "idle" /\ login'.cmd = "logout" => login'.at = "remote"
    <2>1. CASE cmd = "logout"
      <3>1. login' = Login!Idle("ok") \/ login' = Login!Working("remote", cmd, Login!None)
        BY <2>1 DEF Login!Begin
      <3>2. Login!Idle("ok").at = "idle" /\ Login!Working("remote", cmd, Login!None).at = "remote"
        BY DEF Login!Idle, Login!Working
      <3> QED BY <3>1, <3>2
    <2>2. CASE cmd # "logout"
      <3>1. \A at \in {"code", "refresh", "remote"} : Login!Working(at, cmd, Login!None).cmd = cmd
        BY DEF Login!Working
      <3>2. Login!Idle("ok").at = "idle"
        BY DEF Login!Idle
      <3> QED BY <1>3, <2>2, <3>1, <3>2
    <2> QED BY <2>1, <2>2
  <1>6. SInv'
    <2>1. SessionTyped'
      BY <1>1, <1>2, <1>4 DEF SessionTyped
    <2>2. Approved' /\ Leaving' /\ Held'
      BY <1>1, <1>2, <1>4 DEF SInv, Approved, Leaving, Held, Granted, Login!JobFree
    <2> QED BY <2>1, <2>2 DEF SInv
  <1>7. alone' = Login!Locked /\ login'.at # "idle" /\ login'.cmd = "logout" => LogsOut'
    BY <1>2, <1>5 DEF LogsOut
  <1> QED BY <1>2, <1>6, <1>7, LockedStep

LEMMA SLoginRefreshes ==
  ASSUME LoginAssumption, AInv, Login!LoginRefreshes
  PROVE  AInv'
  <1>1. SessionTyped /\ SInv /\ login.at = "refresh"
    BY DEF AInv, SInv, Login!LoginRefreshes
  <1>2. login \in Works /\ ~Login!JobFree
    BY <1>1, Phases DEF Login!JobFree
  <1>3. UNCHANGED <<sessionFile, tokens, current, user, server, orphan>> /\ alone' \in {Login!Locked, Login!Nobody}
    BY DEF Login!LoginRefreshes, Login!Acts, Login!Fails
  <1>4. \/ Login!RefreshAnswers /\ login' = Moved(login, "store")
        \/ tokens.refresh # Login!None /\ ~Login!RefreshAnswers /\ login' = Moved(login, "code")
        \/ login' = Login!Idle("failed")
    BY DEF Login!LoginRefreshes, Moved
  <1>5. /\ login' \in Rests \cup Works
        /\ login'.at \in {"store", "code", "idle"}
        /\ login'.at = "store" => tokens.refresh # Login!None
        /\ login'.at = "code" => tokens.refresh \notin server.live
        /\ login'.at # "idle" => login'.cmd = login.cmd
    <2>1. Login!Idle("failed") \in Rests /\ Login!Idle("failed").at = "idle"
      BY IdleTyped DEF Lasts
    <2>2. \A at \in {"store", "code"} :
            Moved(login, at) \in Works /\ Moved(login, at).at = at /\ Moved(login, at).cmd = login.cmd
      BY <1>2, MovedIs DEF Ats
    <2>3. tokens.refresh # Login!None /\ ~Login!RefreshAnswers => tokens.refresh \notin server.live
      BY DEF Login!RefreshAnswers
    <2>4. Login!RefreshAnswers => tokens.refresh # Login!None
      BY DEF Login!RefreshAnswers
    <2> QED BY <1>4, <2>1, <2>2, <2>3, <2>4
  <1>6. SInv'
    <2>1. SessionTyped'
      BY <1>1, <1>3, <1>5 DEF SessionTyped
    <2>2. Approved' /\ Leaving' /\ Held'
      BY <1>1, <1>3, <1>5 DEF SInv, Approved, Leaving, Held, Granted
    <2> QED BY <2>1, <2>2 DEF SInv
  <1>7. alone' = Login!Locked /\ login'.at # "idle" => alone = Login!Locked /\ login.cmd = login'.cmd
    BY <1>5 DEF Login!LoginRefreshes, Login!Acts, Login!Fails, Login!Locked, Login!Nobody, LoginAssumption
  <1>8. alone' = Login!Locked /\ login'.at # "idle" /\ login'.cmd = "logout" => FALSE
    BY <1>1, <1>2, <1>7 DEF AInv, LogsOut
  <1> QED BY <1>3, <1>6, <1>8, LockedStep

LEMMA SLoginStores ==
  ASSUME LoginAssumption, AInv, Login!LoginStores
  PROVE  AInv'
  <1>1. SessionTyped /\ SInv /\ login.at = "store" /\ tokens.refresh # Login!None
    BY DEF AInv, SInv, Login!LoginStores, Approved
  <1>2. Login!Token(tokens.refresh) \in Tokens
    BY <1>1, Phases DEF Login!Token, Tokens, SessionTyped
  <1>3. /\ UNCHANGED <<user, server, orphan>> /\ alone' \in {Login!Locked, Login!Nobody}
        /\ login' = Login!Idle("ok") \/ login' = Login!Idle("failed")
        /\ Login!Refreshes(Login!Locked, Login!Token(tokens.refresh)) \/ Login!RefreshNotSaved(Login!Locked, Login!Token(tokens.refresh))
    BY DEF Login!LoginStores, Login!Acts, Login!Fails
  <1>4. /\ tokens' \in [access : Tokens \cup {Login!NoToken}, refresh : Login!Sessions \cup {Login!None}]
        /\ tokens'.refresh = tokens.refresh
        /\ sessionFile' \in [linked : BOOLEAN, expiry : 0 .. MaxPeriods]
        /\ current' \subseteq Users \cup {Login!Locked}
    BY <1>1, <1>2, <1>3, RefreshesIs
  <1>5. login' \in Rests /\ login'.at = "idle"
    BY <1>3, IdleTyped DEF Lasts
  <1>6. SInv'
    <2>1. SessionTyped'
      BY <1>1, <1>3, <1>4, <1>5 DEF SessionTyped
    <2>2. Approved' /\ Leaving' /\ Held'
      BY <1>1, <1>3, <1>4, <1>5 DEF SInv, Approved, Leaving, Held, Granted
    <2> QED BY <2>1, <2>2 DEF SInv
  <1> QED BY <1>3, <1>5, <1>6, LockedStep

LEMMA SRemoteLogout ==
  ASSUME LoginAssumption, AInv, Login!RemoteLogout
  PROVE  AInv'
  <1>1. SessionTyped /\ SInv /\ login.at = "remote" /\ login.cmd # "login"
    BY DEF AInv, SInv, Approved, Login!RemoteLogout
  <1>2. login \in Works /\ ~Login!JobFree
    BY <1>1, Phases DEF Login!JobFree
  <1>3. /\ UNCHANGED <<sessionFile, tokens, current, user>> /\ alone' \in {Login!Locked, Login!Nobody}
        /\ alone' = Login!Locked => alone = Login!Locked
    BY DEF Login!RemoteLogout, Login!Acts, Login!Fails, Login!Locked, Login!Nobody
  <1>4. /\ server' \in [approved : 0 .. MaxSessions, live : SUBSET Login!Sessions, period : 1 .. MaxPeriods]
        /\ server'.approved = server.approved /\ server'.live \subseteq server.live
        /\ server'.live = server.live \/ server'.live = server.live \ {tokens.refresh}
    BY <1>1, EndsIs DEF Login!RemoteLogout, SessionTyped
  <1>5. /\ orphan \subseteq orphan'
        /\ \/ login' = Login!Idle("failed")
           \/ /\ login.cmd # "logout" /\ login' = Moved(login, "code")
              /\ tokens.refresh \notin server'.live
           \/ login' = Moved(login, "clear") /\ tokens.refresh \notin server'.live \ orphan'
    <2>1. CASE /\ tokens.refresh # Login!None /\ server' = Login!Ends(tokens.refresh)
               /\ login' = Moved(login, IF login.cmd = "force" THEN "code" ELSE "clear") /\ UNCHANGED orphan
      BY <1>1, <2>1, EndsIs
    <2>2. CASE /\ tokens.refresh = Login!None /\ UNCHANGED <<server, orphan>>
               /\ login' = IF login.cmd = "force" THEN Login!Idle("failed") ELSE Moved(login, "clear")
      <3>1. tokens.refresh \notin server.live
        BY <1>1, <2>2 DEF SessionTyped, Login!Sessions, Login!None
      <3> QED BY <2>2, <3>1
    <2>3. CASE /\ login' = IF login.cmd = "force" THEN Login!Idle("failed") ELSE Moved(login, "clear")
               /\ orphan' = IF login.cmd = "logout" THEN orphan \cup {tokens.refresh} ELSE orphan
               /\ UNCHANGED server
      BY <1>1, <1>2, <2>3 DEF Works
    <2> QED BY <2>1, <2>2, <2>3 DEF Login!RemoteLogout, Moved
  <1>6. /\ login' \in Rests \cup Works
        /\ login'.at \in {"idle", "code", "clear"}
        /\ login'.at = "code" => tokens.refresh \notin server'.live /\ login'.cmd # "logout"
        /\ login'.at = "clear" => tokens.refresh \notin server'.live \ orphan'
    <2>1. Login!Idle("failed") \in Rests /\ Login!Idle("failed").at = "idle"
      BY IdleTyped DEF Lasts
    <2>2. \A at \in {"clear", "code"} :
            Moved(login, at) \in Works /\ Moved(login, at).at = at /\ Moved(login, at).cmd = login.cmd
      BY <1>2, MovedIs DEF Ats
    <2> QED BY <1>5, <2>1, <2>2
  <1>7. SInv'
    <2>1. SessionTyped'
      BY <1>1, <1>3, <1>4, <1>6 DEF SessionTyped
    <2>2. Approved' /\ Leaving' /\ Held'
      BY <1>1, <1>3, <1>4, <1>5, <1>6 DEF SInv, Approved, Leaving, Held, Granted
    <2> QED BY <2>1, <2>2 DEF SInv
  <1>8. login'.cmd = login.cmd \/ login'.at = "idle"
    <2>1. \A at \in {"clear", "code"} : Moved(login, at).cmd = login.cmd
      BY <1>2, MovedIs DEF Ats
    <2>2. Login!Idle("failed").at = "idle"
      BY DEF Login!Idle
    <2> QED BY <1>5, <2>1, <2>2
  <1>9. alone' = Login!Locked /\ login'.at # "idle" /\ login'.cmd = "logout" => LogsOut'
    BY <1>2, <1>3, <1>6, <1>8 DEF AInv, LogsOut
  <1> QED BY <1>3, <1>7, <1>9, LockedStep

LEMMA SDeviceCode ==
  ASSUME LoginAssumption, AInv, Login!DeviceCode
  PROVE  AInv'
  <1> DEFINE new == server.approved + 1
             live == server.live \cup {new}
             given == [server EXCEPT !.approved = new, !.live = live]
             next == [login EXCEPT !.at = "link", !.session = new]
  <1>1. SessionTyped /\ SInv /\ login.at = "code" /\ UNCHANGED <<sessionFile, tokens, current, user, orphan>>
        /\ alone' \in {Login!Locked, Login!Nobody} /\ (alone' = Login!Locked => alone = Login!Locked)
    BY DEF AInv, SInv, Login!DeviceCode, Login!Acts, Login!Fails, Login!Locked, Login!Nobody
  <1>2. login \in Works /\ ~Login!JobFree
    BY <1>1, Phases DEF Login!JobFree
  <1>3. \/ server.approved < MaxSessions /\ server' = given /\ login' = next /\ (alone' = Login!Locked => alone = Login!Locked)
        \/ login' = Login!Idle("failed") /\ UNCHANGED server
    BY <1>1, <1>2 DEF Login!DeviceCode, SessionTyped, Works
  <1>4. CASE login' = Login!Idle("failed") /\ UNCHANGED server
    <2>1. login' \in Rests /\ login'.at = "idle"
      BY <1>4, IdleTyped DEF Lasts
    <2>2. SessionTyped'
      BY <1>1, <1>4, <2>1 DEF SessionTyped
    <2>3. Approved' /\ Leaving' /\ Held'
      BY <1>1, <1>4, <2>1 DEF SInv, Approved, Leaving, Held, Granted
    <2> QED BY <1>1, <2>1, <2>2, <2>3, LockedStep DEF SInv
  <1>5. CASE server.approved < MaxSessions /\ server' = given /\ login' = next
    <2>1. /\ new \in Login!Sessions /\ new \in 0 .. MaxSessions /\ live \in SUBSET Login!Sessions
          /\ server.approved \in 0 .. MaxSessions /\ server.live \subseteq 1 .. server.approved
          /\ tokens.refresh \in 0 .. server.approved
      BY <1>1, <1>5 DEF SessionTyped, SInv, Approved, Login!Sessions, Login!None, LoginAssumption
    <2>2. new \in 1 .. new /\ live \subseteq 1 .. new /\ tokens.refresh # new /\ tokens.refresh <= new
      BY <1>1, <2>1 DEF LoginAssumption
    <2>3. tokens.refresh \notin server.live => tokens.refresh \notin live
      BY <2>2
    <2>4. /\ given \in [approved : 0 .. MaxSessions, live : SUBSET Login!Sessions, period : 1 .. MaxPeriods]
          /\ given.approved = new /\ given.live = live
      <3> HIDE DEF new, live
      <3> QED BY <1>1, <2>1 DEF SessionTyped
    <2>5. next \in Works /\ next.at = "link" /\ next.session = new /\ next.linked = login.linked /\ next.cmd = login.cmd
      <3> HIDE DEF new, live
      <3> QED BY <1>2, <2>1 DEF Works, Ats
    <2>6. SessionTyped'
      <3> HIDE DEF given, next, new, live
      <3> QED BY <1>1, <1>5, <2>4, <2>5 DEF SessionTyped
    <2>7. Approved'
      <3> HIDE DEF given, next, new, live
      <3> QED BY <1>1, <1>5, <2>2, <2>4, <2>5 DEF Approved
    <2>8. Held'
      <3>1. live = server.live \cup {new}
        OBVIOUS
      <3> HIDE DEF given, next, new, live
      <3> QED BY <1>1, <1>5, <2>4, <2>5, <3>1 DEF SInv, Held, Granted
    <2>9. Leaving'
      <3> HIDE DEF given, next, new, live
      <3> QED BY <1>1, <1>5, <2>3, <2>4, <2>5 DEF SInv, Leaving
    <2>10. alone' = Login!Locked /\ login'.cmd = "logout" => FALSE
      <3> HIDE DEF given, next, new, live
      <3> QED BY <1>1, <1>2, <1>3, <1>5, <2>5 DEF AInv, LogsOut
    <2> QED BY <1>1, <2>6, <2>7, <2>8, <2>9, <2>10, LockedStep DEF SInv
  <1> QED BY <1>3, <1>4, <1>5

LEMMA SLinkTokens ==
  ASSUME LoginAssumption, AInv, Login!LinkTokens
  PROVE  AInv'
  <1>1. /\ SessionTyped /\ SInv /\ login.at = "link" /\ UNCHANGED <<sessionFile, current, user, server>>
        /\ alone' \in {Login!Locked, Login!Nobody} /\ (alone' = Login!Locked => alone = Login!Locked)
    BY DEF AInv, SInv, Login!LinkTokens, Login!Acts, Login!Fails, Login!Locked, Login!Nobody
  <1>2. login \in Works /\ ~Login!JobFree
    BY <1>1, Phases DEF Login!JobFree
  <1>3. login.session \in Login!Sessions \cup {Login!None} /\ (login.linked => tokens.refresh \notin server.live)
    BY <1>1, <1>2 DEF Works, SInv, Leaving
  <1>4. server.live \subseteq {tokens.refresh, login.session} \cup orphan
    BY <1>1 DEF SInv, Held, Granted
  <1>5. CASE /\ tokens' = [access |-> Login!Token(login.session), refresh |-> login.session]
             /\ login' = Moved(login, "saveLink")
             /\ orphan' = IF login.linked THEN orphan ELSE orphan \cup {tokens.refresh}
    <2>1. login.session \in Login!Sessions /\ login.session <= server.approved
      BY <1>1 DEF SInv, Approved, SessionTyped, Login!Sessions, LoginAssumption
    <2>2. Login!Token(login.session) \in Tokens
      BY <1>1, <2>1, Phases DEF Login!Token, Tokens
    <2>3. /\ tokens' \in [access : Tokens \cup {Login!NoToken}, refresh : Login!Sessions \cup {Login!None}]
          /\ tokens'.refresh = login.session
      BY <1>5, <2>1, <2>2
    <2>4. login' \in Works /\ login'.at = "saveLink" /\ login'.cmd = login.cmd
      BY <1>2, <1>5, MovedIs DEF Ats
    <2>5. SessionTyped'
      BY <1>1, <2>3, <2>4 DEF SessionTyped
    <2>6. Approved' /\ Leaving'
      BY <1>1, <2>1, <2>3, <2>4 DEF SInv, Approved, Leaving
    <2>7. Held'
      BY <1>1, <1>3, <1>4, <1>5, <2>3, <2>4 DEF Held, Granted
    <2>8. alone' = Login!Locked /\ login'.cmd = "logout" => FALSE
      BY <1>1, <1>2, <2>4 DEF AInv, LogsOut
    <2> QED BY <1>1, <2>5, <2>6, <2>7, <2>8, LockedStep DEF SInv
  <1>6. CASE /\ tokens' \in Login!LinkLeaves
             /\ login' = Login!Idle("failed") /\ orphan' = orphan \cup {login.session}
    <2>1. login.session \in Login!Sessions
      BY <1>1 DEF SInv, Approved, SessionTyped, Login!Sessions, LoginAssumption
    <2>2. /\ tokens' \in [access : Tokens \cup {Login!NoToken}, refresh : Login!Sessions \cup {Login!None}]
          /\ tokens'.refresh \in {tokens.refresh, IF login.linked THEN Login!None ELSE tokens.refresh}
      <3>1. Login!Cleared.refresh = IF login.linked THEN Login!None ELSE tokens.refresh
        BY DEF Login!Cleared
      <3>2. Login!Token(login.session) \in Tokens
        BY <1>1, <2>1, Phases DEF Login!Token, Tokens
      <3>3. PICK c, t : c = Login!Cleared.refresh /\ t = Login!Token(login.session)
        OBVIOUS
      <3>4. tokens' \in [access : {Login!NoToken, tokens.access, t}, refresh : {c, tokens.refresh}]
        BY <1>6, <3>3 DEF Login!LinkLeaves
      <3>5. tokens.access \in Tokens \cup {Login!NoToken} /\ tokens.refresh \in Login!Sessions \cup {Login!None}
        BY <1>1 DEF SessionTyped
      <3> QED BY <3>1, <3>2, <3>3, <3>4, <3>5
    <2>3. login' \in Rests /\ login'.at = "idle"
      BY <1>6, IdleTyped DEF Lasts
    <2>4. SessionTyped'
      BY <1>1, <2>2, <2>3 DEF SessionTyped
    <2>5. Approved' /\ Leaving'
      BY <1>1, <2>2, <2>3 DEF SInv, Approved, Leaving, SessionTyped, Login!None, LoginAssumption
    <2>6. Held'
      BY <1>1, <1>3, <1>4, <1>6, <2>2, <2>3 DEF Held
    <2> QED BY <1>1, <2>3, <2>4, <2>5, <2>6, LockedStep DEF SInv
  <1> QED BY <1>5, <1>6 DEF Login!LinkTokens, Moved

LEMMA SSaves ==
  ASSUME LoginAssumption, AInv, Login!SaveLink \/ Login!SaveClear
  PROVE  AInv'
  <1>1. /\ SessionTyped /\ SInv /\ UNCHANGED <<tokens, user, server, orphan>>
        /\ alone' \in {Login!Locked, Login!Nobody} /\ login' \in {Login!Idle("ok"), Login!Idle("failed")}
        /\ current' = {Login!Locked} \/ current' = current
    BY DEF AInv, SInv, Login!SaveLink, Login!SaveClear, Login!Acts, Login!Fails, Login!Saves, Login!SaveRefused
  <1>2. login' \in Rests /\ login'.at = "idle"
    BY <1>1, IdleTyped DEF Lasts
  <1>3. login.at # "link"
    BY DEF Login!SaveLink, Login!SaveClear
  <1>4. sessionFile' \in [linked : BOOLEAN, expiry : 0 .. MaxPeriods]
    <2>1. server.period \in 0 .. MaxPeriods
      BY <1>1, Phases
    <2>2. \/ UNCHANGED sessionFile
          \/ sessionFile' = [linked |-> TRUE, expiry |-> server.period]
          \/ sessionFile' = [linked |-> FALSE, expiry |-> 0]
      BY DEF Login!SaveLink, Login!SaveClear
    <2>3. 0 \in 0 .. MaxPeriods
      BY DEF LoginAssumption
    <2>4. sessionFile' = [linked |-> TRUE, expiry |-> server.period] =>
            sessionFile' \in [linked : BOOLEAN, expiry : 0 .. MaxPeriods]
      BY <2>1
    <2>5. sessionFile' = [linked |-> FALSE, expiry |-> 0] => sessionFile' \in [linked : BOOLEAN, expiry : 0 .. MaxPeriods]
      BY <2>3
    <2>6. UNCHANGED sessionFile => sessionFile' \in [linked : BOOLEAN, expiry : 0 .. MaxPeriods]
      BY <1>1 DEF SessionTyped
    <2> QED BY <2>2, <2>4, <2>5, <2>6
  <1>5. SessionTyped'
    BY <1>1, <1>2, <1>4 DEF SessionTyped
  <1>6. Approved' /\ Leaving' /\ Held'
    BY <1>1, <1>2, <1>3 DEF SInv, Approved, Leaving, Held, Granted
  <1> QED BY <1>1, <1>2, <1>5, <1>6, LockedStep DEF SInv

LEMMA SClearTokens ==
  ASSUME LoginAssumption, AInv, Login!ClearTokens
  PROVE  AInv'
  <1>1. /\ SessionTyped /\ SInv /\ login.at = "clear" /\ UNCHANGED <<sessionFile, current, user, server, orphan>>
        /\ login' = Moved(login, "saveClear")
        /\ alone' \in {Login!Locked, Login!Nobody} /\ (alone' = Login!Locked => alone = Login!Locked)
    BY DEF AInv, SInv, Login!ClearTokens, Login!Acts, Login!Fails, Login!Locked, Login!Nobody, Moved
  <1>2. login \in Works /\ ~Login!JobFree
    BY <1>1, Phases DEF Login!JobFree
  <1>3. login' \in Works /\ login'.at = "saveClear" /\ login'.cmd = login.cmd
    BY <1>1, <1>2, MovedIs DEF Ats
  <1>4. \/ tokens' = Login!TokensDeleted
        \/ /\ tokens' \in [access : {Login!NoToken, tokens.access}, refresh : {Login!None, tokens.refresh}]
           /\ alone' = Login!Nobody
    BY DEF Login!ClearTokens, Login!Fails
  <1>5. /\ tokens' \in [access : Tokens \cup {Login!NoToken}, refresh : Login!Sessions \cup {Login!None}]
        /\ tokens'.refresh \in {Login!None, tokens.refresh}
    <2>1. tokens.access \in Tokens \cup {Login!NoToken} /\ tokens.refresh \in Login!Sessions \cup {Login!None}
      BY <1>1 DEF SessionTyped
    <2> QED BY <1>4, <2>1 DEF Login!TokensDeleted
  <1>6. SessionTyped'
    BY <1>1, <1>3, <1>5 DEF SessionTyped
  <1>7. Approved' /\ Leaving'
    BY <1>1, <1>3, <1>5 DEF SInv, Approved, Leaving, SessionTyped, Login!None, LoginAssumption
  <1>8. Held'
    BY <1>1, <1>3, <1>5 DEF SInv, Held, Granted, Leaving
  <1>9. alone' = Login!Locked /\ login'.cmd = "logout" => LogsOut'
    <2>1. alone' = Login!Locked /\ login'.cmd = "logout" => Login!Locked \in current
      BY <1>1, <1>2, <1>3 DEF AInv, LogsOut
    <2>2. alone' = Login!Locked => tokens' = Login!TokensDeleted
      BY <1>4 DEF Login!Locked, Login!Nobody
    <2>3. Login!TokensDeleted' = Login!TokensDeleted
      BY DEF Login!TokensDeleted
    <2> QED BY <1>1, <1>3, <2>1, <2>2, <2>3 DEF LogsOut
  <1> QED BY <1>1, <1>6, <1>7, <1>8, <1>9, LockedStep DEF SInv

LEMMA SEnvironment ==
  ASSUME LoginAssumption, AInv, Login!KillJob \/ Login!Expire \/ \E s \in Login!Sessions : Login!End(s)
  PROVE  AInv'
  <1>1. SessionTyped /\ SInv /\ UNCHANGED <<sessionFile, tokens, current, user>> /\ alone' = Login!Nobody
    BY DEF AInv, SInv, Login!KillJob, Login!Expire, Login!End, Login!Fails
  <1>2. SInv'
    <2>1. CASE Login!KillJob
      <3>1. login' \in Rests /\ login'.at = "idle"
        BY <2>1, IdleTyped DEF Login!KillJob, Lasts
      <3>2. UNCHANGED server /\ orphan \cup Granted \subseteq orphan'
        BY <2>1 DEF Login!KillJob, Granted
      <3>3. SessionTyped'
        BY <1>1, <3>1, <3>2 DEF SessionTyped
      <3>4. Approved' /\ Leaving' /\ Held'
        BY <1>1, <3>1, <3>2 DEF SInv, Approved, Leaving, Held, Granted
      <3> QED BY <3>3, <3>4 DEF SInv
    <2>2. CASE Login!Expire
      <3> DEFINE next == server.period + 1
      <3>1. server' = [server EXCEPT !.period = next] /\ next \in 1 .. MaxPeriods /\ UNCHANGED <<login, orphan>>
        BY <1>1, <2>2 DEF Login!Expire, SessionTyped, LoginAssumption
      <3> HIDE DEF next
      <3>2. /\ server' \in [approved : 0 .. MaxSessions, live : SUBSET Login!Sessions, period : 1 .. MaxPeriods]
            /\ server'.approved = server.approved /\ server'.live = server.live
        BY <1>1, <3>1 DEF SessionTyped
      <3>3. SessionTyped'
        BY <1>1, <3>1, <3>2 DEF SessionTyped
      <3>4. Approved' /\ Leaving' /\ Held'
        BY <1>1, <3>1, <3>2 DEF SInv, Approved, Leaving, Held, Granted
      <3> QED BY <3>3, <3>4 DEF SInv
    <2>3. ASSUME NEW s \in Login!Sessions, Login!End(s)
          PROVE  SInv'
      <3>1. server' = Login!Ends(s) /\ UNCHANGED <<login, orphan>>
        BY <2>3 DEF Login!End, Login!Ends
      <3>2. /\ server' \in [approved : 0 .. MaxSessions, live : SUBSET Login!Sessions, period : 1 .. MaxPeriods]
            /\ server'.approved = server.approved /\ server'.live \subseteq server.live
        BY <1>1, <3>1, EndsIs
      <3>3. SessionTyped'
        BY <1>1, <3>1, <3>2 DEF SessionTyped
      <3>4. Approved' /\ Leaving' /\ Held'
        BY <1>1, <3>1, <3>2 DEF SInv, Approved, Leaving, Held, Granted
      <3> QED BY <3>3, <3>4 DEF SInv
    <2> QED BY <2>1, <2>2, <2>3
  <1>3. alone' = Login!Locked => FALSE
    BY <1>1 DEF Login!Locked, Login!Nobody
  <1> QED BY <1>1, <1>2, <1>3, LockedStep

LEMMA ANext ==
  ASSUME LoginAssumption, AInv, [Login!Next]_Login!vars
  PROVE  AInv'
  <1>1. CASE UNCHANGED Login!vars
    <2>1. SInv'
      BY <1>1 DEF Login!vars, AInv, SInv, SessionTyped, Approved, Leaving, Held, Granted
    <2>2. \A u \in Users : Undisturbed(u) => Undisturbed(u)'
      BY <1>1 DEF Login!vars, Undisturbed, Login!Token, Login!Valid, Login!Retries
    <2>3. LogsOut => LogsOut'
      BY <1>1 DEF Login!vars, LogsOut, Login!TokensDeleted
    <2> QED BY <1>1, <2>1, <2>2, <2>3 DEF Login!vars, AInv, Login!JobFree
  <1> QED BY <1>1, AloneUser, SBegin, SLoginRefreshes, SLoginStores, SRemoteLogout, SDeviceCode, SLinkTokens,
             SSaves, SClearTokens, SEnvironment DEF Login!Next

LEMMA AInit ==
  ASSUME LoginAssumption, Login!Init
  PROVE  AInv
  <1>1. PICK linked \in BOOLEAN :
         /\ sessionFile = [linked |-> linked, expiry |-> IF linked THEN 1 ELSE 0]
         /\ tokens = [access |-> IF linked THEN <<1, 1>> ELSE Login!NoToken,
                        refresh |-> IF linked THEN 1 ELSE Login!None]
         /\ server = [approved |-> IF linked THEN 1 ELSE 0, live |-> IF linked THEN {1} ELSE {}, period |-> 1]
    BY DEF Login!Init
  <1>2. 1 \in Login!Sessions /\ 1 \in 1 .. MaxPeriods /\ 1 \in 0 .. MaxSessions /\ 1 \in 0 .. MaxPeriods
        /\ 0 \in 0 .. MaxSessions /\ 0 \in 0 .. MaxPeriods
    BY DEF Login!Sessions, LoginAssumption
  <1>3. Login!Idle("none") \in Rests /\ Login!Idle("none").at = "idle"
    BY IdleTyped DEF Lasts
  <1>4. /\ sessionFile \in [linked : BOOLEAN, expiry : 0 .. MaxPeriods]
        /\ server \in [approved : 0 .. MaxSessions, live : SUBSET Login!Sessions, period : 1 .. MaxPeriods]
    BY <1>1, <1>2
  <1>5. tokens \in [access : Tokens \cup {Login!NoToken}, refresh : Login!Sessions \cup {Login!None}]
    <2>1. <<1, 1>> \in Tokens
      BY <1>2 DEF Tokens
    <2> QED BY <1>1, <1>2, <2>1
  <1>6. /\ current = {} /\ login = Login!Idle("none") /\ orphan = {} /\ alone = Login!Nobody
        /\ user = [u \in Users |-> Login!Idle("none")]
    BY DEF Login!Init
  <1>7. SessionTyped
    BY <1>3, <1>4, <1>5, <1>6 DEF SessionTyped, Requests
  <1>8. Approved /\ Leaving /\ Held
    BY <1>1, <1>3, <1>6 DEF Approved, Leaving, Held, Granted, Login!None, LoginAssumption
  <1>9. \A u \in Users : alone # u
    BY <1>6 DEF Login!Nobody, LoginAssumption
  <1> QED BY <1>6, <1>7, <1>8, <1>9 DEF AInv, SInv, Login!Nobody, Login!Locked

-----------------------------------------------------------------------------
(* What is promised of sessions.                                           *)

LEMMA AloneInvariance ==
    ASSUME LoginAssumption
  PROVE  Login!Spec => []AInv
  <1>1. Login!Init => AInv
    BY AInit
  <1>2. AInv /\ [Login!Next]_Login!vars => AInv'
    BY ANext
  <1> QED BY <1>1, <1>2, PTL DEF Login!Spec

\* Between commands no session is live without its refresh token on the device,
\* unless a failure lost it (login --force, logout).
THEOREM SessionsAlwaysHeld ==
    ASSUME LoginAssumption
  PROVE  Login!Spec => []Login!SessionsHeld
  <1>1. Login!Spec => []AInv
    BY AloneInvariance
  <1>2. AInv => Login!SessionsHeld
    <2> SUFFICES ASSUME AInv
                 PROVE  Login!SessionsHeld
      OBVIOUS
    <2>1. Login!TypeOK
      BY DEF AInv, SInv, SessionTyped, Approved, Login!TypeOK, Tokens
    <2>2. Login!JobFree => server.live \subseteq {tokens.refresh} \cup orphan
      BY DEF AInv, SInv, Held, Granted, Login!JobFree
    <2> QED BY <2>1, <2>2 DEF Login!SessionsHeld
  <1> QED BY <1>1, <1>2, PTL

LEMMA LockedWorks ==
  ASSUME LoginAssumption, AInv, [Login!Next]_Login!vars
  PROVE  /\ \A u \in Users : Succeeds(u)
         /\ ~Login!JobFree /\ login'.at = "idle" /\ login.cmd = "logout" /\ alone' = Login!Locked
              => login'.last = "ok" /\ ~sessionFile'.linked /\ tokens' = [access |-> Login!NoToken, refresh |-> Login!None]
  <1>1. CASE \E u \in Users : Login!UserStep(u) \/ Login!SaveEvent(u)
    <2>1. PICK u \in Users : Login!UserStep(u) \/ Login!SaveEvent(u)
      BY <1>1
    <2>2. OwnStep(u)
      BY <2>1, LoadIs, EnsureIs, AskRefreshIs, StoreRefreshIs, AnswerIs, SaveEventIs DEF AInv, SInv,
             Login!UserStep
    <2>3. \A v \in Users : v # u => Succeeds(v)
      BY <2>2 DEF Succeeds, OwnStep, Login!Nobody, LoginAssumption
    <2>4. alone' # Login!Locked
      BY <2>2 DEF OwnStep, Login!Nobody, Login!Locked, LoginAssumption
    <2> QED BY <2>1, <2>3, <2>4, OwnSucceeds
  <1>2. CASE ~\E u \in Users : Login!UserStep(u) \/ Login!SaveEvent(u)
    <2>1. UNCHANGED user
      BY <1>2 DEF Login!Next, Login!vars, Login!Begin, Login!LoginRefreshes, Login!LoginStores,
                  Login!RemoteLogout, Login!DeviceCode, Login!LinkTokens,
                  Login!SaveLink, Login!ClearTokens, Login!SaveClear, Login!KillJob, Login!Expire, Login!End
    <2>2. \A u \in Users : Succeeds(u)
      BY <2>1 DEF Succeeds
    <2>3. ASSUME ~Login!JobFree, login'.at = "idle", login.cmd = "logout", alone' = Login!Locked
          PROVE  login'.last = "ok" /\ ~sessionFile'.linked /\ tokens' = [access |-> Login!NoToken, refresh |-> Login!None]
      <3>1. Login!Locked # Login!Nobody /\ login \in Works
        BY <2>3, Phases DEF Login!Locked, Login!Nobody, AInv, SInv
      <3>2. CASE Login!SaveClear
        <4>1. alone = Login!Locked /\ login' = Login!Idle("ok") /\ sessionFile' = [linked |-> FALSE, expiry |-> 0] /\ UNCHANGED tokens
              /\ login.at = "saveClear"
          BY <2>3, <3>1, <3>2 DEF Login!SaveClear, Login!Acts, Login!Fails, Login!Nobody
        <4>2. tokens = Login!TokensDeleted
          BY <2>3, <4>1 DEF AInv, LogsOut
        <4> QED BY <4>1, <4>2 DEF Login!Idle, Login!TokensDeleted
      <3>3. CASE Login!RemoteLogout \/ Login!ClearTokens
        <4>1. login' = Moved(login, "code") \/ login' = Moved(login, "clear") \/ login' = Moved(login, "saveClear")
          BY <2>3, <3>1, <3>3 DEF Login!RemoteLogout, Login!ClearTokens, Moved, Login!Fails
        <4>2. login'.at # "idle"
          BY <3>1, <4>1, MovedIs DEF Ats
        <4> QED BY <2>3, <4>2
      <3>4. CASE Login!LoginRefreshes \/ Login!LoginStores \/ Login!DeviceCode \/ Login!LinkTokens \/ Login!SaveLink
        <4>1. alone = Login!Locked
          BY <2>3, <3>1, <3>4 DEF Login!LoginRefreshes, Login!LoginStores, Login!DeviceCode,
                                  Login!LinkTokens, Login!SaveLink, Login!Acts, Login!Fails
        <4>2. login.at \in {"remote", "clear", "saveClear"}
          BY <2>3, <4>1 DEF AInv, LogsOut
        <4> QED BY <3>4, <4>2 DEF Login!LoginRefreshes, Login!LoginStores, Login!DeviceCode,
                                  Login!LinkTokens, Login!SaveLink
      <3>5. CASE Login!KillJob \/ Login!Expire \/ \E s \in Login!Sessions : Login!End(s)
        BY <2>3, <3>1, <3>5 DEF Login!KillJob, Login!Expire, Login!End, Login!Fails
      <3>6. CASE (\E cmd \in {"login", "force", "logout"} : Login!Begin(cmd)) \/ UNCHANGED Login!vars
        BY <2>3, <3>6 DEF Login!Begin, Login!JobFree, Login!vars
      <3> QED BY <1>2, <3>2, <3>3, <3>4, <3>5, <3>6 DEF Login!Next
    <2> QED BY <2>2, <2>3
  <1> QED BY <1>1, <1>2

\* A request whose session is live, or a logout, that no other process and no
\* failure disturbs does what it is for, whatever state others left behind
\* (ensureControlPlaneAccess, refreshBearerAfterUnauthorized, ClearControlPlane).
THEOREM AloneItAlwaysWorks ==
    ASSUME LoginAssumption
  PROVE  Login!Spec => Login!AloneItWorks
  <1>1. Login!Spec => []AInv
    BY AloneInvariance
  <1>2. AInv /\ [Login!Next]_Login!vars =>
          /\ \A u \in Users : user[u].at # "idle" /\ user'[u].at = "idle" /\ alone' = u /\ user[u].held
                                => user'[u].last = "ok"
          /\ ~Login!JobFree /\ login'.at = "idle" /\ login.cmd = "logout" /\ alone' = Login!Locked
               => login'.last = "ok" /\ ~sessionFile'.linked /\ tokens' = [access |-> Login!NoToken, refresh |-> Login!None]
    BY LockedWorks DEF Succeeds
  <1> QED BY <1>1, <1>2, PTL DEF Login!Spec, Login!AloneItWorks, Login!AloneItSucceeds, Login!AloneLogoutCleans

-----------------------------------------------------------------------------
(* The deletions at the control plane that an import of its records may    *)
(* meet (RemoteDelete): any number of records, whatever fails.             *)

CONSTANTS Count, DeletionFaults

VARIABLES records, device, dryRun, deletion

Deletion == INSTANCE RemoteDelete WITH
              remote <- records, local <- device, token <- dryRun, job <- deletion, Faults <- DeletionFaults

\* What RemoteDelete assumes of its constants.
DeletionAssumption ==
    /\ Count \in Nat
    /\ DeletionFaults \subseteq {"refuse", "request", "answer", "listing", "kill"}

DeletionBusy == [at : {"preflight", "delete", "target", "check", "earlier"}, bulk : BOOLEAN,
         plan : SUBSET Deletion!Records, deleted : SUBSET Deletion!Records, failures : SUBSET Deletion!Records]
Reports == [at : {"idle"}, report : {"none", "refused", "deleted", "unknown", "undone", "rollback failed", "restored"},
            failures : SUBSET Deletion!Records]

DeletionTyped ==
    /\ records \in [Deletion!Records -> {"active", "mine", "theirs"}]
    /\ device \in [has : SUBSET Deletion!Records, opens : SUBSET Deletion!Records]
    /\ dryRun \in [plan : SUBSET Deletion!Records, expired : BOOLEAN]
    /\ deletion \in DeletionBusy \/ deletion \in Reports

\* Records of the plan this device deleted, in whatever command.
Taken == {r \in deletion.plan : records[r] = "mine"}

\* While a command runs its plan is what the token names, and of a bulk delete
\* none is of a secret the device has.
Shown == ~Deletion!Free => /\ deletion.plan \subseteq dryRun.plan
                           /\ deletion.bulk => deletion.plan \cap device.has = {}

\* What is deleted, in each phase.
Accounted ==
    /\ ~Deletion!Free => deletion.deleted \subseteq deletion.plan /\ deletion.failures \subseteq deletion.plan
    /\ deletion.at \in {"preflight", "delete", "target", "check"} =>
          deletion.deleted # deletion.plan /\ deletion.failures = {}
    /\ deletion.at = "preflight" => Taken = {}
    /\ deletion.at \in {"preflight", "delete", "check"} => Taken \subseteq deletion.deleted
    /\ deletion.at = "target" => Taken \subseteq deletion.deleted \cup {Deletion!Target}
    /\ deletion.at = "earlier" => Taken \subseteq deletion.deleted \cup deletion.failures

DInv == DeletionTyped /\ Shown /\ Accounted

-----------------------------------------------------------------------------
LEMMA NatLeast ==
  ASSUME NEW T \in SUBSET Nat, T # {}
  PROVE  \E x \in T : \A y \in T : x <= y
  <1>1. PICK x \in T : \A y \in T : ~(<<y, x>> \in OpToRel(<, Nat))
    BY NatLessThanWellFounded, WFMin
  <1>2. \A y \in T : ~(y < x)
    BY <1>1 DEF OpToRel
  <1> QED BY <1>2

LEMMA MinIs ==
  ASSUME DeletionAssumption, NEW S \in SUBSET Deletion!Records, S # {}
  PROVE  Deletion!Min(S) \in S
  <1>1. S \in SUBSET Nat
    BY DEF Deletion!Records, DeletionAssumption
  <1>2. PICK x \in S : \A y \in S : x <= y
    BY <1>1, NatLeast
  <1> QED BY <1>2 DEF Deletion!Min

LEMMA MaxIs ==
  ASSUME DeletionAssumption, NEW S \in SUBSET Deletion!Records, S # {}
  PROVE  Deletion!Max(S) \in S
  <1> DEFINE T == {Count - y : y \in S}
  <1>0. Count \in Nat /\ \A y \in S : y \in Nat /\ y <= Count
    BY DEF Deletion!Records, DeletionAssumption
  <1>1. T \in SUBSET Nat /\ T # {}
    BY <1>0
  <1> HIDE DEF T
  <1>2. PICK m \in T : \A y \in T : m <= y
    BY <1>1, NatLeast
  <1>3. PICK x \in S : m = Count - x
    BY <1>2 DEF T
  <1>4. \A y \in S : x >= y
    <2> TAKE y \in S
    <2>1. Count - y \in T
      BY DEF T
    <2> QED BY <2>1, <1>0, <1>2, <1>3
  <1> QED BY <1>4 DEF Deletion!Max

LEMMA TargetIs ==
  ASSUME DeletionAssumption, DeletionTyped, Accounted, deletion.at \in {"delete", "target", "check"}
  PROVE  Deletion!Target \in deletion.plan \ deletion.deleted /\ Deletion!Target \in Deletion!Records /\ deletion \in DeletionBusy
  <1>1. deletion \in DeletionBusy
    BY DEF DeletionTyped, Reports
  <1>2. deletion.plan \ deletion.deleted \in SUBSET Deletion!Records /\ deletion.plan \ deletion.deleted # {}
    BY <1>1 DEF Accounted, DeletionBusy, Deletion!Free
  <1> QED BY <1>1, <1>2, MinIs DEF Deletion!Target

-----------------------------------------------------------------------------
LEMMA IdleIs ==
  ASSUME Deletion!Free', DeletionTyped, NEW report \in {"none", "refused", "deleted", "unknown", "undone", "rollback failed", "restored"},
         NEW failures \in SUBSET Deletion!Records, deletion' = Deletion!Reported(report, failures)
  PROVE  deletion' \in Reports /\ Shown' /\ Accounted'
  BY DEF Deletion!Reported, Reports, Shown, Accounted, Deletion!Free

\* A step that leaves the command alone and gives this device no deletions.
LEMMA OthersStep ==
  ASSUME DInv, UNCHANGED <<device, deletion>>, dryRun'.plan = dryRun.plan \/ Deletion!Free,
         records' \in [Deletion!Records -> {"active", "mine", "theirs"}],
         dryRun' \in [plan : SUBSET Deletion!Records, expired : BOOLEAN],
         \A r \in Deletion!Records : records'[r] = "mine" => records[r] = "mine"
  PROVE  DInv'
  <1>1. DeletionTyped'
    BY DEF DInv, DeletionTyped
  <1>2. Shown'
    BY DEF DInv, Shown, Deletion!Free
  <1>3. Deletion!Free' = Deletion!Free /\ Deletion!Target' = Deletion!Target
    BY DEF Deletion!Free, Deletion!Target
  <1>4. deletion.at # "idle" => deletion \in DeletionBusy
    BY DEF DInv, DeletionTyped, Reports
  <1>5. deletion.at # "idle" => Taken' \subseteq Taken
    BY <1>4 DEF Taken, DeletionBusy
  <1>6. Accounted'
    <2>1. CASE deletion.at = "idle"
      BY <2>1 DEF Accounted, Deletion!Free
    <2>2. CASE deletion.at # "idle"
      <3>1. Accounted
        BY DEF DInv
      <3> QED BY <3>1, <1>3, <1>5, <2>2 DEF Accounted
    <2> QED BY <2>1, <2>2
  <1> QED BY <1>1, <1>2, <1>6 DEF DInv

LEMMA DDryRun ==
  ASSUME DInv, NEW plan \in Deletion!Plans, Deletion!DryRun(plan)
  PROVE  DInv'
  <1>1. plan \in SUBSET Deletion!Records
    BY DEF Deletion!Plans, Deletion!Candidates, Deletion!ActiveRecords
  <1>2. records' = records /\ device' = device /\ deletion' = deletion /\ Deletion!Free /\ dryRun' = [plan |-> plan, expired |-> FALSE]
    BY DEF Deletion!DryRun
  <1>3. DeletionTyped
    BY DEF DInv
  <1> QED BY <1>1, <1>2, <1>3, OthersStep DEF DeletionTyped

LEMMA DBeginDelete ==
  ASSUME DInv, NEW plan \in Deletion!Plans, NEW bulk \in BOOLEAN, Deletion!BeginDelete(plan, bulk)
  PROVE  DInv'
  <1>1. plan \in SUBSET Deletion!Records /\ plan \subseteq Deletion!ActiveRecords
    BY DEF Deletion!Plans, Deletion!Candidates, Deletion!ActiveRecords
  <1>2. /\ records' = records /\ device' = device /\ dryRun' = dryRun /\ plan # {} /\ dryRun.plan = plan
        /\ deletion' = [at |-> IF bulk THEN "preflight" ELSE "delete", bulk |-> bulk, plan |-> plan,
                   deleted |-> {}, failures |-> {}]
    BY DEF Deletion!BeginDelete, Deletion!Confirms
  <1>3. bulk => plan \cap device.has = {}
    BY DEF Deletion!BeginDelete, Deletion!Candidates
  <1>4. deletion' \in DeletionBusy /\ deletion'.at \in {"preflight", "delete"}
    BY <1>1, <1>2 DEF DeletionBusy
  <1>5. DeletionTyped'
    BY <1>2, <1>4 DEF DInv, DeletionTyped
  <1>6. Shown'
    BY <1>2, <1>3 DEF Shown
  <1>7. Taken' = {}
    BY <1>1, <1>2 DEF Taken, Deletion!ActiveRecords
  <1>8. Accounted'
    BY <1>2, <1>4, <1>7 DEF Accounted
  <1> QED BY <1>5, <1>6, <1>8 DEF DInv

\* The command goes on, with the plan it had.
LEMMA GoesOn ==
  ASSUME DInv, UNCHANGED <<device, dryRun>>, deletion \in DeletionBusy, deletion' \in DeletionBusy,
         records' \in [Deletion!Records -> {"active", "mine", "theirs"}],
         deletion'.plan = deletion.plan, deletion'.bulk = deletion.bulk, Accounted'
  PROVE  DInv'
  <1>1. DeletionTyped'
    BY DEF DInv, DeletionTyped
  <1>2. Shown'
    BY DEF DInv, Shown, Deletion!Free, DeletionBusy
  <1> QED BY <1>1, <1>2 DEF DInv

\* The command ends.
LEMMA Stops ==
  ASSUME DInv, UNCHANGED <<device, dryRun>>, records' \in [Deletion!Records -> {"active", "mine", "theirs"}],
         NEW report \in {"none", "refused", "deleted", "unknown", "undone", "rollback failed", "restored"},
         NEW failures \in SUBSET Deletion!Records, deletion' = Deletion!Reported(report, failures)
  PROVE  DInv'
  <1>1. Deletion!Free'
    BY DEF Deletion!Reported, Deletion!Free
  <1>2. DeletionTyped
    BY DEF DInv
  <1>3. deletion' \in Reports /\ Shown' /\ Accounted'
    BY <1>1, <1>2, IdleIs
  <1> QED BY <1>2, <1>3 DEF DInv, DeletionTyped

\* Nothing to name.
LEMMA StopsClean ==
  ASSUME DInv, UNCHANGED <<device, dryRun>>, records' \in [Deletion!Records -> {"active", "mine", "theirs"}],
         NEW report \in {"none", "refused", "deleted", "unknown", "restored"}, deletion' = Deletion!Reported(report, {})
  PROVE  DInv'
  <1>1. {} \in SUBSET Deletion!Records
    OBVIOUS
  <1>2. PICK failures \in SUBSET Deletion!Records : failures = {}
    BY <1>1
  <1> QED BY <1>2, Stops

LEMMA DPreflight ==
  ASSUME DInv, Deletion!Preflight
  PROVE  DInv'
  <1>1. deletion \in DeletionBusy /\ records' = records /\ device' = device /\ dryRun' = dryRun /\ deletion.at = "preflight"
    BY DEF DInv, DeletionTyped, Reports, Deletion!Preflight
  <1>2. records' \in [Deletion!Records -> {"active", "mine", "theirs"}]
    BY <1>1 DEF DInv, DeletionTyped
  <1>3. CASE deletion' = [deletion EXCEPT !.at = "delete"]
    <2>1. /\ deletion' \in DeletionBusy /\ deletion'.at = "delete" /\ deletion'.plan = deletion.plan /\ deletion'.bulk = deletion.bulk
          /\ deletion'.deleted = deletion.deleted /\ deletion'.failures = deletion.failures
      BY <1>1, <1>3 DEF DeletionBusy
    <2>2. Taken' = Taken
      BY <1>1, <2>1 DEF Taken
    <2>3. Accounted'
      BY <1>1, <2>1, <2>2 DEF DInv, Accounted, Deletion!Free
    <2> QED BY <1>1, <1>2, <2>1, <2>3, GoesOn
  <1>4. CASE deletion' = Deletion!Reported("refused", {})
    BY <1>1, <1>2, <1>4, StopsClean
  <1> QED BY <1>3, <1>4 DEF Deletion!Preflight

LEMMA AppliedIs ==
  ASSUME DeletionTyped, NEW r \in Deletion!Records, NEW outcome \in {"ok", "error"}, Deletion!Applied(r, outcome)
  PROVE  /\ records' \in [Deletion!Records -> {"active", "mine", "theirs"}]
         /\ \A q \in Deletion!Records \ {r} : records'[q] = records[q]
         /\ records[r] # "active" => records' = records
  BY DEF DeletionTyped, Deletion!Applied

LEMMA DDelete ==
  ASSUME DeletionAssumption, DInv, Deletion!Delete
  PROVE  DInv'
  <1>1. PICK outcome \in {"ok", "error"} :
           /\ Deletion!Applied(Deletion!Target, outcome)
           /\ deletion' = IF outcome = "ok"
                     THEN IF deletion.plan = deletion.deleted \cup {Deletion!Target} THEN Deletion!Reported("deleted", {})
                          ELSE Deletion!WithDeleted(Deletion!Target)
                     ELSE IF deletion.bulk THEN Deletion!ToRollback(Deletion!Target) ELSE Deletion!Reported("unknown", {})
    BY DEF Deletion!Delete
  <1>2. deletion.at = "delete" /\ device' = device /\ dryRun' = dryRun
    BY DEF Deletion!Delete
  <1>3. Deletion!Target \in deletion.plan \ deletion.deleted /\ Deletion!Target \in Deletion!Records /\ deletion \in DeletionBusy
    BY <1>2, TargetIs DEF DInv
  <1>4. /\ records' \in [Deletion!Records -> {"active", "mine", "theirs"}]
        /\ \A q \in Deletion!Records \ {Deletion!Target} : records'[q] = records[q]
    BY <1>1, <1>3, AppliedIs DEF DInv
  <1>5. Taken \subseteq deletion.deleted /\ deletion.deleted \subseteq deletion.plan /\ deletion.failures = {}
    BY <1>2 DEF DInv, Accounted, Deletion!Free
  <1>6. deletion.plan \subseteq Deletion!Records
    BY <1>3 DEF DeletionBusy
  <1>7. \A r \in deletion.plan : records'[r] = "mine" => r \in deletion.deleted \cup {Deletion!Target}
    BY <1>4, <1>5, <1>6 DEF Taken
  <1>8. CASE outcome = "ok" /\ deletion.plan # deletion.deleted \cup {Deletion!Target}
    <2>1. deletion' = Deletion!WithDeleted(Deletion!Target)
      BY <1>1, <1>8
    <2>2. /\ deletion' \in DeletionBusy /\ deletion'.at = "delete" /\ deletion'.plan = deletion.plan /\ deletion'.bulk = deletion.bulk
          /\ deletion'.deleted = deletion.deleted \cup {Deletion!Target} /\ deletion'.failures = {}
      BY <2>1, <1>2, <1>3, <1>5 DEF Deletion!WithDeleted, DeletionBusy
    <2>3. Taken' \subseteq deletion'.deleted
      BY <1>7, <2>2 DEF Taken
    <2>4. Accounted'
      BY <2>2, <2>3, <1>3, <1>5, <1>8 DEF Accounted
    <2> QED BY <1>2, <1>3, <1>4, <2>2, <2>4, GoesOn
  <1>9. CASE outcome = "error" /\ deletion.bulk
    <2>1. deletion' = Deletion!ToRollback(Deletion!Target)
      BY <1>1, <1>9
    <2>2. /\ deletion' \in DeletionBusy /\ deletion'.at = "target" /\ deletion'.plan = deletion.plan /\ deletion'.bulk = deletion.bulk
          /\ deletion'.deleted = deletion.deleted /\ deletion'.failures = {}
      BY <2>1, <1>2, <1>3, <1>5 DEF Deletion!ToRollback, DeletionBusy
    <2>3. Deletion!Target' = Deletion!Target
      BY <2>2 DEF Deletion!Target
    <2>4. Taken' \subseteq deletion'.deleted \cup {Deletion!Target'}
      BY <1>7, <2>2, <2>3 DEF Taken
    <2>5. Accounted'
      BY <2>2, <2>4, <1>3, <1>5 DEF Accounted
    <2> QED BY <1>2, <1>3, <1>4, <2>2, <2>5, GoesOn
  <1>10. CASE deletion' = Deletion!Reported("deleted", {}) \/ deletion' = Deletion!Reported("unknown", {})
    BY <1>2, <1>4, <1>10, StopsClean
  <1> QED BY <1>1, <1>8, <1>9, <1>10

LEMMA RestoresIs ==
  ASSUME DeletionTyped, NEW r \in Deletion!Records, NEW outcome \in {"ok", "409", "error"}, Deletion!Restores(r, outcome)
  PROVE  /\ records' \in [Deletion!Records -> {"active", "mine", "theirs"}]
         /\ \A q \in Deletion!Records : records'[q] = "mine" => records[q] = "mine"
         /\ outcome # "error" => records'[r] # "mine"
  BY DEF DeletionTyped, Deletion!Restores

LEMMA DRestoreTarget ==
  ASSUME DeletionAssumption, DInv, Deletion!RestoreTarget
  PROVE  DInv'
  <1>1. PICK outcome \in {"ok", "409", "error"} :
           /\ Deletion!Restores(Deletion!Target, outcome)
           /\ deletion' = [deletion EXCEPT !.at = IF outcome = "409" THEN "check" ELSE "earlier",
                                 !.failures = IF outcome = "error" THEN {Deletion!Target} ELSE {}]
    BY DEF Deletion!RestoreTarget
  <1>2. deletion.at = "target" /\ device' = device /\ dryRun' = dryRun
    BY DEF Deletion!RestoreTarget
  <1>3. Deletion!Target \in deletion.plan \ deletion.deleted /\ Deletion!Target \in Deletion!Records /\ deletion \in DeletionBusy
    BY <1>2, TargetIs DEF DInv
  <1>4. /\ records' \in [Deletion!Records -> {"active", "mine", "theirs"}]
        /\ \A q \in Deletion!Records : records'[q] = "mine" => records[q] = "mine"
        /\ outcome # "error" => records'[Deletion!Target] # "mine"
    BY <1>1, <1>3, RestoresIs DEF DInv
  <1>5. Taken \subseteq deletion.deleted \cup {Deletion!Target} /\ deletion.deleted \subseteq deletion.plan
    BY <1>2 DEF DInv, Accounted, Deletion!Free
  <1>6. /\ deletion' \in DeletionBusy /\ deletion'.at = (IF outcome = "409" THEN "check" ELSE "earlier")
        /\ deletion'.plan = deletion.plan /\ deletion'.bulk = deletion.bulk /\ deletion'.deleted = deletion.deleted
        /\ deletion'.failures = IF outcome = "error" THEN {Deletion!Target} ELSE {}
    BY <1>1, <1>3 DEF DeletionBusy
  <1>7. \A r \in Taken' : r \in deletion.deleted \/ (outcome = "error" /\ r = Deletion!Target)
    BY <1>3, <1>4, <1>5, <1>6 DEF Taken, DeletionBusy
  <1>8. Accounted'
    BY <1>3, <1>5, <1>6, <1>7 DEF Accounted
  <1> QED BY <1>2, <1>3, <1>4, <1>6, <1>8, GoesOn

LEMMA DCheckTarget ==
  ASSUME DeletionAssumption, DInv, Deletion!CheckTarget
  PROVE  DInv'
  <1>1. /\ deletion' = [deletion EXCEPT !.at = "earlier",
                              !.failures = IF Deletion!Answers("workspace", "token") /\ records[Deletion!Target] = "active"
                                           THEN {} ELSE {Deletion!Target}]
        /\ deletion.at = "check" /\ records' = records /\ device' = device /\ dryRun' = dryRun
    BY DEF Deletion!CheckTarget
  <1>2. Deletion!Target \in deletion.plan \ deletion.deleted /\ deletion \in DeletionBusy
    BY <1>1, TargetIs DEF DInv
  <1>3. records' \in [Deletion!Records -> {"active", "mine", "theirs"}]
    BY <1>1 DEF DInv, DeletionTyped
  <1>4. /\ deletion' \in DeletionBusy /\ deletion'.at = "earlier" /\ deletion'.plan = deletion.plan /\ deletion'.bulk = deletion.bulk
        /\ deletion'.deleted = deletion.deleted /\ deletion'.failures \subseteq {Deletion!Target}
    BY <1>1, <1>2 DEF DeletionBusy
  <1>5. Taken' = Taken
    BY <1>1, <1>4 DEF Taken
  <1>6. Taken \subseteq deletion.deleted /\ deletion.deleted \subseteq deletion.plan
    BY <1>1 DEF DInv, Accounted, Deletion!Free
  <1>7. Accounted'
    BY <1>2, <1>4, <1>5, <1>6 DEF Accounted
  <1> QED BY <1>1, <1>2, <1>3, <1>4, <1>7, GoesOn

LEMMA DRestoreEarlier ==
  ASSUME DeletionAssumption, DInv, Deletion!RestoreEarlier
  PROVE  DInv'
  <1>1. PICK r : r = Deletion!Max(deletion.deleted)
    OBVIOUS
  <1>2. PICK outcome \in {"ok", "409", "error"} :
           Deletion!Restores(r, outcome) /\ deletion' = [deletion EXCEPT !.deleted = @ \ {r}, !.failures = Deletion!WithFailure(r, outcome)]
    BY <1>1 DEF Deletion!RestoreEarlier
  <1>3. deletion.at = "earlier" /\ deletion.deleted # {} /\ device' = device /\ dryRun' = dryRun
    BY DEF Deletion!RestoreEarlier
  <1>4. deletion \in DeletionBusy /\ deletion.deleted \subseteq deletion.plan /\ deletion.failures \subseteq deletion.plan
        /\ Taken \subseteq deletion.deleted \cup deletion.failures
    BY <1>3 DEF DInv, DeletionTyped, Reports, Accounted, Deletion!Free
  <1>5. deletion.deleted \in SUBSET Deletion!Records
    BY <1>4 DEF DeletionBusy
  <1>6. r \in deletion.deleted /\ r \in Deletion!Records
    BY <1>1, <1>3, <1>5, MaxIs
  <1>7. /\ records' \in [Deletion!Records -> {"active", "mine", "theirs"}]
        /\ \A q \in Deletion!Records : records'[q] = "mine" => records[q] = "mine"
        /\ outcome # "error" => records'[r] # "mine"
    BY <1>2, <1>6, RestoresIs DEF DInv
  <1>8. Deletion!WithFailure(r, outcome) \in SUBSET Deletion!Records
    BY <1>4, <1>6 DEF Deletion!WithFailure, DeletionBusy
  <1>9. /\ deletion' \in DeletionBusy /\ deletion'.at = "earlier" /\ deletion'.plan = deletion.plan /\ deletion'.bulk = deletion.bulk
        /\ deletion'.deleted = deletion.deleted \ {r} /\ deletion'.failures = Deletion!WithFailure(r, outcome)
    BY <1>2, <1>3, <1>4, <1>8 DEF DeletionBusy
  <1>10. Taken' \subseteq deletion'.deleted \cup deletion'.failures
    BY <1>4, <1>7, <1>9 DEF Taken, Deletion!WithFailure, DeletionBusy
  <1>11. deletion'.failures \subseteq deletion'.plan
    BY <1>4, <1>6, <1>9 DEF Deletion!WithFailure
  <1>12. Accounted'
    BY <1>4, <1>9, <1>10, <1>11 DEF Accounted
  <1> QED BY <1>3, <1>4, <1>7, <1>9, <1>12, GoesOn

LEMMA DEndRollback ==
  ASSUME DInv, Deletion!EndRollback
  PROVE  DInv'
  <1>1. PICK report \in {"undone", "rollback failed"} : deletion' = Deletion!Reported(report, deletion.failures)
    BY DEF Deletion!EndRollback
  <1>2. deletion \in DeletionBusy /\ records' = records /\ device' = device /\ dryRun' = dryRun
    BY DEF Deletion!EndRollback, DInv, DeletionTyped, Reports
  <1>3. deletion.failures \in SUBSET Deletion!Records
    BY <1>2 DEF DeletionBusy
  <1>4. records' \in [Deletion!Records -> {"active", "mine", "theirs"}]
    BY <1>2 DEF DInv, DeletionTyped
  <1> QED BY <1>1, <1>2, <1>3, <1>4, Stops

LEMMA DCommandEnds ==
  ASSUME DInv, Deletion!Kill \/ \E r \in Deletion!Records : Deletion!RestoreCommand(r)
  PROVE  DInv'
  <1>1. CASE Deletion!Kill
    <2>1. deletion' = Deletion!Reported("none", {}) /\ records' = records /\ device' = device /\ dryRun' = dryRun
      BY <1>1 DEF Deletion!Kill
    <2>2. records' \in [Deletion!Records -> {"active", "mine", "theirs"}]
      BY <2>1 DEF DInv, DeletionTyped
    <2> QED BY <2>1, <2>2, StopsClean
  <1>2. CASE \E r \in Deletion!Records : Deletion!RestoreCommand(r)
    <2>1. PICK r \in Deletion!Records : Deletion!RestoreCommand(r)
      BY <1>2
    <2>2. PICK outcome \in {"ok", "error"} :
             Deletion!Restores(r, outcome) /\ deletion' = Deletion!Reported(IF outcome = "ok" THEN "restored" ELSE "unknown", {})
      BY <2>1 DEF Deletion!RestoreCommand
    <2>3. records' \in [Deletion!Records -> {"active", "mine", "theirs"}]
      BY <2>2, RestoresIs DEF DInv
    <2>4. device' = device /\ dryRun' = dryRun
      BY <2>1 DEF Deletion!RestoreCommand
    <2>5. PICK report \in {"restored", "unknown"} : deletion' = Deletion!Reported(report, {})
      BY <2>2
    <2> QED BY <2>3, <2>4, <2>5, StopsClean
  <1> QED BY <1>1, <1>2

LEMMA DMeanwhile ==
  ASSUME DInv, Deletion!TokenExpires \/ \E r \in Deletion!Records : Deletion!OtherDeletes(r) \/ Deletion!OtherRestores(r)
  PROVE  DInv'
  <1>1. UNCHANGED <<device, deletion>> /\ dryRun'.plan = dryRun.plan
    BY DEF DInv, DeletionTyped, Deletion!TokenExpires, Deletion!OtherDeletes, Deletion!OtherRestores
  <1>2. /\ records' \in [Deletion!Records -> {"active", "mine", "theirs"}]
        /\ \A r \in Deletion!Records : records'[r] = "mine" => records[r] = "mine"
    BY DEF DInv, DeletionTyped, Deletion!TokenExpires, Deletion!OtherDeletes, Deletion!OtherRestores
  <1>3. dryRun' \in [plan : SUBSET Deletion!Records, expired : BOOLEAN]
    BY DEF DInv, DeletionTyped, Deletion!TokenExpires, Deletion!OtherDeletes, Deletion!OtherRestores
  <1> QED BY <1>1, <1>2, <1>3, OthersStep

LEMMA DLocalChanges ==
  ASSUME DInv, NEW r \in Deletion!Records, Deletion!LocalChanges(r)
  PROVE  DInv'
  <1>1. Deletion!Free /\ records' = records /\ dryRun' = dryRun /\ deletion' = deletion
    BY DEF Deletion!LocalChanges
  <1>2. device' \in [has : SUBSET Deletion!Records, opens : SUBSET Deletion!Records]
    BY DEF Deletion!LocalChanges, DInv, DeletionTyped
  <1>3. Deletion!Free'
    BY <1>1 DEF Deletion!Free
  <1>4. Accounted'
    BY <1>3 DEF Accounted, Deletion!Free
  <1> QED BY <1>1, <1>2, <1>3, <1>4 DEF DInv, DeletionTyped, Shown

LEMMA DInit ==
  ASSUME Deletion!Init
  PROVE  DInv
  <1>1. Deletion!Free /\ deletion \in Reports
    BY DEF Deletion!Init, Deletion!Free, Deletion!Reported, Reports
  <1>2. Accounted
    BY <1>1 DEF Accounted, Deletion!Free
  <1>3. /\ records \in [Deletion!Records -> {"active", "mine", "theirs"}]
        /\ device \in [has : SUBSET Deletion!Records, opens : SUBSET Deletion!Records]
        /\ dryRun \in [plan : SUBSET Deletion!Records, expired : BOOLEAN]
    BY DEF Deletion!Init, Deletion!NoToken
  <1> QED BY <1>1, <1>2, <1>3 DEF DInv, DeletionTyped, Shown

LEMMA DNext ==
  ASSUME DeletionAssumption, DInv, [Deletion!Next]_Deletion!vars
  PROVE  DInv'
  <1>1. CASE \E plan \in Deletion!Plans : Deletion!DryRun(plan)
    BY <1>1, DDryRun
  <1>2. CASE \E plan \in Deletion!Plans, bulk \in BOOLEAN : Deletion!BeginDelete(plan, bulk)
    BY <1>2, DBeginDelete
  <1>3. CASE Deletion!Preflight \/ Deletion!Delete \/ Deletion!RestoreTarget \/ Deletion!CheckTarget \/ Deletion!RestoreEarlier \/ Deletion!EndRollback
    BY <1>3, DPreflight, DDelete, DRestoreTarget, DCheckTarget, DRestoreEarlier, DEndRollback
  <1>4. CASE Deletion!Kill \/ \E r \in Deletion!Records : Deletion!RestoreCommand(r)
    BY <1>4, DCommandEnds
  <1>5. CASE Deletion!TokenExpires \/ \E r \in Deletion!Records : Deletion!OtherDeletes(r) \/ Deletion!OtherRestores(r)
    BY <1>5, DMeanwhile
  <1>6. CASE \E r \in Deletion!Records : Deletion!LocalChanges(r)
    BY <1>6, DLocalChanges
  <1>7. CASE UNCHANGED Deletion!vars
    BY <1>7, OthersStep DEF Deletion!vars, DInv, DeletionTyped
  <1> QED BY <1>1, <1>2, <1>3, <1>4, <1>5, <1>6, <1>7 DEF Deletion!Next

LEMMA DTypes ==
  ASSUME DInv
  PROVE  Deletion!TypeOK
  BY DEF DInv, DeletionTyped, Accounted, Deletion!TypeOK, Deletion!Free

-----------------------------------------------------------------------------
\* Only the end of a rollback reports one.
LEMMA ReportIs ==
  ASSUME NEW report, NEW failures
  PROVE  Deletion!Reported(report, failures).report = report /\ Deletion!Reported(report, failures).failures = failures
  BY DEF Deletion!Reported

LEMMA RollbackEnds ==
  ASSUME DInv, [Deletion!Next]_Deletion!vars, ~Deletion!Free, Deletion!Free', deletion'.report \in {"undone", "rollback failed"}
  PROVE  Deletion!EndRollback
  <1>1. deletion \in DeletionBusy /\ deletion.at # "idle" /\ deletion' # deletion
    BY DEF DInv, DeletionTyped, Reports, Deletion!Free
  <1>2. deletion'.at = "idle"
    BY DEF Deletion!Free
  <1>3. ~(Deletion!Kill \/ Deletion!Preflight)
    <2>1. Deletion!Preflight => deletion'.at = "delete" \/ deletion' = Deletion!Reported("refused", {})
      BY <1>1 DEF Deletion!Preflight, DeletionBusy
    <2>2. deletion' # Deletion!Reported("refused", {}) /\ deletion' # Deletion!Reported("none", {})
      <3>1. Deletion!Reported("refused", {}).report = "refused"
        BY ReportIs
      <3>2. Deletion!Reported("none", {}).report = "none"
        BY ReportIs
      <3> QED BY <3>1, <3>2
    <2> QED BY <1>2, <2>1, <2>2 DEF Deletion!Kill
  <1>4. ~Deletion!Delete
    <2> SUFFICES ASSUME Deletion!Delete PROVE FALSE
      OBVIOUS
    <2>1. PICK r : \/ deletion' = Deletion!Reported("deleted", {}) \/ deletion' = Deletion!Reported("unknown", {})
                   \/ deletion' = Deletion!WithDeleted(r) \/ deletion' = Deletion!ToRollback(r)
      BY DEF Deletion!Delete
    <2>2. deletion' = Deletion!WithDeleted(r) \/ deletion' = Deletion!ToRollback(r)
      <3>1. Deletion!Reported("deleted", {}).report = "deleted"
        BY ReportIs
      <3>2. Deletion!Reported("unknown", {}).report = "unknown"
        BY ReportIs
      <3> QED BY <2>1, <3>1, <3>2
    <2>3. deletion'.at = deletion.at \/ deletion'.at = "target"
      BY <1>1, <2>2 DEF Deletion!WithDeleted, Deletion!ToRollback, DeletionBusy
    <2> QED BY <1>1, <1>2, <2>3
  <1>5. ~(Deletion!RestoreTarget \/ Deletion!CheckTarget \/ Deletion!RestoreEarlier)
    <2> SUFFICES ASSUME Deletion!RestoreTarget \/ Deletion!CheckTarget \/ Deletion!RestoreEarlier PROVE FALSE
      OBVIOUS
    <2>1. Deletion!RestoreTarget => deletion'.at \in {"check", "earlier"}
      BY <1>1 DEF Deletion!RestoreTarget, DeletionBusy
    <2>2. Deletion!CheckTarget => deletion'.at = "earlier"
      BY <1>1 DEF Deletion!CheckTarget, DeletionBusy
    <2>3. Deletion!RestoreEarlier => deletion'.at = deletion.at
      BY <1>1 DEF Deletion!RestoreEarlier, DeletionBusy
    <2> QED BY <1>1, <1>2, <2>1, <2>2, <2>3
  <1>6. ~(\E plan \in Deletion!Plans : Deletion!DryRun(plan)) /\ ~Deletion!TokenExpires /\ deletion # deletion'
    BY <1>1 DEF Deletion!DryRun, Deletion!TokenExpires
  <1>7. ~(\E plan \in Deletion!Plans, bulk \in BOOLEAN : Deletion!BeginDelete(plan, bulk))
    BY DEF Deletion!BeginDelete
  <1>8. \A r \in Deletion!Records : ~(Deletion!RestoreCommand(r) \/ Deletion!OtherDeletes(r) \/ Deletion!OtherRestores(r) \/ Deletion!LocalChanges(r))
    BY <1>1 DEF Deletion!RestoreCommand, Deletion!OtherDeletes, Deletion!OtherRestores, Deletion!LocalChanges
  <1>9. ~UNCHANGED Deletion!vars
    BY <1>1 DEF Deletion!vars
  <1> QED BY <1>3, <1>4, <1>5, <1>6, <1>7, <1>8, <1>9 DEF Deletion!Next

LEMMA RollbackIsTrue ==
  ASSUME DInv, Deletion!EndRollback
  PROVE  /\ {r \in deletion.plan : records'[r] = "mine"} \subseteq deletion'.failures
         /\ deletion'.report = "undone" => deletion'.failures = {}
  <1>1. Taken \subseteq deletion.failures /\ records' = records /\ deletion'.failures = deletion.failures
    BY DEF DInv, Accounted, Deletion!EndRollback, Deletion!Reported
  <1>2. deletion'.report = "undone" => deletion.failures = {}
    BY DEF Deletion!EndRollback, Deletion!Reported
  <1> QED BY <1>1, <1>2 DEF Taken

LEMMA OnlyShownTaken ==
  ASSUME DeletionAssumption, DInv, [Deletion!Next]_Deletion!vars, NEW r \in Deletion!Records, records[r] = "active", records'[r] = "mine"
  PROVE  r \in dryRun.plan /\ (deletion.bulk => r \notin device.has)
  <1>1. Deletion!Delete
    BY DEF DInv, DeletionTyped, Deletion!Next, Deletion!vars, Deletion!DryRun, Deletion!BeginDelete,
           Deletion!Preflight, Deletion!Restores, Deletion!RestoreTarget,
           Deletion!CheckTarget, Deletion!RestoreEarlier, Deletion!EndRollback, Deletion!RestoreCommand,
           Deletion!OtherDeletes, Deletion!OtherRestores, Deletion!LocalChanges,
           Deletion!TokenExpires, Deletion!Kill
  <1>2. deletion.at = "delete"
    BY <1>1 DEF Deletion!Delete
  <1>3. Deletion!Target \in deletion.plan
    BY <1>2, TargetIs DEF DInv
  <1>4. r = Deletion!Target
    <2>1. Deletion!Target \in Deletion!Records
      BY <1>2, TargetIs DEF DInv
    <2> QED BY <1>1, <2>1, AppliedIs DEF Deletion!Delete, DInv
  <1> QED BY <1>2, <1>3, <1>4 DEF DInv, Shown, Deletion!Free

\* What a command deletes is what the dry run named, and what it has deleted is
\* accounted for in every phase, the record whose answer was lost included
\* (secret_remote.go).
THEOREM DeleteInvariance ==
  ASSUME DeletionAssumption
  PROVE  Deletion!Spec => []DInv
  <1>1. Deletion!Init => DInv
    BY DInit
  <1>2. DInv /\ [Deletion!Next]_Deletion!vars => DInv'
    BY DNext
  <1> QED BY <1>1, <1>2, PTL DEF Deletion!Spec

\* RollbackReportsTruly: deletions that are reported undone are, and every
\* record still deleted after a rollback that failed is named, whichever calls
\* fail (rollbackRemoteSecretDeletes).
THEOREM RollbacksAreReported ==
  ASSUME DeletionAssumption
  PROVE  Deletion!Spec => Deletion!RollbackReportsTruly
  <1>1. DInv => Deletion!TypeOK
    BY DTypes
  <1>2. DInv /\ [Deletion!Next]_Deletion!vars =>
           [~Deletion!Free /\ Deletion!Free' /\ deletion'.report = "undone" => \A r \in deletion.plan : records'[r] # "mine"]_Deletion!vars
    BY RollbackEnds, RollbackIsTrue
  <1>3. DInv /\ [Deletion!Next]_Deletion!vars =>
           [~Deletion!Free /\ Deletion!Free' /\ deletion'.report = "rollback failed" =>
              {r \in deletion.plan : records'[r] = "mine"} \subseteq deletion'.failures]_Deletion!vars
    BY RollbackEnds, RollbackIsTrue
  <1> QED BY <1>1, <1>2, <1>3, DeleteInvariance, PTL DEF Deletion!Spec, Deletion!RollbackReportsTruly,
                                                         Deletion!UndoneIsUndone, Deletion!FailuresAreNamed

\* OnlyWhatWasShown: every record a command takes away was named by the dry run
\* whose token confirmed it, and in bulk the device does not have its secret.
THEOREM DeletesWereShown ==
  ASSUME DeletionAssumption
  PROVE  Deletion!Spec => Deletion!OnlyWhatWasShown
  <1>1. DInv /\ [Deletion!Next]_Deletion!vars =>
           [\A r \in Deletion!Records : records[r] = "active" /\ records'[r] = "mine" =>
               r \in dryRun.plan /\ (deletion.bulk => r \notin device.has)]_Deletion!vars
    BY OnlyShownTaken
  <1> QED BY <1>1, DeleteInvariance, PTL DEF Deletion!Spec, Deletion!OnlyWhatWasShown
=============================================================================
