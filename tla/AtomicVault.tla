---------------------------- MODULE AtomicVault ----------------------------
(***************************************************************************)
(* What the local vault promises: a command takes effect at once and as a  *)
(* whole, or not at all.  No files, locks, keys or processes; VaultStore   *)
(* is shown to implement it.                                               *)
(***************************************************************************)
EXTENDS Naturals

CONSTANTS
  Secret,     \* paths a secret may be stored at
  Workspace,  \* workspaces, each as the set of its paths
  Device,     \* device ids
  None        \* no device

VARIABLE vault

NoVault ==
  [exists |-> FALSE, secrets |-> [s \in Secret |-> {}], trusted |-> {},
   revoked |-> {}, local |-> None, bound |-> {}, events |-> 0]

Usable == vault.local \in vault.trusted

Active(s) == {v \in vault.secrets[s] : v.active}

\* One past the newest version kept.
NextVersions(s) ==
  {n \in {1} \cup {v.n + 1 : v \in vault.secrets[s]} : \A v \in vault.secrets[s] : v.n < n}

\* The versions of s with a newer active one.
Newer(s) ==
  {[v EXCEPT !.active = FALSE] : v \in vault.secrets[s]}
    \cup {[n |-> n, active |-> TRUE, bound |-> s \in vault.bound] : n \in NextVersions(s)}

Init == vault = NoVault

Create == ~vault.exists /\ vault' = [NoVault EXCEPT !.exists = TRUE, !.events = 1]

Enroll(d) ==
  /\ vault.exists
  /\ d \notin vault.trusted \cup vault.revoked
  /\ vault' = [vault EXCEPT !.trusted = @ \cup {d}, !.local = d, !.events = @ + 1]

\* One new secret or version, or a new version of each of several secrets.
Renew(S) ==
  /\ Usable
  /\ vault' = [vault EXCEPT
       !.secrets = [s \in Secret |-> IF s \in S THEN Newer(s) ELSE @[s]],
       !.events = @ + 1]

Put(s) == Renew({s})

Rekey(w) ==
  LET S == {s \in w : Active(s) # {}} IN S # {} /\ Renew(S)

\* All of a workspace is sealed for its remote id.
Seal(w) ==
  /\ Usable
  /\ vault' = [vault EXCEPT
       !.secrets = [s \in Secret |->
          IF s \in w THEN {[v EXCEPT !.bound = TRUE] : v \in @[s]} ELSE @[s]],
       !.bound = @ \cup w, !.events = @ + 1]

Remove(s) ==
  /\ vault.secrets[s] # {}
  /\ vault' = [vault EXCEPT !.secrets[s] = {}, !.events = @ + 1]

\* The last trusted device is kept while it can read something.
Revoke(d) ==
  /\ d \in vault.trusted \cup vault.revoked
  /\ vault.trusted = {d} => \A s \in Secret : Active(s) = {}
  /\ \E k \in {1, 2} :
       vault' = [vault EXCEPT !.trusted = @ \ {d}, !.revoked = @ \cup {d}, !.events = @ + k]

Record == vault.exists /\ vault' = [vault EXCEPT !.events = @ + 1]

Destroy == vault.exists /\ vault' = NoVault

Next ==
  \/ Create
  \/ \E d \in Device : Enroll(d) \/ Revoke(d)
  \/ \E s \in Secret : Put(s) \/ Remove(s)
  \/ \E w \in Workspace : Rekey(w) \/ Seal(w)
  \/ Record
  \/ Destroy

Spec == Init /\ [][Next]_vault
=============================================================================
