---------------------------- MODULE ReleaseGate ----------------------------
(***************************************************************************)
(* What the audit gate promises: a value is released only under an event   *)
(* that the local ledger holds, that the policies allowed when it was      *)
(* written, and, where the audit mode is strict, that the control plane    *)
(* has recorded.  No processes, saves, messages or failures.               *)
(***************************************************************************)
CONSTANTS
  Secret,
  Command    \* names of commands

VARIABLES
  policy,    \* the secrets that may be read
  ledger,    \* the "allowed" events kept locally
  told,      \* those the control plane has recorded
  released   \* what was released

vars == <<policy, ledger, told, released>>

\* An event, and the release it allows, are named by the command and the secret.
Entry(x) == [by |-> x.by, secret |-> x.secret]

Init ==
  /\ policy = Secret
  /\ ledger = {}
  /\ told = {}
  /\ released = {}

SetPolicy == policy' \subseteq Secret /\ UNCHANGED <<ledger, told, released>>

\* A command appends events that the policies of this instant allow.
Append(by, S) ==
  /\ S \subseteq policy
  /\ ledger' = ledger \cup {[by |-> by, secret |-> s] : s \in S}
  /\ UNCHANGED <<policy, told, released>>

Tell == told' \in SUBSET ledger /\ told \subseteq told' /\ UNCHANGED <<policy, ledger, released>>

\* A command releases secrets, each under its event.
Release ==
  /\ released \subseteq released'
  /\ \A x \in released' \ released :
       /\ Entry(x) \in ledger
       /\ x.strict => Entry(x) \in told
  /\ UNCHANGED <<policy, ledger, told>>

Next ==
  \/ SetPolicy
  \/ \E by \in Command, S \in SUBSET Secret : Append(by, S)
  \/ Tell
  \/ Release

Spec == Init /\ [][Next]_vars
=============================================================================
