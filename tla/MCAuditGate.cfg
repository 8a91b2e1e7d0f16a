\* One command of any kind, two envelopes' batches, while other commands change
\* the vault under it, the network and the file system fail and it may be killed.
SPECIFICATION Spec
CONSTANTS
  p1 = p1
  s1 = s1
  s2 = s2
  Proc <- OneProcess
  Secret <- Secrets
  Workspace <- TwoWorkspaces
  Commands <- AllCommands
  MaxCommands = 1
  MaxChanges = 2
  Faults <- AllFaults
SYMMETRY Symmetry
INVARIANTS
  StrictIsRecorded
  LedgersAgree
  BlockedReleasesNothing
  ChildIsCurrent
PROPERTIES
  ImplementsReleaseGate
\* The command ends.
CHECK_DEADLOCK FALSE
