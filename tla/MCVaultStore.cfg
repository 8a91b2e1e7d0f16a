\* Two processes, two secrets of one workspace; processes are killed, and the
\* keystore and the file system fail, anywhere.
SPECIFICATION Spec
CONSTANTS
  p1 = p1
  p2 = p2
  s1 = s1
  s2 = s2
  NoProc = NoProc
  Proc <- Processes
  Secret <- TwoSecrets
  Workspace <- OneWorkspace
  MaxAccount = 7
  MaxCommands = 4
  Commands <- AllCommands
  Faults <- AllFaults
SYMMETRY Symmetry
INVARIANTS
  TypeOK
  KeysBacked
  NoOrphanKeys
  VersionsSound
  LockedNeverStale
  NobodyWaits
PROPERTIES
  AuditGrows
  ImplementsAtomicVault
\* Once MaxCommands commands have run nothing is left to do; NobodyWaits tells
\* this from a deadlock.
CHECK_DEADLOCK FALSE
