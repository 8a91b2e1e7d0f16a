\* Two requests race at a --once broker, which may end in any way.
SPECIFICATION Spec
CONSTANTS
  r1 = r1
  r2 = r2
  Request <- Requests
  Once = TRUE
  MaxChanges = 0
  Ends = {"idle", "signal", "expiry", "runtime"}
  Faults = {}
SYMMETRY Symmetry
INVARIANTS
  OnceReleasesOne
  LedgersAgree
  MutexSuffices
PROPERTIES
  NothingAfterStop
  ImplementsReleaseGate
\* The process ends.
CHECK_DEADLOCK FALSE
