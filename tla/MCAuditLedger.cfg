SPECIFICATION Spec
CONSTANTS
  Proc <- TwoProcs
  Start = {"fresh", "legacy", "bare"}
  Environment = {"lose", "return", "edit"}
  Faults = {"store", "delete", "write", "kill"}
  MaxEvents = 2
  MaxSaves = 2
  MaxKeys = 2
INVARIANTS
  LoadedWasSaved
  AppendOnly
  KeyKept
  NoFalseAlarm
