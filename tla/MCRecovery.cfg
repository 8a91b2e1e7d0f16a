\* Two devices set up, replace and restore recovery keys, push, pull and rewrap one
\* version that both may have created; requests are refused or lose their
\* answer, files and saves fail, and commands are killed.
SPECIFICATION Spec
CONSTANTS
  d1 = d1
  d2 = d2
  s1 = s1
  s2 = s2
  Devices = {d1, d2}
  First = d1
  Slots = {s1}
  MaxKeys = 2
  Batch = 1
  Commands = {"setup", "restore", "rewrap", "push", "pull", "status"}
  Environment = {"diverge", "matching"}
  Faults = {"refuse", "lost", "save", "file", "kill"}
INVARIANTS
  RecoveryKeyWorks
  WrappedKeysOpen
PROPERTIES
  RestoreIsComplete
