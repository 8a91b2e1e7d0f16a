\* Pulls, forced pulls and syncs of one secret, one after the other; keystore
\* calls, the save and the undo fail, a load fails and passes for an empty
\* account, and the command is killed anywhere.  x and y seal the same value.
SPECIFICATION Spec
CONSTANTS
  x = x
  y = y
  z = z
  Names = {n1}
  Seals = {x, y, z}
  Same = {x, y}
  MaxVersion = 2
  MaxAccounts = 3
  Modes = {"pull", "force", "sync"}
  Faults = {"store", "save", "undo", "kill", "load"}
SYMMETRY Symmetry
INVARIANT OneAccountPerVersion
PROPERTIES
  NothingLostOrLeft
  ImportedOpens
