\* Two devices and one secret: add, rm, sync and push, with deletions and
\* restored records on the control plane, a permission to write that changes, and
\* commands that stop anywhere.  A sync that stops half way is a pull.
SPECIFICATION Spec
CONSTANTS
  Devices = {d1, d2}
  Names = {n1}
  Values = {x, y}
  MaxVersion = 2
  MaxDeletions = 1
  Commands = {"sync", "push"}
  Environment = {"readonly", "stop", "restore"}
SYMMETRY Symmetry
PROPERTIES
  ValuesKept
  Aligned
  RecreatedKnowingly
  DeletionsHold
