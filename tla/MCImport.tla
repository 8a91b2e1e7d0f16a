------------------------------ MODULE MCImport ------------------------------
(* Instances of Import for the model checker.  Names are interchangeable,  *)
(* and so are the seals of the same value.                                 *)
EXTENDS Import, TLC

CONSTANT x, y, z

SameSeals == {x, y}
Symmetry == Permutations(Names) \cup Permutations(SameSeals)
=============================================================================
