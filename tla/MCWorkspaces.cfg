\* Two devices make, name, push, pull and restore workspaces of two secrets
\* under two names, next to the hosted domain workspace and from files older than
\* identities; answers are lost and commands killed at every step.
SPECIFICATION Spec
CONSTANTS
  Devices = {d1, d2}
  Names = {n1, n2}
  Keys = {k1, k2}
  MaxOrgs = 2
  MaxIds = 2
  Commands = {"create", "alias", "add", "push", "pull", "restore"}
  Environment = {"domain", "legacy"}
  Faults = {"lost", "kill"}
SYMMETRY Symmetry
INVARIANTS
  BindingAgrees
  IdentitiesDistinct
  SecretsSealed
\* A vault rests once its names are taken: a refused command is no step.
CHECK_DEADLOCK FALSE
