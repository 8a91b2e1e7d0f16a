\* Two processes without the lock make requests and save while logins and logouts
\* run; sessions end, the keystore fails, saves are refused, and logins are killed.
SPECIFICATION Spec
CONSTANTS
  Users = {u1, u2}
  MaxSessions = 2
  MaxPeriods = 2
  Commands = {"login", "force", "logout"}
  Faults = {"kill", "event", "store", "end"}
SYMMETRY Symmetry
INVARIANT SessionsHeld
PROPERTY AloneItWorks
