\* Two devices create one version apart; nothing fails.
SPECIFICATION Spec
CONSTANTS
    d1 = d1
    d2 = d2
    s1 = s1
    Devices = {d1, d2}
    First = d1
    Slots = {s1}
    MaxKeys = 1
    Batch = 1
    Commands = {"setup", "push", "restore"}
    Environment = {"diverge"}
    Faults = {}
INVARIANT CoveredCanBeDecrypted
