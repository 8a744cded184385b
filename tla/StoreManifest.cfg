SPECIFICATION Spec
CONSTANTS
    a1 = a1
    s1 = s1
    f1 = f1
    Calls = {a1, a2, a3, f1, f2}
    Sync = {}
    Forced = {f1, f2}
    MemLimit = 2
    L0Trigger = 1
    L0Slowdown = 2
    L0Stop = 2
    Faults = {"manifest"}
    MaxFaults = 1
    MaxCrashes = 1
    MaxUpsets = 2
INVARIANTS NewestFirst
CONSTRAINT OneClient
SYMMETRY Alike
CHECK_DEADLOCK FALSE
