SPECIFICATION Spec
CONSTANTS
    a1 = a1
    s1 = s1
    f1 = f1
    Calls = {a1, s1}
    Sync = {s1}
    Forced = {}
    MemLimit = 1
    L0Trigger = 1
    L0Slowdown = 2
    L0Stop = 2
    Faults = {"earlierlog"}
    MaxFaults = 1
    MaxCrashes = 1
    MaxUpsets = 2
INVARIANTS NothingOwedIsLost
CHECK_DEADLOCK FALSE
