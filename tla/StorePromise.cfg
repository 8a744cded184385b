SPECIFICATION FairSpec
CONSTANTS
    a1 = a1
    s1 = s1
    f1 = f1
    Calls = {a1, s1, f1}
    Sync = {s1}
    Forced = {f1}
    MemLimit = 1
    L0Trigger = 2
    L0Slowdown = 2
    L0Stop = 2
    Faults = {"newlog", "sync", "table", "lastlog"}
    MaxFaults = 1
    MaxCrashes = 1
    MaxUpsets = 2
INVARIANTS NewestFirst
PROPERTIES KeepsPromise CallsReturn CloseEnds
CHECK_DEADLOCK FALSE
