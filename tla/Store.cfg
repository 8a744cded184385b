SPECIFICATION Spec
CONSTANTS
    a1 = a1
    s1 = s1
    f1 = f1
    Calls = {a1, s1, f1}
    Sync = {s1}
    Forced = {f1}
    MemLimit = 1
    L0Trigger = 1
    L0Slowdown = 1
    L0Stop = 2
    Faults = {"newlog", "append", "sync", "table", "manifest", "lastlog"}
    MaxFaults = 1
    MaxCrashes = 2
    MaxUpsets = 2
INVARIANTS TypeOK NothingOwedIsLost NothingNeededIsMissing SequencesDistinct NoLostWakeup FrontWriterOnly
CHECK_DEADLOCK FALSE
