SPECIFICATION Spec
CONSTANTS
    Keys = {1}
    NumLevels = 4
    MaxMemCompactLevel = 2
    L0Trigger = 2
    Ranges = {}
    Deletable = {}
    KeysSplit = TRUE
    MaxWrites = 3
    MaxSnapshots = 1
INVARIANTS ReadsAgree
