SPECIFICATION Spec
CONSTANTS
    Keys = {1, 2, 3}
    NumLevels = 3
    MaxMemCompactLevel = 1
    L0Trigger = 4
    Ranges <- AllKeys
    Deletable = {}
    KeysSplit = FALSE
    MaxWrites = 5
    MaxSnapshots = 0
INVARIANTS LevelsDisjoint
