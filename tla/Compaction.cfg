SPECIFICATION Spec
CONSTANTS
    Keys = {1, 2}
    NumLevels = 3
    MaxMemCompactLevel = 1
    L0Trigger = 2
    Ranges <- LowKey
    Deletable = {1}
    KeysSplit = FALSE
    MaxWrites = 4
    MaxSnapshots = 1
INVARIANTS CTypeOK LevelsDisjoint ReadersAboveSmall ScansAgree ReadsAgree
