SPECIFICATION Spec
CONSTANTS
    Keys = {1, 2, 3}
    table = table
    Tables = {table}
    MaxSeq = 4
INVARIANTS TypeOK JustBefore NothingSkipped
PROPERTIES IsCursor
