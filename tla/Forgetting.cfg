SPECIFICATION LiveSpec
CONSTANTS
    MaxPage = 2
    MaxFact = 2
    MaxNow = 2
    Batch = 1
    Partial = TRUE
INVARIANTS
    TypeOK
    UndoFindsItsRows
PROPERTIES
    PointersOutliveTheirTarget
    BacklogDrains
CHECK_DEADLOCK FALSE
