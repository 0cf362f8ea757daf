SPECIFICATION Spec
CONSTANTS
    BufferMax = 3
    Ids = 65536
    MaxStates = 4
INVARIANT TypeOK
INVARIANT RecordsAreWhole
INVARIANT StatesNest
INVARIANT DumpIsComplete
CHECK_DEADLOCK FALSE
