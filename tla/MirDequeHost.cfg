\* The deque with the locked cas and the fence.
SPECIFICATION FairSpec
CONSTANTS
    Owner = o
    Thieves = {p1, p2}
    MaxTasks = 5
    Capacity = 2
    Word = 16
    HostArch = TRUE
    Garbage = garbage
INVARIANTS TypeOK OneReaderWins HoldsTheRest WinnerIsCurrent AssertsHold
PROPERTIES EveryTaskHanded
CHECK_DEADLOCK FALSE
