\* The deque as the SConstruct builds it, two readers.
SPECIFICATION Spec
CONSTANTS
    Owner = o
    Thieves = {p1, p2}
    MaxTasks = 3
    Capacity = 2
    Word = 16
    HostArch = FALSE
    Garbage = garbage
INVARIANTS OneReaderWins
CHECK_DEADLOCK FALSE
