\* User code that waits for the tasks it has created before it ends.
CONSTANTS
    NumWorkers = 2
    MaxTasks = 3
    QueueCapacity = 1
    Targets = {1}
    Structured = TRUE
    Word = 16
SPECIFICATION FairSpec
INVARIANTS ShutdownIsQuiet CheckDoneAssertsHold
PROPERTIES EveryTaskEnds EveryWaitEnds
