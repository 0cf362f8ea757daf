\* Any user code: tasks and the main program may end without waiting.
CONSTANTS
    NumWorkers = 2
    MaxTasks = 4
    QueueCapacity = 1
    Targets = {1}
    Structured = FALSE
    Word = 16
SPECIFICATION Spec
INVARIANTS TypeOK WaitCoversChildren ReduceAssertHolds SyncPointIsNextWait
           TaskInOnePlace StacksAreSeparate CountersMatch
