\* The main program may end without having waited for its tasks.
CONSTANTS
    NumWorkers = 2
    MaxTasks = 2
    QueueCapacity = 1
    Targets = {1}
    Structured = FALSE
    Word = 16
SPECIFICATION Spec
INVARIANTS CheckDoneAssertsHold
