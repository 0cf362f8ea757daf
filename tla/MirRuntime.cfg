SPECIFICATION FairSpec
CONSTANTS
    NumWorkers = 3
    Options <- AllOptions
    Structured = TRUE
    MaxRuntimes = 2
    MaxScopes = 2
    MaxTasks = 2
INVARIANT TypeOK
INVARIANT DestroyedIsUnused
INVARIANT WorkersFollowRuntime
PROPERTY DestroyEnds
PROPERTY ExitDestroys
CHECK_DEADLOCK FALSE
