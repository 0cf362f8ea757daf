SPECIFICATION Spec
CONSTANTS
    NumWorkers = 2
    Options <- RecorderOn
    Structured = TRUE
    MaxRuntimes = 1
    MaxScopes = 1
    MaxTasks = 1
INVARIANT RecordersOutliveUse
CHECK_DEADLOCK FALSE
