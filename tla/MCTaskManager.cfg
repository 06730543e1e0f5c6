SPECIFICATION Spec
CONSTANTS
    key1 = key1
    Keys = {key1}
    NoKey = NoKey
    NTasks = 3
    KeyOf <- MCKeyOf
    MaxAttempts <- MCMaxAttempts
    BatchSize = 2
    MaxRuns = 2
    MaxCrashes = 1
    Postponed = {}
    MaxCancels = 1
INVARIANTS
    TypeOK
    OneRunPerKey
    CancelReaches
    QueueIsWatched
    QueuedIsFound
PROPERTIES
    KeepsJobs
    FinalStays
    DueIsRun
CHECK_DEADLOCK FALSE
