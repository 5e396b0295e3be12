\* Two workers, a queue of two slots and three tasks.
SPECIFICATION FairSpec
CONSTANTS
    Min = 2
    Max = 3
    taskqueue_max_size = 2
    NoOne = NoOne
    MaxTasks = 3
INVARIANTS NoTaskRuns LockIsHeld
PROPERTIES MainReturns
CHECK_DEADLOCK FALSE
