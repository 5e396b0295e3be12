\* A pool whose limits are equal never grows or shrinks: nothing is lost.
SPECIFICATION FairSpec
CONSTANTS
    p1 = p1
    p2 = p2
    NoOne = NoOne
    Destroyer = Destroyer
    Producers <- TwoProducers
    Garbage <- Zeroed
    Leftover <- Nulls
    MinThr = 2
    MaxThr = 2
    QMax = 2
    MinWait = 2
    Vary = 1
    MaxAdds = 4
    DestroyWhen = "afterAdds"
    CreateMayFail = FALSE
INVARIANTS NoSleepOverTasks PoolFreedLast
PROPERTIES QueueSpec QueuedTaskRuns AddsGoOn
CHECK_DEADLOCK FALSE
