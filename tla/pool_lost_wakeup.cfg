\* An elastic pool: a worker that retires swallows the signal of an add.
SPECIFICATION FairSpec
CONSTANTS
    p1 = p1
    p2 = p2
    NoOne = NoOne
    Destroyer = Destroyer
    Producers <- OneProducer
    Garbage <- Zeroed
    Leftover <- Nulls
    MinThr = 1
    MaxThr = 2
    QMax = 2
    MinWait = 2
    Vary = 1
    MaxAdds = 4
    DestroyWhen = "never"
    CreateMayFail = FALSE
PROPERTY QueuedTaskRuns
CHECK_DEADLOCK FALSE
