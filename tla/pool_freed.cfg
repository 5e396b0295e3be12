\* destroy joins live_thr_num slots from the first: not those of the live threads.
SPECIFICATION Spec
CONSTANTS
    p1 = p1
    p2 = p2
    NoOne = NoOne
    Destroyer = Destroyer
    Producers <- OneProducer
    Garbage <- Zeroed
    Leftover <- Nulls
    MinThr = 1
    MaxThr = 2
    QMax = 2
    MinWait = 1
    Vary = 1
    MaxAdds = 2
    DestroyWhen = "afterAdds"
    CreateMayFail = FALSE
INVARIANT PoolFreedLast
CHECK_DEADLOCK FALSE
