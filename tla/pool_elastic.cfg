\* A pool that grows from one worker to two and shrinks back, destroyed at
\* any moment, with two producers on a queue of two slots.
SPECIFICATION Spec
CONSTANTS
    p1 = p1
    p2 = p2
    NoOne = NoOne
    Destroyer = Destroyer
    Producers <- TwoProducers
    Garbage <- ZeroOrOne
    Leftover <- NullsOrJunk
    MinThr = 1
    MaxThr = 2
    QMax = 2
    MinWait = 1
    Vary = 2
    MaxAdds = 3
    DestroyWhen = "anytime"
    CreateMayFail = FALSE
SYMMETRY Symmetry
INVARIANTS HoldsLock RingIsRight QueuedArgsKept LiveIsRight
CHECK_DEADLOCK FALSE
