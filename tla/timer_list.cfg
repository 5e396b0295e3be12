\* Three timers, set one or two seconds ahead.
SPECIFICATION FairSpec
CONSTANTS
    Timers = {t1, t2, t3}
    NULL = NULL
    Delays = {1, 2}
    MaxTime = 2
INVARIANTS EndListIsRight
PROPERTIES TickIsThorough CallsReturn
CHECK_DEADLOCK FALSE
