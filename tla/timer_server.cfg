\* Two clients; a slot is a second, so that a silent one is due after three.
SPECIFICATION ServerSpec
CONSTANTS
    Timers = {t1, t2}
    NULL = NULL
    Delays = {3}
    MaxTime = 3
    Clients = {c1, c2}
    NoClient = NoClient
    MaxBytes = 1
    TIMESLOT = 1
    BUF_SIZE = 1
INVARIANTS TimersMatch OneAlarm
PROPERTIES SilentOnly SignalsServed
CHECK_DEADLOCK FALSE
