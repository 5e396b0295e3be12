\* Three readers and two writers.
SPECIFICATION FairSpec
CONSTANTS
    Readers = {r1, r2, r3}
    Writers = {w1, w2}
    MaxData = 2
INVARIANTS ReadersExcludeWriters WriteSemAccounted WakeupKept
PROPERTIES ReadersServed
