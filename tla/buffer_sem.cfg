\* Three producers and two consumers on a buffer of three slots.
SPECIFICATION FairSpec
CONSTANTS
    Producers = {p1, p2, p3}
    Consumers = {c1, c2}
    MAX = 3
    Items = {1, 2}
    NoOne = NoOne
INVARIANTS SemaphoresCount
PROPERTIES StackSpec EveryoneServed
