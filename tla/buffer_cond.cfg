\* Three producers and two consumers on a buffer of two slots.
SPECIFICATION FairSpec
CONSTANTS
    Producers = {p1, p2, p3}
    Consumers = {c1, c2}
    MAX = 2
    Items = {1, 2}
    NoOne = NoOne
INVARIANTS IndexIsCount WakeupsSuffice
PROPERTIES StackSpec ItemsFlow
