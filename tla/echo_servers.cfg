\* Three clients; select and poll have a table of two slots.
SPECIFICATION EchoFairSpec
CONSTANTS
    Clients = {c1, c2, c3}
    NoClient = NoClient
    MaxBytes = 1
    Kinds = {"select", "poll", "LT", "ET"}
    CLIENT_COUNT = 2
    READ = 1
    WORD = 2
    FIRST = 1
    NoFD = NoFD
INVARIANTS NeverBlocks TableIsRight
PROPERTIES AllAccepted WatchedAreRead
CHECK_DEADLOCK FALSE
