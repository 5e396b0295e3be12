\* Three clients at a table of two slots, with either server.
SPECIFICATION ReactorsSpec
CONSTANTS
    Clients = {c1, c2, c3}
    NoClient = NoClient
    MAX_EVENTS = 2
    BUFLEN = 1
    MaxBytes = 2
    Versions = {"epoll_reactor", "reactor"}
INVARIANTS TableAgreesWithEpoll BatchIsFresh EchoIsOwn ExitsForCause
PROPERTIES BytesReceivedWhileUp LeavingEndsReactor
CHECK_DEADLOCK FALSE
