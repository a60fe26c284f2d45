SPECIFICATION FairSpec
CONSTANTS
    Requests = {1}
    Bye = 9
    Closers = {closer}
    End = end
    Leavers = {d1, d2}
    MaxConns = 2
    MaxInterrupts = 2
    MAX_ABANDONED_REQUESTS = 2
CHECK_DEADLOCK FALSE
INVARIANTS PendingSettled EndedOnce
PROPERTIES EverythingEnds
