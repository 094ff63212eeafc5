SPECIFICATION FairSpec
CONSTANTS
    Clients = {a, b}
    Cmds = {c1, c2, c3}
    NULL = NULL
    QueueLen = 2
    Kinds = {"ok", "fail", "reset", "settime", "nested"}
    NestLen = 1
    FiniteDelay = TRUE
    LogDebug = TRUE
INVARIANTS
    OwnedOnce
    ResultMatches
    CountersExact
    ExecutionOrder
PROPERTIES
    EventuallyExecuted
CHECK_DEADLOCK FALSE
