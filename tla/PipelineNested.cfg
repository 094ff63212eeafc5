SPECIFICATION FairSpec
CONSTANTS
    Clients = {a, b}
    Cmds = {c1, c2, c3, c4}
    NULL = NULL
    QueueLen = 2
    Kinds = {"ok", "nested"}
    NestLen = 1
    FiniteDelay = FALSE
    LogDebug = FALSE
PROPERTIES
    SentIsExecuted
CHECK_DEADLOCK FALSE
