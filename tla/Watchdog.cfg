SPECIFICATION FairSpec
CONSTANTS
    MaxGnd = 3
    MaxObc = 1
    QueueLen = 2
    Persistent = TRUE
    MaxCount = 10
INVARIANTS
    TimersKept
PROPERTIES
    NoEarlyReset
    SilenceEnds
CHECK_DEADLOCK FALSE
