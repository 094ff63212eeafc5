SPECIFICATION Spec
CONSTANTS
    MaxGnd = 3
    MaxObc = 1
    QueueLen = 2
    Persistent = TRUE
    MaxCount = 10
PROPERTIES
    BootClears
CHECK_DEADLOCK FALSE
