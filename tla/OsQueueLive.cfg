SPECIFICATION FairSpec
CONSTANTS
    Threads = {t1, t2, t3}
    Values = {0}
    Size = 1
    NoThread = NoThread
PROPERTIES
    WaiterWoken
