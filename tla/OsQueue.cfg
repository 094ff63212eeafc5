SPECIFICATION Spec
CONSTANTS
    Threads = {t1, t2, t3}
    Values = {0, 1}
    Size = 2
    NoThread = NoThread
SYMMETRY Symmetry
INVARIANTS
    NoLostWakeup
PROPERTIES
    ImplementsFifo
