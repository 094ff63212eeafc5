SPECIFICATION Spec
CONSTANTS
    Tasks = {t1, t2}
    NoTask = NoTask
    Values = {0, 1}
    DefaultOf <- Zero
    LastAddress = 2
    LastVar = 2
    Copies = 3
    Survives = {TRUE, FALSE}
    MaxDamage = 1
SYMMETRY Symmetry
INVARIANTS
    ReadsMasked
