SPECIFICATION Spec
CONSTANTS
    Slots = 2
    MaxTime = 3
    Ids = {d1, d2}
    Requests <- OnceOrPeriodic
    Deletes = {1, 2}
    Operations = {"set", "delete", "reset", "purge"}
SYMMETRY Symmetry
INVARIANTS
    AtMostAsked
    SentOnTime
    Undisturbed
CHECK_DEADLOCK FALSE
