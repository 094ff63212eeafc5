SPECIFICATION Spec
CONSTANTS
    DefaultStep = 1
    Sensors = {0}
    Steps = {2}
    Samples = {1}
    Period = 2
    MaxSets = 2
    MaxActivates = 1
    MaxReboots = 1
    Stages = {16, 17}
    Spare = 5
    MaxHandlers = 3
    Parts = 2
    MaxRounds = 2
    MaxEstimates = 2
    Tables <- MCTables
    Dates = {2020, 2024}
    MaxCalls = 2
    Axes <- MCAxes
    MaxTurns = 3
    Minute = 2
    Hour = 4
    QueueLen = 2
    Exact = 4
    Given = {3, 10}
    MaxElapsed = 8
    MaxOrders = 1
    MaxStarts = 2
INVARIANTS
    SamplesBudget
    OpenForAReason
    DeployedSound
    EstimateWhole
    PacketsReturned
    FieldExact
    RotationsExact
    HoursExact
PROPERTIES
    StartServed
    BurnsAsConfigured
CHECK_DEADLOCK FALSE
