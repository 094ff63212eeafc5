SPECIFICATION Spec
CONSTANTS
    Slots = 2
    PerSection = 3
    Times = {1, 2}
    MaxPuts = 6
    Entries = 2
    RowTimes = {1, 2, 3}
    MaxInserts = 3
    MinQueue = 1
    Payloads = 2
    SampleSize <- MCSampleSize
    PageSize = 5
    SectionSize = 5
    Sections = 2
    FrameBytes = 4
    MaxSamples = 2
    Bits = 3
    HalfBits = 2
    StrSize = 3
    MaxFields = 3
INVARIANTS
    RowsOnce
    Counted
    FieldsKept
    SamplesSent
PROPERTIES
    FlashIsTable
    SqlIsTable
