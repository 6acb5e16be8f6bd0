SPECIFICATION FairSpec
CHECK_DEADLOCK FALSE
CONSTANTS
    None = None
    Device = {d1}
    Handler = {h1, h2}
    BatchSize = 2
    MaxTries = 2
    MaxEvents = 3
    MaxId = 2
    MaxFailures = 3
INVARIANTS
    TypeOK
    NoLoss
    NoDuplicate
    NoGaps
    RowsHaveDevice
PROPERTIES
    EventsArrive
