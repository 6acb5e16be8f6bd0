SPECIFICATION Spec
CHECK_DEADLOCK FALSE
CONSTANTS
    None = None
    Process = {"a"}
    TicksPerSecond = 2
    MaxGap = 3
    DayTicks = 4
    AxisStart = 1
    Bin = 2
    DayCount = 2
    HistoryLimit = 2
    Heartbeat = 2
    MaxTime = 6
INVARIANTS
    TypeOK
    ReportIsUse
    ViewsAgree
    HistoryShowsLocks
PROPERTY
    PastIsFinal
