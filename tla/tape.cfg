SPECIFICATION FairSpec
CONSTANTS
    None = None
    k1 = k1
    k2 = k2
    MEMBERS <- One
    Apps = 2
    MaxUsage = 2
    Heartbeat = 1
    MaxGap = 1
    BatchLimit = 2
    Failures = {"scrape", "request", "answer", "crash", "file"}
    MaxFailures = 2
INVARIANTS
    TypeOK
    TapeExact
PROPERTY
    UsageArrives
