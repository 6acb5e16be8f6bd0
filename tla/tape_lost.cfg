SPECIFICATION Spec
CONSTANTS
    None = None
    k1 = k1
    k2 = k2
    MEMBERS <- Two
    Apps = 2
    MaxUsage = 1
    Heartbeat = 2
    MaxGap = 3
    BatchLimit = 3
    Failures = {"request"}
    MaxFailures = 1
INVARIANT
    SavedIsStored
