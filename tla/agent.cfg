SPECIFICATION FairSpec
CONSTANTS
    None = None
    Agent = {a1}
    Messages = {m1, m2}
    Wants <- AllWants
    MaxFailures = 1
INVARIANTS
    TypeOK
    PauseEndsWithLock
PROPERTIES
    GraceHonoured
    LockEngages
    UnlockReleases
    StatusFollows
    AgentReturns
