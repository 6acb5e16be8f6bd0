SPECIFICATION FairSpec
CONSTANTS
    None = None
    Messages = {m1, m2}
    Warnings = {1, 2}
    Wants <- SomeWants
    MaxQueue = 2
    MaxFailures = 1
INVARIANTS
    TypeOK
PROPERTIES
    GraceHonoured
    ScreenFollows
