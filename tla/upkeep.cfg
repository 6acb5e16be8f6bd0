SPECIFICATION QuietSpec
CONSTANTS
    None = None
    NoSound = NoSound
    Version = {v1, v2, v3}
    Intact = {v1, v2}
    Startable = {v1, v2}
    InitVersion = v1
    MaxFailures = 2
    Sizes = {1}
    MaxSecond = 2
INVARIANTS
    TypeOK
    InstalledIsVerified
    NeverLeftDown
    SoundNotOlder
PROPERTIES
    UpdateArrives
    SoundArrives
    LockTold
