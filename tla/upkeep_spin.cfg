SPECIFICATION Spec
CONSTANTS
    None = None
    NoSound = NoSound
    Version = {v1, v2}
    Intact = {v1, v2}
    Startable = {v1, v2}
    InitVersion = v1
    MaxFailures = 1
    Sizes = {}
    MaxSecond = 0
PROPERTY
    FailedNotRetried
