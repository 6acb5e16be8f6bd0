SPECIFICATION CalmSpec
CONSTANTS
    None = None
    t1 = t1
    t2 = t2
    v1 = v1
    Device = {d1}
    Handler = {h1, h2}
    Locks = {l1}
    Unlocked = unlocked
    BoardLock = l1
    SettingsForms <- NoForms
    Tunings = {t1}
    InitTuning = t1
    VersionId = {}
    Releases = {}
    Sounds = {}
    CategorySets = {c1}
    InitCategories = c1
    Statuses = {"active", "idle"}
    Builds = {b1}
    MaxAnnouncing = 1
    MaxTries = 2
    MaxFailures = 1
PROPERTIES
    StatusArrives
