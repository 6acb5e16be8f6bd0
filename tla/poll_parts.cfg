SPECIFICATION PartsSpec
CONSTANTS
    None = None
    t1 = t1
    t2 = t2
    v1 = v1
    Device = {d1}
    Handler = {h1}
    Locks = {l1}
    Unlocked = unlocked
    BoardLock = l1
    SettingsForms <- ChangeForms
    Tunings = {t1, t2}
    InitTuning = t1
    VersionId = {v1}
    Releases = {r1}
    Sounds = {s1}
    CategorySets = {c1}
    InitCategories = c1
    Statuses = {}
    Builds = {b1}
    MaxAnnouncing = 1
    MaxTries = 1
    MaxFailures = 0
INVARIANTS
    NoMissedWakeup
    IntervalsAgree
