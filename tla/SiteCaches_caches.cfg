CONSTANTS
    Keys = {home}
    Requests = {r1, r2}
    Jobs = {j1, j2}
    None = None
    Driver = "memory"
    Reval = 1
    MaxVersion = 1
    MaxRender = 1
    MaxFailures = 1
    Variants = {small, large}
    Views = {v1, v2}
    CacheDir = TRUE
    MemCacheLimit = 1
    MaxEdits = 1
    Absent = Absent
    Torn = Torn
SPECIFICATION CachesSpec
INVARIANTS SingleFlight MemoryBounded
PROPERTIES BoundedStaleness Converges
