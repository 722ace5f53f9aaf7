CONSTANTS
    Keys = {k1, k2}
    Requests = {q1, q2}
    RPS = 1
    Burst = 3
    Many = 1
    Idle = 3
    Lag = 1
    MaxTime = 5
    None = None
    Blobs = {k1, k2}
    Writers = {w1, w2}
    Absent = Absent
    Mixed = Mixed
    Unknown = Unknown
    FileNames = {n1, n2}
    Uploaders = {u1, u2}
    NoFile = NoFile
    Cut = Cut
    Agents = {g1, g2}
    Staff = {root, ed}
    root = root
    ed = ed
    Policy <- PolicyModel
    Nobody = Nobody
    OnDisk = TRUE
    MaxRows = 3
    MaxBoots = 1
    PageSizes = {2}
SPECIFICATION IntakeSpec
SYMMETRY Symmetry
INVARIANTS RateBound LastCallHolds UploadsKept
PROPERTIES DeniedOnlyRecently EditsHitTheirItem
CHECK_DEADLOCK FALSE
