CONSTANTS
    Users = {u1, u2}
    Ids = {i1, i2}
    Calls = {c1}
    None = None
    TTL = 2
    MaxTime = 3
    MaxRestarts = 0
SPECIFICATION AdminSpec
PROPERTY RefreshRotates
CHECK_DEADLOCK FALSE
