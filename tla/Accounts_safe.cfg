CONSTANTS
    Users = {u1}
    Ids = {i1, i2, i3}
    Calls = {c1, c2}
    None = None
    TTL = 1
    MaxTime = 3
    MaxRestarts = 1
    amy = amy
    admin = admin
    editor = editor
    padded = padded
    read = read
    write = write
    People = {amy}
    RoleNames = {admin, editor, padded}
    PermNames = {read, write}
    Trim <- TrimModel
    Blank = Blank
    Presets <- PresetsModel
    TokenRoles <- TokenRolesModel
    Admins = {a1, a2}
    MaxStoreCalls = 3
    MaxOverlays = 1
    other = other
    Names = {m1}
    Deploys = {d1, d2}
    StepFlags <- Flags
    Late <- OneLate
    Nobody = Nobody
    MaxSeconds = 2
SPECIFICATION AccountsSpec
SYMMETRY Symmetry
INVARIANTS RowsHaveParents GuardsAgree SchemaMatches
PROPERTIES SingleUse RevokedStayDead LoadIsCurrent
CHECK_DEADLOCK FALSE
