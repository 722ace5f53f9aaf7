CONSTANTS
    c1 = c1
    c2 = c2
    r1 = r1
    r2 = r2
    r3 = r3
    None = None
    Clients = {c1, c2}
    Requests = {r1, r2, r3}
    ClientOf <- TwoTabsAndAnother
    Ids = {i1, i2}
    Tokens = {}
    Msgs = {}
    Ops = {"login", "destroy", "panic", "write"}
    MaxFailures = 1
    LoneRequest = r1
    LoneIds = {i1, i2, i3}
    LoneTokens = {t1, t2}
    LoneMsgs = {m1}
    LoneOps = {"login", "destroy", "clear", "save", "token", "flash", "expire"}
SPECIFICATION BrowsersSpec
SYMMETRY Symmetry
INVARIANT Isolation
PROPERTIES LoginChangesId RegisterSpec FlashOnce
