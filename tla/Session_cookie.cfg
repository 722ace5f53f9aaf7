CONSTANTS
    c1 = c1
    r1 = r1
    None = None
    Clients = {c1}
    Requests = {r1}
    ClientOf <- OneRequest
    Ids = {i1, i2}
    Tokens = {t1, t2}
    Msgs = {}
    Ops = {"token", "write"}
    MaxFailures = 0
SPECIFICATION Spec
INVARIANTS TokenRoundTrip
