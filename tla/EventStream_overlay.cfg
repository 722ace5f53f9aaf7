CONSTANTS
    Streams = {s1}
    Producers = {p1, p2}
    Buf = 1
    MaxEvents = 2
    Inject = TRUE
    Nobody = Nobody
    NoEvent = NoEvent
SPECIFICATION Spec
INVARIANT WriteFlushes
CHECK_DEADLOCK FALSE
