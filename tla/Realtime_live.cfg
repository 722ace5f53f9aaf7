CONSTANTS
    Streams = {s1}
    Producers = {p1, p2}
    Buf = 1
    MaxEvents = 2
    Inject = FALSE
    Nobody = Nobody
    NoEvent = NoEvent
    Clients = {c1}
    Rooms = {chat}
    NoRoom = NoRoom
    NoClient = NoClient
    BroadcastCap = 1
    SendBuf = 1
    MaxMsgs = 3
SPECIFICATION RealtimeSpec
INVARIANTS NoWriteAfterReturn InOrder
PROPERTIES StreamEnds OpenHubForgets CloseReleases
CHECK_DEADLOCK FALSE
