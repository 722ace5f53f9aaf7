CONSTANTS
    Clients = {c1, c2}
    Rooms = {chat}
    NoRoom = NoRoom
    NoClient = NoClient
    BroadcastCap = 1
    SendBuf = 1
    MaxMsgs = 2
SPECIFICATION Spec
INVARIANTS NoSendOnClosed OpenHubKeepsLiveOnly
PROPERTY FeedSpec
CHECK_DEADLOCK FALSE
