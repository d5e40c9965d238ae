SPECIFICATION FairSpec
CONSTANTS
    Worker = w
    App = {a1, a2}
    MaxLinks = 2
    MaxSend = 1
    Room = 1
    MaxRx = 2
    Refused = {}
    Void = {}
    Kept = {1}
    NonBlocking = FALSE
INVARIANTS OneReadAfterClosed
PROPERTIES EdgeIsRead
CHECK_DEADLOCK FALSE
