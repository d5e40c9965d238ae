SPECIFICATION FairSpec
CONSTANTS
    Worker = w
    App = {a1, a2}
    MaxLinks = 1
    MaxSend = 4
    Room = 1
    MaxRx = 0
    Refused = {2}
    Void = {3}
    Kept = {}
    NonBlocking = TRUE
INVARIANTS TypeOK FlagCoversBuffer QueuedInOrder
PROPERTIES CallsReturn
CHECK_DEADLOCK FALSE
