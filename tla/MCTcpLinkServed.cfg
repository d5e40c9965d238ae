SPECIFICATION FairSpec
CONSTANTS
    a1 = a1
    a2 = a2
    Worker = w
    App = {a1, a2}
    Fds = {f1, f2}
    NoFd = NoFd
    MaxLinks = 2
    MaxRx = 2
    KeepPeriod = 1
    Kept = {1}
    Calls <- MCCallsDestroy
    PeerActs = {"dial", "data", "fin", "eintr"}
    Watched = {"CREATED", "ACCEPTED"}
PROPERTY PendingIsServed
