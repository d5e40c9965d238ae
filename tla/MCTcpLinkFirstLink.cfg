SPECIFICATION FairSpec
CONSTANTS
    a1 = a1
    a2 = a2
    Worker = w
    App = {a1, a2}
    Fds = {f1, f2, f3}
    NoFd = NoFd
    MaxLinks = 3
    MaxRx = 1
    KeepPeriod = 1
    Kept = {2}
    Calls <- MCCallsDestroy
    PeerActs = {"dial"}
    Watched = {"CREATED", "ACCEPTED"}
PROPERTY PendingIsServed
