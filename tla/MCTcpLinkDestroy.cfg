SPECIFICATION Spec
CONSTANTS
    a1 = a1
    a2 = a2
    Worker = w
    App = {a1, a2}
    Fds = {f1, f2}
    NoFd = NoFd
    MaxLinks = 3
    MaxRx = 1
    KeepPeriod = 2
    Kept = {}
    Calls <- MCCallsDestroy
    PeerActs = {"dial", "data", "fin", "nomem"}
    Watched = {"CREATED", "ACCEPTED", "CLOSED"}
SYMMETRY FdSymmetry
INVARIANTS NoSocketLost ClosedIsGone
PROPERTY ImplementsLinkTable
