SPECIFICATION Spec
CONSTANTS
    a1 = a1
    a2 = a2
    Worker = w
    App = {a1}
    Fds = {f1, f2}
    NoFd = NoFd
    MaxLinks = 2
    MaxRx = 1
    KeepPeriod = 1
    Kept = {}
    Calls <- MCCallsAll
    PeerActs = {"dial", "answer", "data", "fin", "eintr", "reset"}
    Watched = {"CREATED", "ACCEPTED", "CLOSED", "DISCONNECTED"}
SYMMETRY FdSymmetry
INVARIANTS TypeOK NoSocketLost AnnouncedFirst
PROPERTY DisconnectedIsDown
