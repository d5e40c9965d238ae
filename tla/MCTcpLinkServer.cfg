SPECIFICATION Spec
CONSTANTS
    a1 = a1
    a2 = a2
    Worker = w
    App = {a1}
    Fds = {f1, f2}
    NoFd = NoFd
    MaxLinks = 3
    MaxRx = 1
    KeepPeriod = 1
    Kept = {}
    Calls <- MCCallsServer
    PeerActs = {"dial", "data", "fin", "answer"}
    Watched = {"CREATED", "ACCEPTED"}
SYMMETRY FdSymmetry
INVARIANTS OwnSocketOnly NoStaleDescriptor
