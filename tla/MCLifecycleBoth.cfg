SPECIFICATION FairSpec
CONSTANTS
    Libs = {"tcp", "udp"}
    MaxInit = 2
    MaxLinks = 3
    MayFail = TRUE
    Patient = TRUE
INVARIANTS TypeOK ThreadsHaveTheirObject NothingLeft
PROPERTIES UninitReturns
CHECK_DEADLOCK FALSE
