SPECIFICATION FairSpec
CONSTANTS
    MaxLinks = 2
    Streams <- MCStreams
    DataStatus = "STATUS_RECV_END"
INVARIANTS TypeOK RefsArePointers HandlersLive MapFollowsLibrary PacketsInOrder AtMostOneLate NoHandlerLeft
PROPERTIES Delivered UnInitReturns
CHECK_DEADLOCK FALSE
