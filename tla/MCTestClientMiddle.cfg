SPECIFICATION FairSpec
CONSTANTS
    Requests <- MCRequests
    DataStatus = "STATUS_RECV_MIDDLE"
PROPERTIES Answered
CHECK_DEADLOCK FALSE
