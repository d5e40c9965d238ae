SPECIFICATION FairSpec
CONSTANTS
    Requests <- MCRequests
    DataStatus = "STATUS_RECV_END"
INVARIANTS TypeOK AnswersInOrder HandleForgotten
PROPERTIES Answered
CHECK_DEADLOCK FALSE
