CONSTANTS
    MaxMessages = 5
    MaxSize = 2
    Deadline = 2
    FirstRetry = 1
    LastRetry = 2
    CloseTicks = 1
    ReportEvery = 1
SPECIFICATION FairSpec
INVARIANTS EveryMessageCounted
PROPERTIES OrderIsKept ControlSettles
