\* Every kind of frame and of request, cut anywhere: no application threads, no time.
SPECIFICATION Spec
CONSTANTS
    Threads = {}
    Frames <- AnyFrames
    Requests <- AnyRequest
    Replies <- NoReply
    MaxFrames = 3
    MaxPosts = 0
    MaxIdle = 0
    ReadBuf = 3
    MaxHandshake = 5
    MaxFrameBuf = 6
    MaxMessage = 2
    MaxControl = 2
    Interval = 2
    Timeout = 3
INVARIANTS
    TypeOK
    ActiveSessionReads
    DeliversWhatWasSent
    LimitsExact
CHECK_DEADLOCK FALSE
