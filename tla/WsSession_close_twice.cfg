\* DoClose runs its close flow more than once.
SPECIFICATION Spec
CONSTANTS
    Threads = {t1}
    Frames <- CloseFrames
    Requests <- UpgradeRequest
    Replies <- NoReply
    MaxFrames = 0
    MaxPosts = 0
    MaxIdle = 0
    ReadBuf = 4
    MaxHandshake = 6
    MaxFrameBuf = 6
    MaxMessage = 2
    MaxControl = 2
    Interval = 2
    Timeout = 3
INVARIANT CloseFlowRunsOnce
CHECK_DEADLOCK FALSE
