\* Two application threads, callbacks that send and close, a peer that closes.
SPECIFICATION Spec
CONSTANTS
    Threads = {t1, t2}
    Frames <- CloseFrames
    Requests <- UpgradeRequest
    Replies <- AllReplies
    MaxFrames = 2
    MaxPosts = 3
    MaxIdle = 0
    ReadBuf = 4
    MaxHandshake = 6
    MaxFrameBuf = 6
    MaxMessage = 2
    MaxControl = 2
    Interval = 2
    Timeout = 3
INVARIANTS
    WireInPostOrder
    CloseFrameIsLast
    QueuedFrameHasWriter
PROPERTIES
    NeverReopens
    ImplementsOutbox
SYMMETRY ThreadSymmetry
CHECK_DEADLOCK FALSE
