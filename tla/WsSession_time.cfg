\* One thread, a peer that answers, closes or falls silent, and the clock.
SPECIFICATION FairSpec
CONSTANTS
    Threads = {t1}
    Frames <- BeatFrames
    Requests <- UpgradeRequest
    Replies <- NoReply
    MaxFrames = 1
    MaxPosts = 2
    MaxIdle = 10
    ReadBuf = 4
    MaxHandshake = 6
    MaxFrameBuf = 6
    MaxMessage = 2
    MaxControl = 2
    Interval = 3
    Timeout = 7
INVARIANT SilentPeerIsDropped
PROPERTIES
    PongWithinIntervalSuffices
    PostedFramesDrain
    ClosingReleasesSocket
CHECK_DEADLOCK FALSE
