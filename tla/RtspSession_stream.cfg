\* Requests and ticks in every order, whatever a fresh is_playing holds.
SPECIFICATION FairSpec
CONSTANTS
    Frames <- ThreeFrames
    HasParameters = TRUE
    InitialPlaying = {TRUE, FALSE}
    Parameters = Parameters
    None = None
    MaxRequests = 8
INVARIANTS
    LoopHasTimer
    QueueHoldsOneFrame
    TimestampsFollowFrames
PROPERTIES
    CutOnlyByPlay
    SilentWhenStopped
    PlayingStreams
CHECK_DEADLOCK FALSE
