\* Two connections; Stop against accepts, broadcasts and sessions that end.
SPECIFICATION FairSpec
CONSTANTS
    Sessions = {s1, s2}
    Broadcasters = {b1}
    None = None
    Id <- UniqueIds
    MaxBroadcasts = 1
PROPERTY StopReturns
CHECK_DEADLOCK FALSE
