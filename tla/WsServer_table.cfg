\* Two connections, two broadcasting threads and Stop, in every interleaving.
SPECIFICATION Spec
CONSTANTS
    Sessions = {s1, s2}
    Broadcasters = {b1, b2}
    None = None
    Id <- UniqueIds
    MaxBroadcasts = 2
INVARIANTS
    TypeOK
    LoopSeesTable
    TableIsAccurate
    BroadcastsAgree
PROPERTY BroadcastReaches
SYMMETRY ServerSymmetry
CHECK_DEADLOCK FALSE
