SPECIFICATION Spec
CONSTANTS
    Threads = {t1, t2}
    Sockets = {1, 2}
    Channels = {0, 1}
    Sources = {0}
    Addresses = {a1}
    SeqSize = 3
    InitialSeq = {2}
    InitialActive = {TRUE, FALSE}
    None = None
    MaxFrames = 2
    MaxParts = 2
SYMMETRY Symmetry
INVARIANTS
    FramesInOrder
    SendsOnOpenSocket
    LossLeavesGap
    AddressesAccounted
CHECK_DEADLOCK FALSE
