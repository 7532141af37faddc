\* The guide's key in pieces of any size, and a frame of every kind in pieces.
SPECIFICATION Spec
CONSTANTS
    BlockLen = 64
    LengthLen = 8
    MaxBytes = 140
    Key <- ExampleKey
    ExpectedKey <- ExampleAccept
    FrameSet <- AnyFrames
    NoFrame = NoFrame
INVARIANTS
    PaddedOnce
    KeyAccepted
    FramesUnderstood
CHECK_DEADLOCK FALSE
