\* Every short file, and files of up to four NAL units of every size and type.
SPECIFICATION Spec
CONSTANTS
    Files <- SomeFiles
    MaxPayload = 4
INVARIANTS
    FindsNalUnits
    FramesCoverFile
    ReceiverSeesUnits
CHECK_DEADLOCK FALSE
