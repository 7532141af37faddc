\* Three requests of each kind, cut anywhere by TCP.
SPECIFICATION FairSpec
CONSTANTS
    Kinds <- SomeKinds
    MaxMessages = 3
    ReadBuf = 12
INVARIANT AnswersRequests
PROPERTY RequestsAnswered
CHECK_DEADLOCK FALSE
