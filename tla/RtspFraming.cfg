\* Requests and reports, cut anywhere.
SPECIFICATION FairSpec
CONSTANTS
    HeaderLen = 2
    LineLen = 2
    Channels = {0, 1}
    Same = Same
    None = None
    MaxMessages = 4
    MaxSize = 1
INVARIANTS
    AnswersMatch
    ReportsArrive
PROPERTY RequestsAnswered
CHECK_DEADLOCK FALSE
