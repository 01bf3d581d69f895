SPECIFICATION FairSpec
CONSTANTS
    Lines    <- EveryLine
    MaxLines = 2
    MaxLen   = 10
    IntMax   = 3
INVARIANTS
    ReceiverTypeOK
    NothingLostSilently
PROPERTIES
    ParserAdvances
    PlainLinesParse
    StopEnds
    ImplementsFeed
CHECK_DEADLOCK FALSE
