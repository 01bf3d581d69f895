SPECIFICATION FairSpec
CONSTANTS
    Mailboxes = {inbox}
    Messages  = {m1}
    NoMailbox = NoMailbox
    MaxTag    = 1
    MaxQueue  = 2
PROPERTIES
    EveryWaitEnds
    EveryCallEnds
    FailureSurfaces
    ImplementsHandoff
CHECK_DEADLOCK FALSE
