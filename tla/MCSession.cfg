SPECIFICATION Spec
CONSTANTS
    Mailboxes = {inbox}
    Messages  = {m1}
    NoMailbox = NoMailbox
    MaxTag    = 3
    MaxQueue  = 2
INVARIANTS
    TypeOK
    NoLostWakeup
    PopIsGuarded
    SelectBeforeUse
PROPERTIES
    TimeoutMeansSilence
CHECK_DEADLOCK FALSE
