SPECIFICATION ProgramSpec
CONSTANTS
    m1 = m1
    m2 = m2
    main_box = main_box
    other  = other
    Mailboxes   = {main_box, other}
    Messages    = {m1, m2}
    NoMailbox   = NoMailbox
    Mail        <- TwoMailboxes
    Undated     = {m2}
    MailboxName = main_box
    Interactive = TRUE
    OnlyUnseen  = FALSE
    FaultSets   = {{"torn"}, {"leave", "reset"}}
    MaxInputs   = 2
    MaxNoise    = 1
    MaxPieces   = 1
    MaxTag      = 20
    MaxQueue    = 20
INVARIANTS
    MailboxAgrees
    CommandsMeetTheirMailbox
    NoCrash
PROPERTIES
    OwnReply
CHECK_DEADLOCK FALSE
