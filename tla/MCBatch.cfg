SPECIFICATION FairProgramSpec
CONSTANTS
    m1 = m1
    m2 = m2
    main_box = main_box
    other  = other
    Mailboxes   = {main_box}
    Messages    = {m1, m2}
    NoMailbox   = NoMailbox
    Mail        <- OneMailbox
    Undated     = {m2}
    MailboxName = main_box
    Interactive = FALSE
    OnlyUnseen  = TRUE
    FaultSets   = {{"leave", "reset", "preauth"}, {"leave", "reset", "preauth", "torn"}}
    MaxInputs   = 0
    MaxNoise    = 1
    MaxPieces   = 2
    MaxTag      = 20
    MaxQueue    = 20
INVARIANTS
    ProgramTypeOK
    SuccessMeansSaved
    NoCrash
PROPERTIES
    OwnReply
    Terminates
    ImplementsDownload
CHECK_DEADLOCK FALSE
