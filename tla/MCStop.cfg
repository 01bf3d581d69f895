SPECIFICATION FairProgramSpec
CONSTANTS
    m1 = m1
    m2 = m2
    main_box = main_box
    other  = other
    Mailboxes   = {main_box}
    Messages    = {m1, m2}
    NoMailbox   = NoMailbox
    Mail        <- OneMailbox
    Undated     = {}
    MailboxName = main_box
    Interactive = FALSE
    OnlyUnseen  = FALSE
    FaultSets   = {{"latestart"}}
    MaxInputs   = 0
    MaxNoise    = 0
    MaxPieces   = 1
    MaxTag      = 20
    MaxQueue    = 20
PROPERTIES
    StopEndsThread
CHECK_DEADLOCK FALSE
