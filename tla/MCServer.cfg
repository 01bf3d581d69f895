SPECIFICATION FairSpec
CONSTANTS
    MaxAddresses = 3
    MaxTalk      = 2
INVARIANTS
    ServerTypeOK
    UsableSocket
    NothingFreedInUse
    Released
PROPERTIES
    ConstructorEnds
    DestructorEnds
CHECK_DEADLOCK FALSE
