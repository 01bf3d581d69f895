SPECIFICATION Spec
CONSTANTS
    Lines    <- SoundLines
    MaxLines = 1
    MaxLen   = 30
    IntMax   = 1000
PROPERTIES
    SoundConnectionNeverFails
CHECK_DEADLOCK FALSE
