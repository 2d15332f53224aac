SPECIFICATION Spec
CONSTANTS
    Device <- Devices
    Meta <- Fields
    Staged = {TRUE}
    Interleaved = TRUE
    MaxOps = 3
    MaxJump = 1
    MaxCrash = 0
INVARIANT DeletedIsGone
CHECK_DEADLOCK FALSE
