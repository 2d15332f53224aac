SPECIFICATION ConfigSpec
CONSTANTS
    Setting = {theme, shortcut}
    Value = {0, 1}
    Reset = {"reset"}
    MaxWrites = 3
    MaxFileFaults = 1
INVARIANT
    FileWhole
CHECK_DEADLOCK FALSE
