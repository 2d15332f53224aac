SPECIFICATION SearchKeysSpec
CONSTANTS
    Session = {1}
    HookThread = {1, 2}
    HandoffCapacity = 2
    MaxKeys = 2
    MaxWindowCalls = 2
INVARIANT HiddenReleases
CHECK_DEADLOCK FALSE
