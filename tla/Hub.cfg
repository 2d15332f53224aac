SPECIFICATION HubSpec
CONSTANTS
    g1 = g1
    u1 = u1
    u2 = u2
    Group = {g1}
    Upload = {u1, u2}
    GroupOf <- MCGroupOf
    Size <- MCSize
    MaxBytes = 3
    LowWatermark = 2
    Frame = 1
    MaxEventBytes = 4
    MaxChanges = 1
    MaxErrors = 1
    Slot = {0, 1}
    Stream = {1, 2}
    MaxCommits = 2
    MaxFailures = 1
    MaxRecords = 3
    MaxLoads = 3
    PageSize = 2
    a = a
    b = b
    Device = {a, b}
    Subject = b
    MaxClock = 2
    MaxStored = 2
INVARIANTS HubTypeOK HubSound
PROPERTIES HubSteps EventuallyServed
CHECK_DEADLOCK FALSE
