SPECIFICATION FairSpec
CONSTANTS
    e1 = e1
    e2 = e2
    e3 = e3
    e4 = e4
    e5 = e5
    d1 = d1
    d2 = d2
    i1 = i1
    i2 = i2
    Origin <- MCOrigin
    Sequence <- MCSequence
    Item <- MCItem
    Event = {e3, e4}
    Device = {d1}
    Limit = 1
    MaxRounds = 2
    MaxCursor = 2
    MaxFailures = 0
PROPERTY BootstrapEnds
CHECK_DEADLOCK FALSE
