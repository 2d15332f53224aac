SPECIFICATION FairSpec
CONSTANTS
    e1 = e1
    e2 = e2
    e3 = e3
    e4 = e4
    e5 = e5
    d1 = d1
    d2 = d2
    i1 = i1
    i2 = i2
    Origin <- MCOrigin
    Sequence <- MCSequence
    Item <- MCItem
    Event = {e1, e2, e3}
    Device = {d1}
    Limit = 2
    MaxRounds = 2
    MaxCursor = 4
    MaxFailures = 1
INVARIANTS TypeOK NoSkip ConfirmedWereTaken ItemOrder
PROPERTY EventuallyDelivered
CHECK_DEADLOCK FALSE
