SPECIFICATION Spec
CONSTANTS
    e1 = e1
    e2 = e2
    e3 = e3
    b1 = b1
    b2 = b2
    k1 = k1
    k2 = k2
    s1 = s1
    s2 = s2
    d1 = d1
    NoKey = NoKey
    Event = {e1, e2, e3}
    Blob = {b1, b2}
    Device = {d1}
    Key = {k1, k2}
    Stream = {s1, s2}
    Required <- MCRequired
    Optional <- MCOptional
    KeyOf <- MCKeyOf
    Identity <- MCIdentity
    Slot <- MCSlot
    EventBytes = 1
    BlobBytes = 2
    MaxGroupBytes = 4
    FrameBytes = 1
    MaxEvents = 1
    BatchSize = 2
    MaxCursor = 3
    MaxGeneration = 0
SYMMETRY MCStreams
INVARIANTS TypeOK Accounting ReservationsMatch QuotaBound AttachmentsAvailable StoredHasFile HolesBelowFloor
PROPERTIES ProtectedSurvive ImplementsLog
CHECK_DEADLOCK FALSE
