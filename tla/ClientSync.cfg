SPECIFICATION ClientSpec
CONSTANTS
    d1 = d1
    d2 = d2
    Device = {d1, d2}
    Attempt = {1, 2}
    MaxInvitations = 1
    MaxTroubles = 1
    Member = {d1, d2}
    MaxTime = 3
    c1 = c1
    x1 = x1
    b1 = b1
    k1 = k1
    near = near
    far = far
    Item = {k1}
    Origin = {near}
    Event = {c1, x1, b1}
    About <- MCAbout
    Deletes = {x1}
    Invalid = {b1}
    Version <- MCVersion
    From <- MCFrom
    Source = {"hub", "peer"}
    LogOf <- MCLog
    Pushed <- MCPushed
    PageSize = 1
    BatchSize = 1
    MaxMishaps = 1
    Conn = {1, 2, 3}
    MaxStimuli = 2
    Hub = {h1, h2}
    Space = {g1, g2}
    Link = {1, 2, 3, 4}
    MaxTurns = 2
INVARIANTS
    SyncTypeOK SyncSound
PROPERTIES
    RemovalsHold DeletionFirst ConnectionsSound EventuallySettled
CHECK_DEADLOCK FALSE
