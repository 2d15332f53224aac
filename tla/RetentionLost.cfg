SPECIFICATION RetentionClientSpec
CONSTANTS
    Favourable = {"k", "l"}
    OldEvent = {1, 2}
    KeyAt <- MCKeyAt
    Undecodable = {2}
    PlanPage = 1
    MaxToggles = 2
    MaxBreaks = 1
INVARIANT ReportedIsProtected
CHECK_DEADLOCK FALSE
