SPECIFICATION Spec
CONSTANTS
    Logs <- TwoLogs
    MaxSockets = 3
    MaxChanges = 2
    NoSocket = NoSocket
    Tasks = {t1, t2}
    MaxRequests = 4
    SampleLimit = 2
    NoTask = NoTask
    Rows = {r1, r2}
    Tags = {v1}
    MaxLoads = 4
    MaxTickets = 3
    Nothing = Nothing
    Roles <- TwoRoles
    Typed = {"Login", "unknown", "settings", "terminal", "PasswordRecovery"}
    None = None
CHECK_DEADLOCK FALSE
INVARIANTS
    TypeOK
    ShowsWhatIsAsked
    NothingIsLeftBehind
    GuardsHold
PROPERTIES
    LeftPagesStay
