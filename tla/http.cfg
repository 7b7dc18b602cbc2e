SPECIFICATION FairSpec
CONSTANTS
    Req = {r1, r2}
    App = {a1, a2}
    None = None
    HttpMax = 1
    SseMax = 1
    MaxConcurrent = 2
    IdleMs = 0
    Faults = {"init", "connect"}
CHECK_DEADLOCK FALSE
INVARIANTS
    TypeOK
    SessionsCapped
    AppsAccountedFor
PROPERTIES
    IdleSessionsEnd
    RoutesReturn
