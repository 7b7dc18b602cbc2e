SPECIFICATION ToolsSpec
CONSTANTS
    NoFile = NoFile
    TimeoutMs = 1
    Proc = {server, cli, deploy}
    StaleMs = 2
    MaxHold = 3
    MaxCalls = 1
    Faults = {"crash", "write", "unlink"}
    None = None
    ToolCall = {c1, c2}
    MaxRotations = 1
    Watched = TRUE
    ReportCall = {r1, r2}
    Own = {k1, k2}
    Others = {k3}
    Entry = {e1, e2, e3, e4}
    Bare = {e4}
    PageSize = 1
    MaxPages = 3
    MaxNews = 2
    PipeCap = 2
    MaxStdout = 3
    MaxChatter = 3
    Weeks = 5
    SpringWeek = 1
    AutumnWeek = 3
    FirstYear = 2019
    LastYear = 2028
INVARIANTS
    ToolsTypeOK
    ExclusiveUnlessReclaimed
    PrimedBeforeFeed
    MissIsExplained
    AnswerIsWhole
PROPERTIES
    ImplementsMutex
    WritesAreVetted
    DatesAgree
    EveryCallEnds
