SPECIFICATION Spec
CONSTANTS
    None = None
    Faults = {"disk", "crash", "write", "fs"}
    Proc = {p1, p2}
    Given = {}
    MaxKeys = 3
    Callers = {c1, c2}
    RecheckMs = 1
    MaxLoad = 1
    MaxVer = 2
    Probes = {c1, c2}
    GraceMs = 2
    Commands = {"login", "logout", "invalidate"}
    MaxTok = 4
    WindowMs = 3
    Limit = 3
    FailLimit = 2
    LoginWindowMs = 3
    LoginStartsPerWindow = 2
    MaxRedirects = 2
    MaxBytes = 3
    MaxBody = 4
    Calls = {a1, a2}
    Boot = Boot
    Kinds = {"thread", "post"}
    MaxApi = 4
    MaxNewest = 3
    ApiFaults = {"net"}
    MaxPoll = 4
    MaxIssued = 3
    ChainHops = 15
    IdpTries = 16
    FollowHops = 10
    AcsHops = 10
    N = 23
    g = 5
    MaxExponent = 3
INVARIANTS
    PartsTypeOK
    TokensStayReadable
    AnswersAreRecent
    RetryIsNewer
    AnySpanBounded
    AnswerMatchesFile
    FollowsWithdrawals
    InStep
    SecretsAgree
PROPERTIES
    ProbesAreSpaced
    PostHasContext
    ImplementsPromise
    EveryCallEnds
