SPECIFICATION CSpec
CONSTANTS
    Callers = {x1, x2}
    None = None
    RecheckMs = 1
    MaxLoad = 0
    MaxVer = 2
    Commands = {"login", "logout", "invalidate"}
    Watched = TRUE
    Wish = {"widget", "guardian"}
SYMMETRY AnyContext
VIEW Visible
INVARIANTS
    CTypeOK
    OneSession
