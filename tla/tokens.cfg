SPECIFICATION Spec
CONSTANTS
    Proc = {server, cli}
    Users = {anna, bo}
    None = None
    Locked = TRUE
    Rotations = {TRUE, FALSE}
    Cli = {"login", "logout", "stepup"}
    Persist = {TRUE, FALSE}
    Faults = {"lost", "disk", "crash"}
    MaxTok = 4
    MaxCalls = 2
SYMMETRY Symmetry
CHECK_DEADLOCK FALSE
INVARIANTS
    SingleUse
    StoreRedeemable
    RecordConsistent
