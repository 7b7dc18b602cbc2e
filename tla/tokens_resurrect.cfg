SPECIFICATION Spec
CONSTANTS
    Proc = {server, cli}
    Users = {anna}
    None = None
    Locked = TRUE
    Rotations = {TRUE}
    Cli = {"logout"}
    Persist = {FALSE}
    Faults = {}
    MaxTok = 4
    MaxCalls = 1
CHECK_DEADLOCK FALSE
PROPERTIES
    LogoutSticks
