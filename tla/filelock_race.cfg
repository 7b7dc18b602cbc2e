SPECIFICATION Spec
CONSTANTS
    NoFile = NoFile
    TimeoutMs = 1
    Proc = {server, cli}
    StaleMs = 2
    MaxHold = 2
    MaxCalls = 2
    Faults = {"crash"}
INVARIANTS
    MutualExclusion
