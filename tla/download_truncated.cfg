SPECIFICATION Spec
CONSTANTS
    MaxRedirects = 2
    MaxBytes = 3
    MaxBody = 4
    Faults = {"write"}
CHECK_DEADLOCK FALSE
INVARIANTS
    OkIsWhole
