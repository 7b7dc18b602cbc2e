SPECIFICATION Spec
CONSTANTS
    Proc = {server}
    Task = {t1, t2, t3}
    Att = {a1, a2, a3}
    NoAtt = NoAtt
    Sizes = {1, 2, 4}
    MaxTotalBytes = 3
    MaxEntries = 2
    MaxConcurrent = 2
    Faults = {"rm", "fs"}
SYMMETRY TasksAndDirectories
INVARIANTS
    TypeOK
    RegisteredIsOnDisk
    NothingLeaks
    QuotaHeld
