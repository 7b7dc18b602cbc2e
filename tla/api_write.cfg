SPECIFICATION Spec
CONSTANTS
    Calls = {c1}
    Boot = Boot
    Kinds = {"get", "post"}
    MaxApi = 5
    MaxNewest = 3
    Faults = {}
INVARIANTS
    DoneMeansWritten
