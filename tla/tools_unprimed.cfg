SPECIFICATION Spec
CONSTANTS
    ToolCall = {c1, c2}
    MaxRotations = 1
    Watched = FALSE
INVARIANTS
    PrimedAfterRotation
