CONSTANTS
    Uploads = {u1, u2, u3}
    Contents = {A}
    Sizes = {3}
    ChunkSize = 2
    OneAtATime = TRUE
    Overlap = FALSE
    MaxFaults = 2
    Hole = Hole
    None = None
SPECIFICATION Spec
SYMMETRY Symmetry
INVARIANTS
    TypeOK
    TargetWhole
    NoGap
PROPERTY DoneExact
CHECK_DEADLOCK FALSE
