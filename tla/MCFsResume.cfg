CONSTANTS
    Uploads = {u1, u2}
    Contents = {A, B}
    Sizes = {3}
    ChunkSize = 2
    OneAtATime = TRUE
    Overlap = FALSE
    MaxFaults = 0
    Hole = Hole
    None = None
SPECIFICATION Spec
SYMMETRY Symmetry
PROPERTY DoneExact
CHECK_DEADLOCK FALSE
