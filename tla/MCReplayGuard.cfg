CONSTANTS
    Proofs = {p1, p2}
    Skew = 1
    Window = 4
    SweepFloor = 2
    Lag = 1
    MaxTime = 8
SPECIFICATION GuardSpec
SYMMETRY Symmetry
INVARIANTS
    AtMostOnce
