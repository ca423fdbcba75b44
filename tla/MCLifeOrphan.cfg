CONSTANTS
    Roles = {"slave"}
    Heartbeats = FALSE
    Starters = {a, b}
    Stoppers = {x}
    Sockets = {s1, s2, s3, s4}
    Patient = FALSE
    None = None
SPECIFICATION FairSpec
PROPERTY StopReturns
CHECK_DEADLOCK FALSE
