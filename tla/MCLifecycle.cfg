CONSTANTS
    Roles = {"slave", "master"}
    Heartbeats = TRUE
    Starters = {a, b}
    Stoppers = {x, y}
    Sockets = {s1, s2, s3}
    Patient = TRUE
    None = None
SPECIFICATION FairSpec
INVARIANTS
    TypeOK
    Consistent
PROPERTY CallsReturn
