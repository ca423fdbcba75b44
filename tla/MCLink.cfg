CONSTANTS
    HeartbeatOn = TRUE
    Modes = {TRUE, FALSE}
    Timings = {TRUE, FALSE}
    MaxFrames = 3
    MaxNet = 2
    MaxFaults = 2
SPECIFICATION LinkFairSpec
INVARIANTS
    LinkTypeOK
    ChainAlive
    TableMatchesEvents
PROPERTY Converges
