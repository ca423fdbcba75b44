CONSTANTS
    Calls = {r1, r2, r3}
    Roles = {"slave", "master"}
    MaxPending = 2
    HeartbeatOn = TRUE
    MayStop = TRUE
    MaxOther = 1
    Other = Other
    Unregister = Unregister
    Idle = Idle
SPECIFICATION FairSpec
INVARIANTS
    TypeOK
    Tracked
    OnlySealLeaks
    FifoWire
PROPERTIES
    NoZombieSend
    PromiseSpec
    EverySettles
    StopsIfReachable
