CONSTANTS
    MasterCalls = {m1}
    ServiceCalls = {v1}
    SlaveCalls = {d1}
    MaxWork = 2
    MaxRebuilds = 2
    None = None
SPECIFICATION FairSpec
INVARIANTS
    TypeOK
    NestedUnanswered
PROPERTIES
    PromiseSpec
    LoopGoesOn
