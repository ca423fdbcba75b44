SPECIFICATION Spec
CONSTANTS
    Configs <- AllConfigs
    AtLeast = 3
    MaxFaults = 2
INVARIANTS
    TypeOK
    DeadNoticed
PROPERTIES
    LivingKept
