CONSTANTS
    Empty = Empty
    AUTH = AUTH
    VERSION = VERSION
    Byte = Byte
    Slaves = {s1}
    MasterIds = {m1, m2}
    Keys = {k1, k2}
    Topic = Topic
    Service = Service
    Payloads <- MCPayloads
    Master = Master
    Modes <- MCModes
    MaxSends = 1
    MaxChanges = 2
    Absent = Absent
SPECIFICATION FairSpec
INVARIANTS
    TypeOK
    KeysConsistent
    Faithful
PROPERTIES
    KeyChangeTakesEffect
