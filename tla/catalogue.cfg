SPECIFICATION FairSpec
CONSTANTS
    Drivers = {"mongo", "postgres"}
    Addresses = {a1, host}
    Locatable = {a1}
    Callers = {c1, c2}
    Batch = 2
    MaxBulk = 2
    MaxCreated = 3
    MaxEvents = 2
INVARIANTS
    TypeOK
    HistoryIsOwn
    RefusedForItsAddress
PROPERTY EveryProxyIsLocated
