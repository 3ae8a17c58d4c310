SPECIFICATION Spec
CONSTANTS
    Proxies = {1, 2}
    Requests = {r1, r2}
    Kinds = {"http", "connect", "test"}
    Deployments <- OneOfEach
    Allowed = {1, 2}
    MaxFallback = 2
    MaxEvents = 3
INVARIANTS
    TypeOK
    IndexInRange
    AloneTriesAll
    StreakIsFailed
PROPERTY RoundRobinTakesTurns
