\* Mongo, one scope: a success between the count and the ban.
SPECIFICATION Spec
CONSTANTS
    Proxies = {p1}
    Machines = {m1}
    Domains = {shop}
    InfraDomains = {}
    Requests = {r1, r2}
    IsMongo = TRUE
    MaxFlight = 1
    LogCap = 0
    FailureThreshold = 2
    InitialCooldown = 2
    ProbeBackoffBase = 1
    MaxCooldown = 4
    TrialHoldWindow = 2
    StopProbingPermanent = FALSE
    PermanentTrialThreshold = 1
    PermanentMinAge = 1
    ParkedWait = 99
    CountCap = 2
    AttemptCap = 2
    AgeCap = 0
    Nil = Nil
SYMMETRY RequestSymmetry
INVARIANTS
    BannedMeansStreak
