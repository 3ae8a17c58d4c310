\* Postgres: one scope, three requests in flight, parking switched on.
SPECIFICATION Spec
CONSTANTS
    Proxies = {p1}
    Machines = {m1}
    Domains = {shop}
    InfraDomains = {}
    Requests = {r1, r2, r3}
    IsMongo = FALSE
    MaxFlight = 1
    LogCap = 0
    FailureThreshold = 3
    InitialCooldown = 2
    ProbeBackoffBase = 1
    MaxCooldown = 4
    TrialHoldWindow = 2
    StopProbingPermanent = TRUE
    PermanentTrialThreshold = 2
    PermanentMinAge = 5
    ParkedWait = 99
    CountCap = 4
    AttemptCap = 2
    AgeCap = 5
    Nil = Nil
SYMMETRY RequestSymmetry
INVARIANTS
    OnlyConfirmedDomainsCount
    OneTrialPerScope
    BannedIffStreak
    ParkedAfterEnoughTrials
PROPERTIES
    LadderOnlyClimbs
    NeverPulledForward
    PermanentStaysPermanent
    ImplementsCycle
