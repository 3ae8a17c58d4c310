\* Mongo, under fairness: two proxies of one (machine, domain), one request
\* at a time, one of the domains ad infrastructure. No symmetry: it is unsound
\* with liveness.
SPECIFICATION FairSpec
CONSTANTS
    Proxies = {p1, p2}
    Machines = {m1}
    Domains = {shop, ads}
    InfraDomains = {ads}
    Requests = {r1}
    IsMongo = TRUE
    MaxFlight = 1
    LogCap = 0
    FailureThreshold = 2
    InitialCooldown = 2
    ProbeBackoffBase = 1
    MaxCooldown = 4
    TrialHoldWindow = 2
    StopProbingPermanent = FALSE
    PermanentTrialThreshold = 1
    PermanentMinAge = 1
    ParkedWait = 99
    CountCap = 2
    AttemptCap = 2
    AgeCap = 0
    Nil = Nil
PROPERTIES
    EveryBanComesDue
    EveryDueTrialIsClaimed
