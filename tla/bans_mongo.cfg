\* Mongo: one scope, two requests in flight, the operator's tools at work.
SPECIFICATION ToolsSpec
CONSTANTS
    Proxies = {p1}
    Machines = {m1}
    Domains = {shop}
    InfraDomains = {}
    Requests = {r1, r2}
    IsMongo = TRUE
    MaxFlight = 1
    LogCap = 1
    FailureThreshold = 2
    InitialCooldown = 2
    ProbeBackoffBase = 1
    MaxCooldown = 2
    TrialHoldWindow = 2
    StopProbingPermanent = FALSE
    PermanentTrialThreshold = 1
    PermanentMinAge = 1
    ParkedWait = 99
    CountCap = 2
    AttemptCap = 1
    AgeCap = 0
    BanIpCooldown = 1
    HistoryCap = 1
    Nil = Nil
SYMMETRY RequestSymmetry
INVARIANTS
    BannedIsScheduled
    JunkOnlyByHand
    SecondTrialOnlyByHand
    BackfillConverges
