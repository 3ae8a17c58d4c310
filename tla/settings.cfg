SPECIFICATION Spec
CONSTANTS
    Writers = {w1}
    Reloads = {r1, r2}
    Clients = {c1}
    MaxLimiters = 0
    Reads <- SomeReads
    MaxWrites = 2
    MaxReloads = 3
SYMMETRY Slots
INVARIANTS
    LimitersFollowSettings
    SelectorsAgree
    ReloadApplies
