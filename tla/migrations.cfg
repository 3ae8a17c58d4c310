SPECIFICATION FairSpec
CONSTANTS
    Servers = {s1, s2}
    Left = {0, 8, 9, 15}
    Duplicates = {d1, d2}
    MaxFaults = 3
INVARIANTS
    NoGaps
PROPERTY EveryServerComesUp
