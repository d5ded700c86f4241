\* Two calls, two administrative operations, the scan and a crash, any three of them, on two plugins of which the cache holds one.
SPECIFICATION MCSpec
CONSTANTS
    p1 = p1
    p2 = p2
    g1 = g1
    g2 = g2
    a1 = a1
    a2 = a2
    Plugins = {p1, p2}
    Dirs = {p1, p2}
    Contents = {2, 3}
    Calls = {g1, g2}
    Admins = {a1, a2}
    Limit = 4
    RemovalFails = TRUE
    MaxRestarts = 1
    MaxBegun = 3
    Old = 3
    Unchecked = Unchecked
    None = None
    Warm = Warm
SYMMETRY Symmetry
CONSTRAINT AtMost
INVARIANTS
    TotalExact
    RegisteredHasArtifact
    NoFollowerStranded
    OnlyRegisteredRuns
