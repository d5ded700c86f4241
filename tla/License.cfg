\* Every token and every key configuration, over a licence's life.
SPECIFICATION Spec
CONSTANTS
    k1 = k1  k2 = k2  A = A  B = B
    KeyIds = {k1, k2}
    AnyKeyID = AnyKeyID
    Keys = {A, B}
    Absent = Absent
    Dates = {0, 2, 3}
    GraceDays = {1}
    Skew = 1
    CacheTTL = 2
    Configured = 6
    LastDay = 8
    MaxPanics = 2
SYMMETRY Symmetry
INVARIANTS
    EnterpriseIsEarned
    ClaimsFresh
    LicenceEnds
