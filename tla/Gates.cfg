\* Three requests of two clients or of none; a bucket of two, full again after two steps; one slot each.
SPECIFICATION GatesSpec
CONSTANTS
    c1 = c1  c2 = c2
    Requests = {1, 2, 3}
    Clients = {c1, c2}
    Unknown = Unknown
    None = None
    Burst = 2
    Rate = 1
    Interval = 2
    Limit = 1
    MaxTime = 3
    MaxSweepPanics = 1
SYMMETRY Symmetry
CONSTRAINT Apart
INVARIANTS
    RateKept
    SlotsExact
