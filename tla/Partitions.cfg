\* Two replicas, one month created ahead, one kept.
SPECIFICATION FairSpec
CONSTANTS
    r1 = r1  r2 = r2
    Replicas = {r1, r2}
    PreCreate = 1
    Retention = 1
    Migrated = 1
    LastMonth = 3
    MaxFaults = 2
    None = None
PROPERTIES
    RetainedKept
    MonthsCovered
