\* Two versions, one or two at once; any sequence of commands.
SPECIFICATION PublishSpec
CONSTANTS
    v1 = v1  v2 = v2
    Versions = {v1, v2}
    Parallel = {0, 2}
INVARIANTS
    ExitIsTrue
    NoneStranded
    ArchivesWhole
PROPERTIES
    CommandEnds
