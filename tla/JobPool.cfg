\* Three calls, one worker, a queue of one; fair callers, and a registry that may
\* hang unless a property assumes that it comes back.
SPECIFICATION FairSpec
CONSTANTS
    c1 = c1  c2 = c2  c3 = c3
    w1 = w1
    Calls = {c1, c2, c3}
    Workers = {w1}
    QueueSize = 1
    NoCall = NoCall
INVARIANTS
    NoCallerStranded
    CleanDrainAnswersAll
PROPERTIES
    AdmissionSpec
    CallReturns
    WorkersEnd
