\* Three calls, one slot, a queue of one, one retry; fair callers, and plugins that
\* may hang unless a property assumes that they end.
SPECIFICATION FairSpec
CONSTANTS
    c1 = c1  c2 = c2  c3 = c3  c4 = c4
    Calls = {c1, c2, c3}
    Slots = 1
    Queue = 1
    MaxRetries = 1
INVARIANTS
    SlotsConserved
    FailuresCounted
PROPERTIES
    AdmissionSpec
    CallReturns
