\* Three entries, a queue of one, batches of two, one retry; fair senders, and a
\* store that may hang unless a property assumes that it answers.
SPECIFICATION FairSpec
CONSTANTS
    e1 = e1  e2 = e2  e3 = e3  e4 = e4
    Entries = {e1, e2, e3}
    BufferSize = 1
    BatchSize = 2
    MaxSaveRetries = 1
    SendWaits = TRUE
INVARIANTS
    LossesExact
    CleanDrain
PROPERTIES
    EntrySettles
    NobodyWaitsOnTheStore
