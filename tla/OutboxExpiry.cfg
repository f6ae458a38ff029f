\* Leases may expire under a live worker: two messages, two workers.
SPECIFICATION Spec
CONSTANTS
    w1 = w1
    w2 = w2
    None = None
    Msgs <- MCMsgs
    Workers <- MCWorkers
    MaxRetryCount = 3
    BatchSize = 2
    LeaseOutlivesBatch = FALSE
    MaxFaults = 1
SYMMETRY Symmetry
INVARIANTS
    IndInv
    SentOnlyIfDelivered
    FailedOnlyAtLimit
PROPERTIES
    SettledIsFinal
    KeepsPromise
