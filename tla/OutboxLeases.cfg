\* Leases outlive batches: two messages, two workers, liveness included.
SPECIFICATION FairSpec
CONSTANTS
    w1 = w1
    w2 = w2
    None = None
    Msgs <- MCMsgs
    Workers <- MCWorkers
    MaxRetryCount = 2
    BatchSize = 1
    LeaseOutlivesBatch = TRUE
    MaxFaults = 1
INVARIANTS
    PendingIsClaimable
    OneHolder
PROPERTIES
    EventuallySettled
