\* One message whose lease expires under a live worker.
SPECIFICATION Spec
CONSTANTS
    w1 = w1
    w2 = w2
    None = None
    Msgs <- MCOneMsg
    Workers <- MCWorkers
    MaxRetryCount = 3
    BatchSize = 1
    LeaseOutlivesBatch = FALSE
    MaxFaults = 0
INVARIANTS
    PendingIsClaimable
