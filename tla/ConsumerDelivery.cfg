\* Two workers on one channel, one event, every kind of fault: safety and liveness.
SPECIFICATION FairSpec
CONSTANTS
    w1 = w1
    w2 = w2
    e1 = e1
    None = None
    Events <- OneEvent
    Copies <- MCCopies
    Workers <- MCWorkers
    MaxRetries = 1
    PrefetchCount = 2
    ReconnectAttempts = 2
    MaxFaults = 2
INVARIANTS
    NoEventLost
    NoOrphanDelivery
    OneFate
PROPERTIES
    DrainNeverDeadLetters
    EventuallySettled
    SurvivesADrop
CHECK_DEADLOCK FALSE
