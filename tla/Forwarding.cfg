\* Publisher, life cycle and connections, each by itself: safety and liveness.
SPECIFICATION MCSpec
CONSTANTS
    c1 = c1
    c2 = c2
    p1 = p1
    p2 = p2
    p3 = p3
    u1 = u1
    m1 = m1
    m2 = m2
    None = None
    NoCall = NoCall
    Calls <- MCCalls
    Unroutable <- MCUnroutable
    Attempts = 3
    MaxFaults = 2
    MaxStarts = 2
    MaxFailures = 2
    Clients <- MCClients
    Users <- MCUsers
    UserOf <- MCUserOf
    Msgs <- MCMsgs
    Receiver <- MCReceiver
    SendBufferSize = 1
INVARIANTS
    OutcomeIsHonest
    OneCopyPerCall
    OrderlyShutdown
    ConnectionsAreTracked
PROPERTIES
    PublishReturns
    CloseCompletes
    LostClientsLeave
\* Everything may be published, closed and disconnected.
CHECK_DEADLOCK FALSE
