SPECIFICATION Spec
CONSTANTS
    q1 = q1
    q2 = q2
    u1 = u1
    w1 = w1
    NoUser = NoUser
    Nil = Nil
    Requests <- MCRequests
    Users <- MCUsers
    Titles <- MCTitles
    Queries <- MCQueries
    DeleteWorkers <- MCDeleteWorkers
    ChanSize = 1
    MaxRetryAttempts = 2
    MaxStarts = 3
    MaxOverlap = 2
    MaxFaults = 3
SYMMETRY Symmetry
INVARIANTS
    CurrentPageIsFresh
    StaleIsTraceable
    DeletionsAreGivenUpLate
    DoneHasTimes
CHECK_DEADLOCK FALSE
