SPECIFICATION Spec
CONSTANTS
    q1 = q1
    q2 = q2
    u1 = u1
    w1 = w1
    NoUser = NoUser
    Nil = Nil
    Requests <- MCRequests
    Users <- MCUsers
    Titles <- MCTitles
    Queries <- CollidingQueries
    DeleteWorkers <- MCDeleteWorkers
    ChanSize = 1
    MaxRetryAttempts = 2
    MaxStarts = 2
    MaxOverlap = 1
    MaxFaults = 0
SYMMETRY Symmetry
INVARIANT
    PageAnswersQuery
CHECK_DEADLOCK FALSE
