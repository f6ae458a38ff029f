SPECIFICATION Spec
CONSTANTS
    u1 = u1
    u2 = u2
    u3 = u3
    q1 = q1
    q2 = q2
    Users <- MCUsers
    Requests <- MCRequests
    NoUser = NoUser
    AdminCount = 1
    MaxStarts = 3
    MaxFaults = 1
    MaxOverlap = 2
SYMMETRY MCSymmetry
PROPERTY
    RemovalKeepsAnOwner
\* The last request leaves nothing to do.
CHECK_DEADLOCK FALSE
