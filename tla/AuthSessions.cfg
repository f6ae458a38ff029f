\* Two logins, two refreshes and a logout of one user, and an expiry.
SPECIFICATION Spec
CONSTANTS
    in1 = in1
    in2 = in2
    re1 = re1
    re2 = re2
    out1 = out1
    None = None
    Logins <- MCLogins
    Refreshes <- MCRefreshes
    Logouts <- MCLogouts
    TxMaxRetry = 3
    MaxExpiries = 1
SYMMETRY Symmetry
INVARIANTS
    IndInv
    OneRefreshToken
    RefreshIsSingleUse
    LogoutIsFinal
    ConflictsAreOthers
CHECK_DEADLOCK FALSE
