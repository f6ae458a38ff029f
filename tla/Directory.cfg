SPECIFICATION Spec
CONSTANTS
    p1 = p1
    p2 = p2
    u1 = u1
    r1 = r1
    r2 = r2
    NoEntry = NoEntry
    Projects = {p1, p2}
    Users = {u1}
    Readers = {r1, r2}
    IDsTTL = 2
    PageTTL = 1
    BriefTTL = 3
    Old = 3
    MaxChanges = 2
SYMMETRY Symmetric
INVARIANTS
    StaleOnlySoLong
