SPECIFICATION Spec
CONSTANTS
    r1 = r1
    r2 = r2
    u1 = u1
    u2 = u2
    u3 = u3
    t1 = t1
    t2 = t2
    None = None
    Miss = Miss
    First = First
    FirstTask = t1
    FirstAuthor = u2
    Requests = {r1, r2}
    Users = {u1, u2, u3}
    Tasks = {t1, t2}
    CreatorOf <- OneCreator
    Managers = {u1}
    Nameless = {u3}
    MaxFaults = 1
SYMMETRY Symmetric
INVARIANTS
    RemovedOnce
    HeardOnce
    ToldIsCurrent
