\* Two request threads, two users, two requests, one fault.
SPECIFICATION Spec
CONSTANTS
    Threads = {t1, t2}
    Users = {u1, u2}
    Passwords = {p1, p2}
    None = None
    LIMIT = 2
    MaxRequests = 2
    MaxFaults = 1
SYMMETRY Symmetry
INVARIANTS
    TypeOK
    AdminRemains
    SameCredentials
PROPERTY UsersComeAndGo
CHECK_DEADLOCK FALSE
