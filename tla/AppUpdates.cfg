\* One administrator, two branches, one commit pushed and one made locally, one request, one fault.
SPECIFICATION Spec
CONSTANTS
    Admins = {a1}
    main = main
    dev = dev
    Branches <- MCBranches
    Main = main
    Changes = {c1}
    Own = {d1}
    Gone = Gone
    Pinned = Pinned
    MaxRequests = 1
    MaxFaults = 1
INVARIANTS
    TypeOK
    OncePerRequest
PROPERTIES
    CommitsSurvive
    UpdatesArrive
