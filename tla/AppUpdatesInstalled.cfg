\* Nobody uses the page; the timer, two branches, one commit pushed, one fault.
SPECIFICATION Spec
CONSTANTS
    Admins = {a1}
    main = main
    dev = dev
    Branches <- MCBranches
    Main = main
    Changes = {c1}
    Own = {}
    Gone = Gone
    Pinned = Pinned
    MaxRequests = 0
    MaxFaults = 1
PROPERTY PulledIsInstalled
