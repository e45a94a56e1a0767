\* Three processes, three calls, two power cuts.  The run ends when all calls are made.
SPECIFICATION FileSpec
CONSTANTS
    p1 = p1
    p2 = p2
    p3 = p3
    u1 = u1
    u2 = u2
    u3 = u3
    Procs <- MCProcs
    Updates <- MCUpdates
    NoHolder = nobody
    MaxPowerCuts = 2
INVARIANTS
    FileTypeOK
    AckedSurvive
PROPERTIES
    RefinesAtomicFile
    LockIsGranted
CHECK_DEADLOCK FALSE
