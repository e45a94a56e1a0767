SPECIFICATION Spec
CONSTANTS
    Threads = {t1, t2, t3}
    Managers = {"app", "wizard"}
    Settings <- MCSettings
    Carried <- MCCarried
    Schedule = "schedule"
    SetupComplete = "setup_complete"
    Nobody = Nobody
    MaxSaves = 2
SYMMETRY Symmetry
INVARIANTS
    TypeOK
    LockedSavesStand
    ReadsOwnSaves
CHECK_DEADLOCK FALSE
