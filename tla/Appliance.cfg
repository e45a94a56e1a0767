\* Two threads of the web service, and the bounds of each part in turn.
SPECIFICATION MCSpec
CONSTANTS
    Admins = {a1, a2}
    Retention = 3
    MaxEvents = 7

    Workers = {t1, t2}
    Names = {"backup", "docs"}
    Paths = {"p1", "p2"}
    UserLists = {"u1"}
    AdminNames = {"docs"}
    MaxRequests = 2

    Drives = {"d1", "d2"}
    MountPoints = {"m1", "m2"}
    Uuids = {"u1", "u2", "u3"}
    NoUuid = "none"
    DriveUuid <- DriveUuids
    InitialDrive = "d1"
    DefaultMountPoint = "m1"
    Within = {}
    MaxDriveMoves = 2

    HealthThreads = {t1, t2}
    Healths = {80, 90}
    NoHealth = 101
    MaxTime = 3
    MaxHealthMoves = 3

    SetupThreads = {t1, t2}
    Importer = imp
    SetupNames = {"ann", "bob"}
    SetupMountPoints = {"m1"}
    Times = {"03:00", "04:00"}
    DefaultTime = "03:00"
    MaxSetupMoves = 3

    Emails = {"e1", "e2"}
    Passwords = {"p1", "p2"}
    Folders = {"f1"}
    Remotes = {"r1"}
    Blank = ""
    MaxCloudRequests = 4

    Hosts = {"nas", "box", "pi"}
    NoName = ""
    MaxNameMoves = 3

    Requests = {t1, t2}
    MaxRuns = 3
    MaxStops = 3
SYMMETRY Symmetry
CHECK_DEADLOCK FALSE
INVARIANTS
    PartsTyped
    NewestAreKept
    IncludesExist
    Served
    Agree
    AllOrNothing
    SharingReturns
    LatestShown
    Ready
    BackupUsesSettings
    NamesAgree
    RunsAlone
PROPERTIES
    MarksWhatWasOpened
    AtomicShares
    RightDrive
    NoChangeMissed
