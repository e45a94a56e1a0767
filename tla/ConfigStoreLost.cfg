SPECIFICATION Spec
CONSTANTS
    Threads = {t1}
    Managers = {"app"}
    Settings <- MCSettings
    Carried <- MCCarried
    Schedule = "schedule"
    SetupComplete = "setup_complete"
    Nobody = Nobody
    MaxSaves = 3
PROPERTY SavedStaysSaved
CHECK_DEADLOCK FALSE
