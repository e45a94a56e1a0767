\* One web thread, the restore helper and two timers: liveness.
SPECIFICATION Spec
CONSTANTS
    backup = backup
    mount = mount
    Timers = {backup, mount}
    Web = {w1}
    SortRank <- MCSortRank
    RegenOrder <- MCRegenOrder
    RESTORE_RETRY_LIMIT = 2
    MaxCrashes = 1
PROPERTY
    ExpiredIsResolved
