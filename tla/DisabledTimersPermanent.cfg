\* What docs/task_detail.md says of a permanent disable.
SPECIFICATION Spec
CONSTANTS
    backup = backup
    mount = mount
    Timers = {backup, mount}
    Web = {w1, w2}
    SortRank <- MCSortRank
    RegenOrder <- MCRegenOrder
    RESTORE_RETRY_LIMIT = 3
    MaxCrashes = 0
PROPERTY
    PermanentStaysOff
