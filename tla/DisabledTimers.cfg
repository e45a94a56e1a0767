\* Two web threads and the restore helper on two timers.
SPECIFICATION Spec
CONSTANTS
    backup = backup
    mount = mount
    Timers = {backup, mount}
    Web = {w1, w2}
    SortRank <- MCSortRank
    RegenOrder <- MCRegenOrder
    RESTORE_RETRY_LIMIT = 2
    MaxCrashes = 1
SYMMETRY Symmetry
INVARIANTS
    TypeOK
    Agreement
    AlertNotEarly
