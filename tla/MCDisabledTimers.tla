--------------------------- MODULE MCDisabledTimers ---------------------------
(* A small instance of DisabledTimers for TLC: two timers, whose places in *)
(* the restore pass and in regeneration are opposite.                      *)
EXTENDS DisabledTimers, TLC

CONSTANTS backup, mount

MCSortRank == [t \in Timers |-> IF t = backup THEN 1 ELSE 2]
MCRegenOrder == <<mount, backup>>
Symmetry == Permutations(Web)

=============================================================================
