------------------------------ MODULE MCAppUpdates ------------------------------
(* Instances of AppUpdates: two branches of the origin.                      *)
EXTENDS AppUpdates

CONSTANTS main, dev

MCBranches == {main, dev}

=============================================================================
