----------------------------- MODULE MCAppliance -----------------------------
(***************************************************************************)
(* The parts of the program that share no state in these models, checked   *)
(* in one run: which part is explored is fixed at the start, and the       *)
(* others stay in their initial state, so that TLC visits the sum of their *)
(* states instead of the product.  The parts are the alert list, the       *)
(* shares, the backup drive, drive health, the onboarding, the cloud       *)
(* destination, the server name and the tasks of fake mode.                *)
(***************************************************************************)
EXTENDS AlertStore, SambaShares, BackupDrive, DriveHealth, Onboarding, CloudSettings,
        ServerName, FakeTasks, TLC

VARIABLE part

(* Two drives with file systems of different UUIDs; the third one is what  *)
(* a new file system gets.                                                 *)
DriveUuids == [d \in {"d1", "d2"} |-> IF d = "d2" THEN "u2" ELSE "u1"]

Parts == {"alerts", "shares", "drive", "health", "setup", "cloud", "name", "tasks"}

MCInit ==
  /\ part \in Parts
  /\ AlertInit
  /\ Init /\ (part # "shares" => main.admin = {} /\ ~orderly)
  /\ DriveInit /\ (part # "drive" => fstab = {})
  /\ HealthInit /\ (part # "health" => health = 90)
  /\ SetupInit
  /\ CloudInit
  /\ NameInit /\ (part # "name" => hostname = "nas")
  /\ TaskInit

(* A step of one part leaves the others alone. *)
Only(p) ==
  /\ part = p /\ UNCHANGED part
  /\ p # "alerts" => UNCHANGED alertVars
  /\ p # "shares" => UNCHANGED vars
  /\ p # "drive" => UNCHANGED driveVars
  /\ p # "health" => UNCHANGED healthVars
  /\ p # "setup" => UNCHANGED setupVars
  /\ p # "cloud" => UNCHANGED cloudVars
  /\ p # "name" => UNCHANGED nameVars
  /\ p # "tasks" => UNCHANGED taskVars

MCNext ==
  \/ Only("alerts") /\ AlertNext
  \/ Only("shares") /\ Next
  \/ Only("drive") /\ DriveNext
  \/ Only("health") /\ HealthNext
  \/ Only("setup") /\ SetupNext
  \/ Only("cloud") /\ CloudNext
  \/ Only("name") /\ NameNext
  \/ Only("tasks") /\ TaskNext

MCVars ==
  <<part, alertVars, vars, driveVars, healthVars, setupVars, cloudVars, nameVars, taskVars>>

MCSpec == MCInit /\ [][MCNext]_MCVars

Symmetry == Permutations(Admins) \cup Permutations(Workers)

(* Every variable of every part has its type. *)
PartsTyped ==
  /\ part \in Parts /\ AlertTypeOK /\ TypeOK
  /\ DriveTypeOK /\ HealthTypeOK /\ SetupTypeOK
  /\ CloudTypeOK /\ NameTypeOK /\ TaskTypeOK

=============================================================================
