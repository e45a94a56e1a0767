------------------------------ MODULE Onboarding ------------------------------
(***************************************************************************)
(* The two ways in which the program becomes ready for use: the setup      *)
(* wizard (routes/setup_wizard.py), whose steps are requests of a browser  *)
(* in any order, and the import of an older installation                   *)
(* (legacy/migration.py), a command run by root.  Both end with the same   *)
(* steps, which write the whole configuration from a copy in memory,       *)
(* install the units, set up the share and mark the setup as complete.     *)
(* Saving the schedule on the Cloud Backup page goes through the first two *)
(* of them as well.  Any of these may fail, or be cut short.               *)
(*                                                                         *)
(* Requests of several tabs overlap; nobody uses the web pages while the   *)
(* import runs.  Users are only added here: UserStore has the rest.        *)
(***************************************************************************)
EXTENDS Naturals

CONSTANTS SetupThreads,  \* threads of the web service that serve a request
          Importer,      \* the process of the import
          SetupNames,    \* user names
          SetupMountPoints,
          Times, DefaultTime,
          MaxSetupMoves  \* bound: completions, schedule saves and imports

ASSUME SetupAssumption == DefaultTime \in Times /\ MaxSetupMoves \in Nat

VARIABLES setupConf,   \* config.conf, as far as the setup asks for it
          users,       \* users.json: every user of this module is an admin
          samba,       \* the users known to Samba
          timers,      \* the backup time the installed timers have, when there are any
          sharedPath,  \* the path of the share "backup", when there is one
          work,        \* what each process is doing
          overlapped,  \* history: two completions or schedule saves were under way at once
          setupMoves

setupVars == <<setupConf, users, samba, timers, sharedPath, work, overlapped, setupMoves>>

Processes == SetupThreads \cup {Importer}

Config == [complete : BOOLEAN, username : SUBSET SetupNames, server : BOOLEAN,
           email : BOOLEAN, drive : SUBSET SetupMountPoints, time : Times]

(* _default_config_parser. *)
DefaultConfig == [complete |-> FALSE, username |-> {}, server |-> FALSE,
                  email |-> FALSE, drive |-> {}, time |-> DefaultTime]

SetupIdle == [kind |-> "none", pc |-> "idle", snap |-> DefaultConfig]

SetupMove == setupMoves < MaxSetupMoves /\ setupMoves' = setupMoves + 1

SetupAt(p, pc) == work[p].pc = pc

SetupGoto(p, pc) == work' = [work EXCEPT ![p].pc = pc]

SetupAnswer(p) == work' = [work EXCEPT ![p] = SetupIdle]

(* A request arrives. *)
Free(t) == SetupAt(t, "idle") /\ SetupAt(Importer, "idle")

(***************************************************************************)
(* The steps of the wizard.                                                *)
(***************************************************************************)
(* The user is made in Samba and in users.json (UserStore), and then named *)
(* as the admin of the server.                                             *)
create_user(t, n) ==
  /\ Free(t) /\ n \notin users
  /\ users' = users \cup {n} /\ samba' = samba \cup {n}
  /\ work' = [work EXCEPT ![t] = [SetupIdle EXCEPT !.kind = "user", !.pc = "username",
                                              !.snap.username = {n}]]
  /\ UNCHANGED <<setupConf, timers, sharedPath, overlapped, setupMoves>>

SaveUsername(t) ==
  /\ SetupAt(t, "username")
  /\ setupConf' = [setupConf EXCEPT !.username = work[t].snap.username]
  /\ SetupAnswer(t)
  /\ UNCHANGED <<users, samba, timers, sharedPath, overlapped, setupMoves>>

SetupSet(t, c) ==
  /\ Free(t)
  /\ setupConf' = c
  /\ UNCHANGED <<users, samba, timers, work, overlapped, setupMoves>>

(* msmtp's configuration is written before. *)
setup_email(t) == SetupSet(t, [setupConf EXCEPT !.email = TRUE]) /\ UNCHANGED sharedPath

setup_system_info(t) == SetupSet(t, [setupConf EXCEPT !.server = TRUE]) /\ UNCHANGED sharedPath

save_schedule(t, time) == SetupSet(t, [setupConf EXCEPT !.time = time]) /\ UNCHANGED sharedPath

(* BackupDrive: all or nothing; a share that exists gets the new path. *)
mount_drive(t, m) ==
  /\ SetupSet(t, [setupConf EXCEPT !.drive = {m}])
  /\ sharedPath' = IF sharedPath = {} THEN {} ELSE {m}

(***************************************************************************)
(* The requests that end in the installation of the units.                 *)
(***************************************************************************)
Writing == \E p \in Processes : work[p].kind \in {"complete", "schedule", "import"}

HasRequired(c) == c.username # {} /\ c.server /\ c.email /\ c.drive # {}

complete_setup(t) ==
  /\ Free(t) /\ SetupMove
  /\ HasRequired(setupConf)
  /\ work' = [work EXCEPT ![t] = [kind |-> "complete", pc |-> "config", snap |-> setupConf]]
  /\ overlapped' = (overlapped \/ Writing)
  /\ UNCHANGED <<setupConf, users, samba, timers, sharedPath>>

(* save_schedule of the Cloud Backup page, which the dashboard leads to    *)
(* when the setup is complete.                                             *)
ChangeSchedule(t, time) ==
  /\ Free(t) /\ SetupMove
  /\ setupConf.complete
  /\ work' = [work EXCEPT ![t] = [kind |-> "schedule", pc |-> "config",
                                  snap |-> [setupConf EXCEPT !.time = time]]]
  /\ overlapped' = (overlapped \/ Writing)
  /\ UNCHANGED <<setupConf, users, samba, timers, sharedPath>>

(* import_legacy_bundle: the bundle has every value the setup asks for.    *)
Imported(n, m, time) == [complete |-> FALSE, username |-> {n}, server |-> TRUE,
                         email |-> TRUE, drive |-> {m}, time |-> time]

ReplaceConfig(n, m, time) ==
  /\ \A p \in Processes : SetupAt(p, "idle")
  /\ SetupMove
  /\ setupConf' = Imported(n, m, time)
  /\ work' = [work EXCEPT ![Importer] = [kind |-> "import", pc |-> "admin", snap |-> setupConf']]
  /\ UNCHANGED <<users, samba, timers, sharedPath, overlapped>>

(* _ensure_admin_user refuses when there are other users. *)
EnsureAdmin ==
  /\ SetupAt(Importer, "admin")
  /\ LET admin == work[Importer].snap.username
     IN \/ /\ users \subseteq admin
           /\ users' = admin /\ samba' = samba \cup admin
           /\ SetupGoto(Importer, "config")
        \/ ~(users \subseteq admin) /\ SetupAnswer(Importer) /\ UNCHANGED <<users, samba>>
  /\ UNCHANGED <<setupConf, timers, sharedPath, overlapped, setupMoves>>

(* create_systemd_config_file writes the copy in memory, without the lock. *)
CreateConfig(p) ==
  /\ SetupAt(p, "config")
  /\ setupConf' = work[p].snap
  /\ SetupGoto(p, "units")
  /\ UNCHANGED <<users, samba, timers, sharedPath, overlapped, setupMoves>>

(* install_systemd_services_and_timers. *)
InstallUnits(p) ==
  /\ SetupAt(p, "units")
  /\ timers' = {work[p].snap.time}
  /\ SetupGoto(p, IF work[p].kind = "schedule" THEN "time" ELSE "share")
  /\ UNCHANGED <<setupConf, users, samba, sharedPath, overlapped, setupMoves>>

SaveTime(t) ==
  /\ SetupAt(t, "time")
  /\ setupConf' = [setupConf EXCEPT !.time = work[t].snap.time]
  /\ SetupAnswer(t)
  /\ UNCHANGED <<users, samba, timers, sharedPath, overlapped, setupMoves>>

\* Mutant: the share is set up whether its user exists or not.
ShareWithoutUser(p) ==
  /\ SetupAt(p, "share")
  /\ sharedPath' = work[p].snap.drive
  /\ SetupGoto(p, "mark")
  /\ UNCHANGED <<setupConf, users, samba, timers, overlapped, setupMoves>>

(* setup_smb_share, _configure_backup_share: for a user that is in         *)
(* users.json and in Samba.                                                *)
SetupShare(p) ==
  /\ SetupAt(p, "share")
  /\ \/ /\ work[p].snap.username \subseteq users \cap samba
        /\ sharedPath' = work[p].snap.drive
        /\ SetupGoto(p, "mark")
     \/ /\ ~(work[p].snap.username \subseteq users \cap samba)
        /\ SetupAnswer(p) /\ UNCHANGED sharedPath
  /\ UNCHANGED <<setupConf, users, samba, timers, overlapped, setupMoves>>

mark_setup_complete(p) ==
  /\ SetupAt(p, "mark")
  /\ setupConf' = [setupConf EXCEPT !.complete = TRUE]
  /\ SetupAnswer(p)
  /\ UNCHANGED <<users, samba, timers, sharedPath, overlapped, setupMoves>>

(* A step fails, which ends the request or the import; or the process is   *)
(* killed.                                                                 *)
StepFails(p) ==
  /\ ~SetupAt(p, "idle")
  /\ SetupAnswer(p)
  /\ UNCHANGED <<setupConf, users, samba, timers, sharedPath, overlapped, setupMoves>>

(***************************************************************************)
(* The specification.                                                      *)
(***************************************************************************)
SetupInit ==
  /\ setupConf = DefaultConfig
  /\ users = {} /\ samba = {} /\ timers = {} /\ sharedPath = {}
  /\ work = [p \in Processes |-> SetupIdle]
  /\ overlapped = FALSE /\ setupMoves = 0

Wizard(t) ==
  \/ \E n \in SetupNames : create_user(t, n)
  \/ SaveUsername(t) \/ setup_email(t) \/ setup_system_info(t)
  \/ \E time \in Times : save_schedule(t, time) \/ ChangeSchedule(t, time)
  \/ \E m \in SetupMountPoints : mount_drive(t, m)
  \/ complete_setup(t) \/ SaveTime(t)

Import ==
  \/ \E n \in SetupNames, m \in SetupMountPoints, time \in Times : ReplaceConfig(n, m, time)
  \/ EnsureAdmin

SetupNext ==
  \/ \E t \in SetupThreads : Wizard(t)
  \/ Import
  \/ \E p \in Processes :
       CreateConfig(p) \/ InstallUnits(p) \/ SetupShare(p) \/ mark_setup_complete(p)
         \/ StepFails(p)

SetupSpec == SetupInit /\ [][SetupNext]_setupVars

(***************************************************************************)
(* Properties.                                                             *)
(***************************************************************************)
(* The type of every variable. *)
SetupTypeOK ==
  /\ setupConf \in Config /\ users \in SUBSET SetupNames /\ samba \in SUBSET SetupNames
  /\ timers \in SUBSET Times /\ sharedPath \in SUBSET SetupMountPoints
  /\ \A p \in Processes :
       /\ work[p].snap \in Config
       /\ work[p].kind \in {"none", "user", "complete", "schedule", "import"}
       /\ work[p].pc \in {"idle", "username", "admin", "config", "units", "time", "share",
                          "mark"}
  /\ overlapped \in BOOLEAN /\ setupMoves \in 0..MaxSetupMoves

(* A setup that is marked as complete is complete: every required value is *)
(* set, the admin it names can log in and is known to Samba, the timers    *)
(* are installed and the share exists, whatever failed before, in whatever *)
(* order the tabs of the wizard worked, and also after an import that was  *)
(* refused and left the name of an admin who does not exist.  (Two         *)
(* completions at once can undo each other: each writes its own copy of    *)
(* the whole configuration.)                                               *)
Ready ==
  setupConf.complete /\ ~overlapped =>
    /\ HasRequired(setupConf)
    /\ setupConf.username \subseteq users \cap samba
    /\ timers # {} /\ sharedPath # {}
=============================================================================
