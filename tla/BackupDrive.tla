---------------------------- MODULE BackupDrive ----------------------------
(***************************************************************************)
(* The backup drive: its configuration (services/backup_drive_setup.py),   *)
(* its removal (services/backup_drive_unmount.py), the mount button        *)
(* (services/storage_service.py), formatting (routes/setup_wizard.py), the *)
(* other writers of its share and configuration (the Network File Sharing  *)
(* page, the end of the wizard, the legacy import), and the two scheduled  *)
(* scripts that use the drive: check_mount.sh, which mounts it again, and  *)
(* backup_cloud.sh, whose rclone reads there.                              *)
(*                                                                         *)
(* One administrator works with the drive: there is one request, or one    *)
(* import, at a time.                                                      *)
(* The scripts run by timers, at any moment.  The share "backup" is the    *)
(* only one that matters here, and changing it is one step that fails      *)
(* without effect: SambaShares shows this.  A drive is a partition; a USB  *)
(* identifier names a drive.                                               *)
(***************************************************************************)
EXTENDS Naturals, SequencesExt

CONSTANTS Drives, MountPoints, Uuids, NoUuid,
          DriveUuid,        \* the UUID of each drive at the start: clones share one
          InitialDrive, DefaultMountPoint,
          Within,           \* pairs of mount points whose first occurs in the second's name
          MaxDriveMoves     \* bound: requests, failures of their steps, drives pulled out or
                            \* mounted, and power cuts, all together

ASSUME DriveAssumption ==
  /\ DriveUuid \in [Drives -> Uuids] /\ NoUuid \notin Uuids
  /\ InitialDrive \in Drives /\ DefaultMountPoint \in MountPoints
  /\ MaxDriveMoves \in Nat

VARIABLES uuid,         \* the UUID on each drive
          plugged,      \* the drives that are connected
          mounts,       \* the mount table, oldest first
          fstab,        \* the managed entry of /etc/fstab: at most one
          units,        \* the entry systemd has generated its mount unit from
          driveConf,    \* [backup] mount_point, uuid, usb_id
          driveShare,   \* the path of the share "backup", when there is one
          smb,          \* whether smbd and nmbd run
          driveWeb,     \* the request in progress
          chk,          \* check_mount.service
          bak,          \* backup_cloud.service
          driveTorn,    \* setup, unmount: one was cut short, or its clean-up failed;
                        \* import, share: the configuration was imported, the share edited,
                        \* since the last setup
          driveMoves    \* how many of the bounded moves there were

driveStore == <<fstab, units, driveConf, driveShare>>
disks == <<uuid, plugged, mounts>>
jobs == <<chk, bak>>
driveVars == <<uuid, plugged, mounts, fstab, units, driveConf, driveShare, smb, driveWeb,
               chk, bak, driveTorn, driveMoves>>

Entry == [uuid : Uuids, mp : MountPoints]

DriveIdle == [kind |-> "none", pc |-> "idle"]

IsAt(pc) == driveWeb.pc = pc

DriveGoto(pc) == driveWeb' = [driveWeb EXCEPT !.pc = pc]

Finish == driveWeb' = DriveIdle

(***************************************************************************)
(* The mount table.  A mount whose drive was pulled out is no longer live: *)
(* it stays in the table and every access to it is an I/O error.           *)
(***************************************************************************)
Mount(d, m) == mounts' = Append(mounts, [dev |-> d, mp |-> m, live |-> TRUE])

IsMounted(d) == \E i \in DOMAIN mounts : mounts[i].dev = d /\ mounts[i].live

(* What a mount point shows: the last mount there, if any. *)
Top(m) ==
  LET here == {i \in DOMAIN mounts : mounts[i].mp = m}
  IN {i \in here : \A k \in here : k <= i}

Shown(m) == {mounts[i] : i \in Top(m)}

(* umount fails while rclone reads there. *)
Unmountable(m) == Shown(m) # {} /\ ~(bak.pc = "copying" /\ bak.mp = m)

Unmount(m) == \E i \in Top(m) : mounts' = RemoveAt(mounts, i)

WithUuid(u) == {d \in plugged : uuid[d] = u}

(***************************************************************************)
(* apply_backup_drive_configuration.                                       *)
(***************************************************************************)
(* The checks: the partition is not mounted, it is the only one with its   *)
(* UUID, and it is NTFS (every drive of the model is).  Every caller asks  *)
(* for the drive to be mounted at boot.                                    *)
AskSetup(d, m) ==
  /\ IsAt("idle") /\ driveMoves < MaxDriveMoves
  /\ d \in plugged /\ ~IsMounted(d) /\ uuid[d] # NoUuid /\ WithUuid(uuid[d]) = {d}
  /\ driveWeb' = [kind |-> "setup", pc |-> "fstab", dev |-> d, mp |-> m, uuid |-> uuid[d],
                  prev |-> driveConf, backup |-> {}, oldShare |-> {}, mounted |-> FALSE,
                  confSet |-> FALSE, before |-> <<fstab, driveConf, driveShare>>]
  /\ driveMoves' = driveMoves + 1
  /\ UNCHANGED <<disks, driveStore, smb, jobs, driveTorn>>

Mutable == <<disks, driveStore, smb, jobs>>

(* The step of the request at pc fails, which sends it to next. *)
FaultAt(pc, next) ==
  /\ IsAt(pc) /\ driveMoves < MaxDriveMoves
  /\ DriveGoto(next)
  /\ driveMoves' = driveMoves + 1
  /\ UNCHANGED Mutable

Fails(pc, next) == FaultAt(pc, next) /\ UNCHANGED driveTorn

(* update_managed_fstab: the managed line is replaced, or added.  A copy   *)
(* of the old file is kept for the rollback.                               *)
WriteFstab ==
  /\ IsAt("fstab")
  /\ fstab' = {[uuid |-> driveWeb.uuid, mp |-> driveWeb.mp]}
  /\ driveWeb' = [driveWeb EXCEPT !.pc = "reload", !.backup = fstab]
  /\ UNCHANGED <<disks, units, driveConf, driveShare, smb, jobs, driveTorn, driveMoves>>

(* systemctl daemon-reload. *)
ReloadUnits ==
  /\ IsAt("reload")
  /\ units' = fstab
  /\ DriveGoto("mount")
  /\ UNCHANGED <<disks, fstab, driveConf, driveShare, smb, jobs, driveTorn, driveMoves>>

MountNtfs ==
  /\ IsAt("mount")
  /\ driveWeb.dev \in plugged /\ ~IsMounted(driveWeb.dev)
  /\ Mount(driveWeb.dev, driveWeb.mp)
  /\ driveWeb' = [driveWeb EXCEPT !.pc = "share", !.mounted = TRUE]
  /\ UNCHANGED <<uuid, plugged, driveStore, smb, jobs, driveTorn, driveMoves>>

(* check_mount.sh has mounted the partition meanwhile, or it is gone. *)
MountRefused ==
  /\ IsAt("mount")
  /\ driveWeb.dev \notin plugged \/ IsMounted(driveWeb.dev)
  /\ DriveGoto("undoMount")
  /\ UNCHANGED <<Mutable, driveTorn, driveMoves>>

ReplaceSharePath ==
  /\ IsAt("share")
  /\ driveShare' = IF driveShare = {} THEN {} ELSE {driveWeb.mp}
  /\ driveWeb' = [driveWeb EXCEPT !.pc = "confMp", !.confSet = TRUE,
                                  !.oldShare = IF driveShare = {driveWeb.mp} THEN {} ELSE driveShare]
  /\ UNCHANGED <<disks, fstab, units, driveConf, smb, jobs, driveTorn, driveMoves>>

SetConf(pc, next, c) ==
  /\ IsAt(pc)
  /\ driveConf' = c
  /\ driveWeb' = IF next = "idle" THEN DriveIdle ELSE [driveWeb EXCEPT !.pc = next]
  /\ driveTorn' = IF next = "idle" THEN driveTorn \ {"setup", "import", "share"} ELSE driveTorn
  /\ UNCHANGED <<disks, fstab, units, driveShare, smb, jobs, driveMoves>>

\* Mutant: the UUID of the new drive is not saved.
UuidNotSaved ==
  \/ SetConf("confMp", "confUsb", [driveConf EXCEPT !.mp = driveWeb.mp])
  \/ SetConf("confUsb", "idle", [driveConf EXCEPT !.usb = {driveWeb.dev}])

SetConfigValues ==
  \/ SetConf("confMp", "confUuid", [driveConf EXCEPT !.mp = driveWeb.mp])
  \/ SetConf("confUuid", "confUsb", [driveConf EXCEPT !.uuid = driveWeb.uuid])
  \/ SetConf("confUsb", "idle", [driveConf EXCEPT !.usb = {driveWeb.dev}])

SetupStepFails ==
  \/ Fails("fstab", "failed")
  \/ \E pc \in {"reload", "mount", "share", "confMp", "confUuid", "confUsb"} :
       Fails(pc, "undoMount")

(***************************************************************************)
(* The rollback of the setup: unmount, fstab, units, share, configuration. *)
(***************************************************************************)
(* cleanup_unmount ignores the exit status of umount. *)
UndoMount ==
  /\ IsAt("undoMount")
  /\ IF driveWeb.mounted /\ Unmountable(driveWeb.mp) THEN Unmount(driveWeb.mp)
     ELSE UNCHANGED mounts
  /\ DriveGoto("undoFstab")
  /\ UNCHANGED <<uuid, plugged, driveStore, smb, jobs, driveTorn, driveMoves>>

UndoFstab ==
  /\ IsAt("undoFstab")
  /\ fstab' = driveWeb.backup
  /\ DriveGoto("undoReload")
  /\ UNCHANGED <<disks, units, driveConf, driveShare, smb, jobs, driveTorn, driveMoves>>

UndoReload ==
  /\ IsAt("undoReload")
  /\ units' = fstab
  /\ DriveGoto("undoShare")
  /\ UNCHANGED <<disks, fstab, driveConf, driveShare, smb, jobs, driveTorn, driveMoves>>

\* Mutant: the configuration is not restored.
ShareOnly == "failed"

AfterShare == IF driveWeb.confSet THEN "undoMp" ELSE "failed"

UndoShare ==
  /\ IsAt("undoShare")
  /\ driveShare' = IF driveWeb.oldShare = {} THEN driveShare ELSE driveWeb.oldShare
  /\ DriveGoto(AfterShare)
  /\ UNCHANGED <<disks, fstab, units, driveConf, smb, jobs, driveTorn, driveMoves>>

UndoConfig ==
  \/ SetConf("undoMp", "undoUuid", [driveConf EXCEPT !.mp = driveWeb.prev.mp])
  \/ SetConf("undoUuid", "undoUsb", [driveConf EXCEPT !.uuid = driveWeb.prev.uuid])
  \/ SetConf("undoUsb", "failed", [driveConf EXCEPT !.usb = driveWeb.prev.usb])

(* An umount that times out, and a failure to copy fstab back or to reload *)
(* the units, raise again, out of the handler, which skips what is left to *)
(* undo; a failure to restore the share or the configuration is logged.    *)
RollbackFails ==
  /\ \/ \E pc \in {"undoMount", "undoFstab", "undoReload", "undoMp", "undoUuid", "undoUsb"} :
          FaultAt(pc, "failed")
     \/ FaultAt("undoShare", AfterShare)
  /\ driveTorn' = driveTorn \cup {"setup"}

(***************************************************************************)
(* unmount_managed_backup_drive, behind the dashboard button, the Drive    *)
(* Health page (for the partition mounted at the configured mount point)   *)
(* and the retry of the wizard.                                            *)
(***************************************************************************)
AskUnmount ==
  /\ IsAt("idle") /\ driveMoves < MaxDriveMoves
  /\ driveWeb' = [kind |-> "unmount", pc |-> "stopCheck", mp |-> driveConf.mp]
  /\ driveMoves' = driveMoves + 1
  /\ UNCHANGED <<disks, driveStore, smb, jobs, driveTorn>>

StopCheck ==
  /\ IsAt("stopCheck")
  /\ chk' = DriveIdle
  /\ DriveGoto("stopBackup")
  /\ UNCHANGED <<disks, driveStore, smb, bak, driveTorn, driveMoves>>

StopBackup ==
  /\ IsAt("stopBackup")
  /\ bak' = DriveIdle
  /\ DriveGoto("stopSmb")
  /\ UNCHANGED <<disks, driveStore, smb, chk, driveTorn, driveMoves>>

StopSmb ==
  /\ IsAt("stopSmb")
  /\ smb' = FALSE
  /\ DriveGoto("umount")
  /\ UNCHANGED <<disks, driveStore, jobs, driveTorn, driveMoves>>

(* A systemctl that takes longer than its timeout raises, and the request  *)
(* is over; systemd stops the unit all the same.                           *)
StopTimesOut ==
  \/ \E pc \in {"stopCheck", "stopBackup"} : Fails(pc, "failed")
  \/ /\ IsAt("stopSmb") /\ driveMoves < MaxDriveMoves
     /\ smb' = FALSE
     /\ driveTorn' = driveTorn \cup {"unmount"}
     /\ DriveGoto("failed")
     /\ driveMoves' = driveMoves + 1
     /\ UNCHANGED <<disks, driveStore, jobs>>

(* Whether umount succeeds or not, smbd and nmbd are started after it. *)
Umount ==
  /\ IsAt("umount")
  /\ \/ Unmountable(driveWeb.mp) /\ Unmount(driveWeb.mp)
        /\ \E next \in {"powerDown", "startSmb"} : DriveGoto(next)
     \/ ~Unmountable(driveWeb.mp) /\ DriveGoto("startSmb") /\ UNCHANGED mounts
  /\ UNCHANGED <<uuid, plugged, driveStore, smb, jobs, driveTorn, driveMoves>>

(* The dashboard also puts the configured drive into standby, from which   *)
(* any access wakes it; a failure is only logged.                          *)
PowerDown ==
  /\ IsAt("powerDown")
  /\ DriveGoto("startSmb")
  /\ UNCHANGED <<Mutable, driveTorn, driveMoves>>

\* Mutant: the start of smbd and nmbd is not in a finally.
UmountRaises == Fails("umount", "failed")

UmountFails == Fails("umount", "startSmb")

(* systemctl start failed or timed out: the exception is suppressed. *)
StartSmbFails ==
  /\ FaultAt("startSmb", "failed")
  /\ driveTorn' = driveTorn \cup {"unmount"}

StartSmb ==
  /\ IsAt("startSmb")
  /\ smb' = TRUE /\ driveTorn' = driveTorn \ {"unmount"}
  /\ Finish
  /\ UNCHANGED <<disks, driveStore, jobs, driveMoves>>

(* unmount_selected_partition, unmount_disk_partitions: one umount. *)
UnmountPartition(d) ==
  /\ IsAt("idle") /\ driveMoves < MaxDriveMoves
  /\ \E i \in DOMAIN mounts :
       /\ mounts[i].dev = d /\ mounts[i].live
       /\ mounts[i] \in Shown(mounts[i].mp) /\ Unmountable(mounts[i].mp)
       /\ Unmount(mounts[i].mp)
  /\ driveMoves' = driveMoves + 1
  /\ UNCHANGED <<uuid, plugged, driveStore, smb, driveWeb, jobs, driveTorn>>

(***************************************************************************)
(* format_drive: refused while a partition of the disk is mounted.  sfdisk *)
(* erases the disk, unless it is in use by then, and mkfs.ntfs makes a     *)
(* file system with a UUID nobody has seen; in between there is none.      *)
(***************************************************************************)
AskFormat(d) ==
  /\ IsAt("idle") /\ driveMoves < MaxDriveMoves
  /\ d \in plugged /\ ~IsMounted(d)
  /\ driveWeb' = [kind |-> "format", pc |-> "erase", dev |-> d]
  /\ driveMoves' = driveMoves + 1
  /\ UNCHANGED <<disks, driveStore, smb, jobs, driveTorn>>

EraseDisk ==
  /\ IsAt("erase")
  /\ \/ /\ driveWeb.dev \in plugged /\ ~IsMounted(driveWeb.dev)
        /\ uuid' = [uuid EXCEPT ![driveWeb.dev] = NoUuid]
        /\ DriveGoto("mkfs")
     \/ /\ driveWeb.dev \notin plugged \/ IsMounted(driveWeb.dev)
        /\ DriveGoto("failed") /\ UNCHANGED uuid
  /\ UNCHANGED <<plugged, mounts, driveStore, smb, jobs, driveTorn, driveMoves>>

MakeFileSystem ==
  /\ IsAt("mkfs") /\ driveWeb.dev \in plugged
  /\ \E u \in Uuids : /\ \A d \in Drives : uuid[d] # u /\ DriveUuid[d] # u
                      /\ uuid' = [uuid EXCEPT ![driveWeb.dev] = u]
  /\ Finish
  /\ UNCHANGED <<plugged, mounts, driveStore, smb, jobs, driveTorn, driveMoves>>

(* sfdisk or mkfs.ntfs fails, or the partition does not appear in time. *)
FormatFails == \E pc \in {"erase", "mkfs"} : Fails(pc, "failed")

(***************************************************************************)
(* The other writers.                                                      *)
(***************************************************************************)
(* The Network File Sharing page creates, edits or deletes "backup".       *)
EditShare ==
  /\ IsAt("idle") /\ driveMoves < MaxDriveMoves
  /\ \E paths \in {{}} \cup {{m} : m \in MountPoints} : driveShare' = paths
  /\ driveTorn' = driveTorn \cup {"share"}
  /\ driveMoves' = driveMoves + 1
  /\ UNCHANGED <<disks, fstab, units, driveConf, smb, driveWeb, jobs>>

(* complete_setup: setup_smb_share points "backup" at the configured mount *)
(* point, or creates it.                                                   *)
CompleteShare ==
  /\ IsAt("idle") /\ driveMoves < MaxDriveMoves
  /\ driveConf.uuid # NoUuid
  /\ driveShare' = {driveConf.mp}
  /\ driveTorn' = driveTorn \ {"share"}
  /\ driveMoves' = driveMoves + 1
  /\ UNCHANGED <<disks, fstab, units, driveConf, smb, driveWeb, jobs>>

(* import_legacy_bundle replaces the whole configuration; /etc/fstab stays *)
(* as it is.                                                               *)
ImportConfig ==
  /\ IsAt("idle") /\ driveMoves < MaxDriveMoves
  /\ \E m \in MountPoints, u \in Uuids, usb \in {{}} \cup {{d} : d \in Drives} :
       driveConf' = [mp |-> m, uuid |-> u, usb |-> usb]
  /\ driveWeb' = [kind |-> "import", pc |-> "importShare"]
  /\ driveTorn' = driveTorn \cup {"import", "share"}
  /\ driveMoves' = driveMoves + 1
  /\ UNCHANGED <<disks, fstab, units, driveShare, smb, jobs>>

(* _configure_backup_share, once the other files and the tasks are there.  *)
ImportShare ==
  /\ IsAt("importShare")
  /\ driveShare' = {driveConf.mp}
  /\ driveTorn' = driveTorn \ {"share"}
  /\ Finish
  /\ UNCHANGED <<disks, fstab, units, driveConf, smb, jobs, driveMoves>>

ImportFails == Fails("importShare", "failed")

(***************************************************************************)
(* What the two scripts look at first, in the step that starts them:       *)
(* lsusb, when a USB identifier is configured; and /proc/mounts, where grep *)
(* looks for the mount point anywhere in a line, and ls, which fails on a  *)
(* mount that is not live.                                                 *)
(***************************************************************************)
UsbFound == driveConf.usb \subseteq plugged

LooksMounted(m) ==
  /\ \E i \in DOMAIN mounts : mounts[i].mp = m \/ <<m, mounts[i].mp>> \in Within
  /\ \A x \in Shown(m) : x.live

(***************************************************************************)
(* mount_dashboard_drive.                                                  *)
(***************************************************************************)
AskMount ==
  /\ IsAt("idle") /\ driveMoves < MaxDriveMoves
  /\ driveConf.uuid # NoUuid
  /\ \E d \in Drives :
       /\ WithUuid(driveConf.uuid) = {d}
       /\ driveWeb' = [kind |-> "mount", pc |-> "entry", dev |-> d, mp |-> driveConf.mp,
                       uuid |-> driveConf.uuid, mounted |-> FALSE]
  /\ driveMoves' = driveMoves + 1
  /\ UNCHANGED <<disks, driveStore, smb, jobs, driveTorn>>

EntryHere == {e \in fstab : e.mp = driveWeb.mp}

\* Mutant: a managed entry is trusted whatever its UUID.
EntryTrusted ==
  /\ IsAt("entry")
  /\ \/ EntryHere = {} /\ DriveGoto("mountDevice")
     \/ EntryHere # {} /\ DriveGoto("mountManaged")
  /\ UNCHANGED <<Mutable, driveTorn, driveMoves>>

(* The managed entry decides how to mount, and a managed entry for another *)
(* UUID is refused.                                                        *)
CheckEntry ==
  /\ IsAt("entry")
  /\ \/ EntryHere = {} /\ DriveGoto("mountDevice")
     \/ EntryHere # {} /\ (\A e \in EntryHere : e.uuid = driveWeb.uuid)
        /\ DriveGoto("mountManaged")
     \/ (\E e \in EntryHere : e.uuid # driveWeb.uuid) /\ Finish
  /\ UNCHANGED <<Mutable, driveTorn, driveMoves>>

(* mount <mount point>: /etc/fstab tells which drive; or mount <device>. *)
MountDrive ==
  /\ \E d \in plugged :
       /\ \/ IsAt("mountManaged") /\ (\E e \in EntryHere : uuid[d] = e.uuid)
          \/ IsAt("mountDevice") /\ d = driveWeb.dev
       /\ ~IsMounted(d)
       /\ Mount(d, driveWeb.mp)
  /\ driveWeb' = [driveWeb EXCEPT !.pc = "startCheck", !.mounted = TRUE]
  /\ UNCHANGED <<uuid, plugged, driveStore, smb, jobs, driveTorn, driveMoves>>

MountDriveFails ==
  /\ driveWeb.pc \in {"mountManaged", "mountDevice"}
  /\ DriveGoto("failed")
  /\ UNCHANGED <<Mutable, driveTorn, driveMoves>>

(* The units are started in turn.  check_mount and backup_cloud are        *)
(* oneshot: systemctl start returns when the script has ended, or raises   *)
(* after 30 seconds.                                                       *)
Started(script, passes, pc) ==
  IF script = DriveIdle /\ passes THEN [kind |-> "script", pc |-> pc, mp |-> driveConf.mp]
  ELSE script

StartCheckNow ==
  /\ IsAt("startCheck")
  /\ chk' = Started(chk, UsbFound, "active")
  /\ DriveGoto("waitCheck")
  /\ UNCHANGED <<disks, driveStore, smb, bak, driveTorn, driveMoves>>

StartBackupNow ==
  /\ IsAt("waitCheck") /\ chk = DriveIdle
  /\ bak' = Started(bak, LooksMounted(driveConf.mp), "copy")
  /\ DriveGoto("waitBackup")
  /\ UNCHANGED <<disks, driveStore, smb, chk, driveTorn, driveMoves>>

StartSmbNow ==
  /\ IsAt("waitBackup") /\ bak = DriveIdle
  /\ smb' = TRUE /\ driveTorn' = driveTorn \ {"unmount"}
  /\ Finish
  /\ UNCHANGED <<disks, driveStore, jobs, driveMoves>>

StartTimesOut ==
  /\ \/ IsAt("waitCheck") /\ chk # DriveIdle
     \/ IsAt("waitBackup") /\ bak # DriveIdle
  /\ DriveGoto("failed")
  /\ UNCHANGED <<Mutable, driveTorn, driveMoves>>

(* A request that raised is answered with an error. *)
Failed ==
  /\ IsAt("failed")
  /\ Finish
  /\ UNCHANGED <<Mutable, driveTorn, driveMoves>>

(***************************************************************************)
(* check_mount.sh.                                                         *)
(***************************************************************************)
ChkGoto(pc) == chk' = IF pc = "idle" THEN DriveIdle ELSE [chk EXCEPT !.pc = pc]

others == <<uuid, plugged, driveStore, smb, driveWeb, bak, driveTorn, driveMoves>>

CheckTimer ==
  /\ chk = DriveIdle /\ UsbFound
  /\ chk' = Started(chk, UsbFound, "active")
  /\ UNCHANGED <<others, mounts>>

(* systemctl start of the mount unit: systemd mounts what the unit says. *)
UnitStarts(next) ==
  \E e \in units, d \in plugged :
    /\ e.mp = chk.mp /\ uuid[d] = e.uuid /\ ~IsMounted(d)
    /\ Mount(d, chk.mp)
    /\ ChkGoto(next)

CanStart == \E e \in units, d \in plugged : e.mp = chk.mp /\ uuid[d] = e.uuid /\ ~IsMounted(d)

CheckActive ==
  /\ chk.pc = "active"
  /\ \/ Shown(chk.mp) # {} /\ ChkGoto("io") /\ UNCHANGED mounts
     \/ Shown(chk.mp) = {} /\ UnitStarts("io")
     \/ Shown(chk.mp) = {} /\ ~CanStart /\ ChkGoto("idle") /\ UNCHANGED mounts
  /\ UNCHANGED others

(* ls fails on a mount that is not live; the unit is stopped and started. *)
CheckIo ==
  /\ chk.pc = "io"
  /\ IF \E x \in Shown(chk.mp) : ~x.live
     THEN /\ IF Unmountable(chk.mp) THEN Unmount(chk.mp) ELSE UNCHANGED mounts
          /\ ChkGoto("again")
     ELSE ChkGoto("idle") /\ UNCHANGED mounts
  /\ UNCHANGED others

CheckAgain ==
  /\ chk.pc = "again"
  /\ IF Shown(chk.mp) = {} /\ CanStart THEN UnitStarts("idle")
     ELSE ChkGoto("idle") /\ UNCHANGED mounts
  /\ UNCHANGED others

(***************************************************************************)
(* backup_cloud.sh.                                                        *)
(***************************************************************************)
BackupTimer ==
  /\ bak = DriveIdle /\ LooksMounted(driveConf.mp)
  /\ bak' = Started(bak, LooksMounted(driveConf.mp), "copy")
  /\ UNCHANGED <<disks, driveStore, smb, driveWeb, chk, driveTorn, driveMoves>>

(* rclone sync reads what the mount point shows by now.                    *)
BackupCopies ==
  /\ bak.pc = "copy"
  /\ bak' = [bak EXCEPT !.pc = "copying"]
  /\ UNCHANGED <<disks, driveStore, smb, driveWeb, chk, driveTorn, driveMoves>>

BackupEnds ==
  /\ bak.pc = "copying"
  /\ bak' = DriveIdle
  /\ UNCHANGED <<disks, driveStore, smb, driveWeb, chk, driveTorn, driveMoves>>

(***************************************************************************)
(* The environment.                                                        *)
(***************************************************************************)
Unplug(d) ==
  /\ d \in plugged /\ driveMoves < MaxDriveMoves
  /\ plugged' = plugged \ {d}
  /\ mounts' = [i \in DOMAIN mounts |->
                  [mounts[i] EXCEPT !.live = @ /\ mounts[i].dev # d]]
  /\ driveMoves' = driveMoves + 1
  /\ UNCHANGED <<uuid, driveStore, smb, driveWeb, jobs, driveTorn>>

Plug(d) ==
  /\ d \notin plugged
  /\ plugged' = plugged \cup {d}
  /\ UNCHANGED <<uuid, mounts, driveStore, smb, driveWeb, jobs, driveTorn, driveMoves>>

(* A desktop or an operator mounts a drive somewhere. *)
Automount(d, m) ==
  /\ d \in plugged /\ ~IsMounted(d) /\ driveMoves < MaxDriveMoves
  /\ m # driveConf.mp /\ Shown(m) = {}
  /\ Mount(d, m)
  /\ driveMoves' = driveMoves + 1
  /\ UNCHANGED <<uuid, plugged, driveStore, smb, driveWeb, jobs, driveTorn>>

(* The web service is restarted in the middle of a request. *)
TornByCrash == driveTorn \cup ({driveWeb.kind} \cap {"setup", "unmount"})

DriveWebDies ==
  /\ ~IsAt("idle")
  /\ driveWeb' = DriveIdle /\ driveTorn' = TornByCrash
  /\ UNCHANGED <<Mutable, driveMoves>>

(* After a power cut the machine boots with the units of /etc/fstab, and   *)
(* mounts the drive it names if there is one (nofail).                     *)
PowerCut ==
  /\ driveMoves < MaxDriveMoves
  /\ driveMoves' = driveMoves + 1
  /\ units' = fstab
  /\ LET found == {d \in plugged : \E e \in fstab : uuid[d] = e.uuid}
     IN IF found = {} THEN mounts' = <<>>
        ELSE \E d \in found, e \in fstab :
               mounts' = <<[dev |-> d, mp |-> e.mp, live |-> TRUE]>>
  /\ smb' = TRUE /\ driveWeb' = DriveIdle /\ chk' = DriveIdle /\ bak' = DriveIdle
  /\ driveTorn' = TornByCrash \ {"unmount"}
  /\ UNCHANGED <<uuid, plugged, fstab, driveConf, driveShare>>

(***************************************************************************)
(* The specification: at the start no drive is configured, or the setup is *)
(* done.                                                                   *)
(***************************************************************************)
DriveInit ==
  /\ uuid = DriveUuid /\ plugged = Drives /\ mounts = <<>>
  /\ \/ /\ fstab = {} /\ driveShare = {}
        /\ driveConf = [mp |-> DefaultMountPoint, uuid |-> NoUuid, usb |-> {}]
     \/ /\ fstab = {[uuid |-> DriveUuid[InitialDrive], mp |-> DefaultMountPoint]}
        /\ driveShare = {DefaultMountPoint}
        /\ driveConf = [mp |-> DefaultMountPoint, uuid |-> DriveUuid[InitialDrive],
                   usb |-> {InitialDrive}]
  /\ units = fstab
  /\ smb = TRUE /\ driveWeb = DriveIdle /\ chk = DriveIdle /\ bak = DriveIdle
  /\ driveTorn = {} /\ driveMoves = 0

Setup ==
  \/ \E d \in Drives, m \in MountPoints : AskSetup(d, m)
  \/ WriteFstab \/ ReloadUnits \/ MountNtfs \/ MountRefused \/ ReplaceSharePath
  \/ SetConfigValues \/ SetupStepFails
  \/ UndoMount \/ UndoFstab \/ UndoReload \/ UndoShare \/ UndoConfig \/ RollbackFails

Removal ==
  \/ AskUnmount \/ StopCheck \/ StopBackup \/ StopSmb \/ StopTimesOut
  \/ Umount \/ PowerDown \/ UmountFails \/ StartSmb \/ StartSmbFails
  \/ \E d \in Drives : UnmountPartition(d) \/ AskFormat(d)
  \/ EraseDisk \/ MakeFileSystem \/ FormatFails

Remount ==
  \/ AskMount \/ CheckEntry \/ MountDrive \/ MountDriveFails
  \/ StartCheckNow \/ StartBackupNow \/ StartSmbNow \/ StartTimesOut

OtherWriters == EditShare \/ CompleteShare \/ ImportConfig \/ ImportShare \/ ImportFails

CheckStep == CheckActive \/ CheckIo \/ CheckAgain

Scripts ==
  \/ CheckTimer \/ CheckStep
  \/ BackupTimer \/ BackupCopies \/ BackupEnds

Environment ==
  \/ \E d \in Drives : Unplug(d) \/ Plug(d) \/ \E m \in MountPoints : Automount(d, m)
  \/ DriveWebDies \/ PowerCut

DriveNext ==
  Setup \/ Removal \/ Remount \/ OtherWriters \/ Failed \/ Scripts \/ Environment

DriveSpec == DriveInit /\ [][DriveNext]_driveVars

(***************************************************************************)
(* Properties.                                                             *)
(***************************************************************************)
(* The type of every variable. *)
DriveTypeOK ==
  /\ uuid \in [Drives -> Uuids \cup {NoUuid}] /\ plugged \in SUBSET Drives
  /\ mounts \in Seq([dev : Drives, mp : MountPoints, live : BOOLEAN])
  /\ fstab \in SUBSET Entry /\ units \in SUBSET Entry /\ driveShare \in SUBSET MountPoints
  /\ driveConf \in [mp : MountPoints, uuid : Uuids \cup {NoUuid}, usb : SUBSET Drives]
  /\ smb \in BOOLEAN
  /\ driveTorn \in SUBSET {"setup", "unmount", "import", "share"} /\ driveMoves \in 0..MaxDriveMoves

(* The boot mounts what fstab says, the dashboard what the configuration   *)
(* says, and the share serves a path.  Whenever no setup is at work, and   *)
(* none was interrupted or failed to undo its work since the last one that *)
(* was finished: systemd has the units of fstab; fstab and configuration   *)
(* name one drive and one mount point unless an import has replaced the    *)
(* configuration; and the share serves that mount point unless an import,  *)
(* or somebody on the Network File Sharing page, has come between.  A      *)
(* setup that is finished puts all of this right again.                    *)
Agree ==
  "setup" \notin driveTorn /\ driveWeb.kind # "setup" =>
    /\ units = fstab
    /\ "import" \notin driveTorn =>
         \A e \in fstab : e.uuid = driveConf.uuid /\ e.mp = driveConf.mp
    /\ "share" \notin driveTorn => driveShare \subseteq {driveConf.mp}

(* A setup that is answered with an error has changed nothing, whichever   *)
(* step failed: fstab, the units made from it, the configuration and the   *)
(* share are what they were.  Only a failure of the rollback breaks this.  *)
AllOrNothing ==
  driveWeb.kind = "setup" /\ IsAt("failed") /\ "setup" \notin driveTorn =>
    driveWeb.before = <<fstab, driveConf, driveShare>> /\ units = fstab

(* The dashboard never mounts a drive whose UUID is not the configured one, *)
(* even if a setup was interrupted between fstab and the configuration.     *)
RightDrive ==
  [][driveWeb.kind = "mount" /\ ~driveWeb.mounted /\ driveWeb'.pc = "startCheck" =>
       uuid[mounts'[Len(mounts')].dev] = driveConf.uuid]_driveVars

(* File sharing is down only while a drive is being unmounted: whether the *)
(* umount succeeds or not, the request starts it again.  The exceptions    *)
(* are a web service restarted at that moment and a systemctl that fails.  *)
SharingReturns ==
  smb \/ "unmount" \in driveTorn \/ driveWeb.pc \in {"umount", "powerDown", "startSmb"}
=============================================================================
