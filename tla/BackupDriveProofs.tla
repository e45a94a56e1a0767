-------------------------- MODULE BackupDriveProofs --------------------------
(***************************************************************************)
(* Proofs about BackupDrive: for any drives, mount points, failures and    *)
(* crashes a setup changes all or nothing; fstab, units, configuration and *)
(* share agree whenever no setup was left half way, but for what an import *)
(* or an edit of the share has changed since; file sharing returns; and    *)
(* the dashboard mounts the configured drive.                              *)
(***************************************************************************)
EXTENDS BackupDrive, SequenceTheorems, TLAPS

(***************************************************************************)
(* The types: what a request holds depends on what it is about, and the    *)
(* steps it can be at as well.                                             *)
(***************************************************************************)
Mounted == [dev : Drives, mp : MountPoints, live : BOOLEAN]

BackupConf == [mp : MountPoints, uuid : Uuids \cup {NoUuid}, usb : SUBSET Drives]

SetupRequest ==
  [kind : {"setup"}, dev : Drives, mp : MountPoints, uuid : Uuids, prev : BackupConf,
   backup : SUBSET Entry, oldShare : SUBSET MountPoints, mounted : BOOLEAN,
   confSet : BOOLEAN, before : (SUBSET Entry) \X BackupConf \X (SUBSET MountPoints),
   pc : {"fstab", "reload", "mount", "share", "confMp", "confUuid", "confUsb", "undoMount",
         "undoFstab", "undoReload", "undoShare", "undoMp", "undoUuid", "undoUsb", "failed"}]

UnmountRequest ==
  [kind : {"unmount"}, mp : MountPoints,
   pc : {"stopCheck", "stopBackup", "stopSmb", "umount", "powerDown", "startSmb", "failed"}]

FormatRequest == [kind : {"format"}, dev : Drives, pc : {"erase", "mkfs", "failed"}]

MountRequest ==
  [kind : {"mount"}, dev : Drives, mp : MountPoints, uuid : Uuids, mounted : BOOLEAN,
   pc : {"entry", "mountManaged", "mountDevice", "startCheck", "waitCheck", "waitBackup",
         "failed"}]

ImportRequest == [kind : {"import"}, pc : {"importShare", "failed"}]

Requested ==
  {DriveIdle} \cup SetupRequest \cup UnmountRequest \cup FormatRequest \cup MountRequest
  \cup ImportRequest

Script(pcs) == {DriveIdle} \cup [kind : {"script"}, pc : pcs, mp : MountPoints]

Typed ==
  /\ DriveTypeOK
  /\ driveWeb \in Requested
  /\ chk \in Script({"active", "io", "again"})
  /\ bak \in Script({"copy", "copying"})

(***************************************************************************)
(* The inductive invariant.                                                *)
(***************************************************************************)
Coherent(entries, c, paths) ==
  /\ "import" \notin driveTorn => \A e \in entries : e.uuid = c.uuid /\ e.mp = c.mp
  /\ "share" \notin driveTorn => paths \subseteq {c.mp}

\* What a setup has written by each of its steps, whatever it began from.
WayForward ==
  driveWeb.kind = "setup" =>
    /\ driveWeb.pc \in {"reload", "mount", "share", "confMp", "confUuid", "confUsb"} =>
         fstab = {[uuid |-> driveWeb.uuid, mp |-> driveWeb.mp]}
    /\ driveWeb.pc \in {"mount", "share", "confMp", "confUuid", "confUsb"} => units = fstab
    /\ driveWeb.pc \in {"confMp", "confUuid", "confUsb"} =>
         driveShare \subseteq {driveWeb.mp} /\ driveWeb.confSet
    /\ driveWeb.pc \in {"confUuid", "confUsb"} => driveConf.mp = driveWeb.mp
    /\ driveWeb.pc = "confUsb" => driveConf.uuid = driveWeb.uuid

OldFstab == driveWeb.before[1]

OldConf == driveWeb.before[2]

OldPath == driveWeb.before[3]

\* The share is what it was, or the request holds what it was.
ShareKept ==
  IF driveWeb.oldShare = {} THEN driveShare = OldPath ELSE driveWeb.oldShare = OldPath

\* A setup that began from a coherent state and has not failed to undo a step:
\* at each step, what has not been changed, what has been restored, and that it
\* still holds the old value of the rest.
WayBack ==
  driveWeb.kind = "setup" /\ "setup" \notin driveTorn =>
    /\ Coherent(OldFstab, OldConf, OldPath)
    /\ driveWeb.prev = OldConf
    /\ driveWeb.pc \in {"fstab", "undoReload", "undoShare", "undoMp", "undoUuid", "undoUsb",
                        "failed"} => fstab = OldFstab
    /\ driveWeb.pc \in {"reload", "mount", "share", "confMp", "confUuid", "confUsb",
                        "undoMount", "undoFstab"} => driveWeb.backup = OldFstab
    /\ driveWeb.pc \in {"fstab", "undoShare", "undoMp", "undoUuid", "undoUsb", "failed"} =>
         units = fstab
    /\ driveWeb.pc \in {"fstab", "reload", "mount", "share"} =>
         /\ driveConf = OldConf /\ driveShare = OldPath
         /\ driveWeb.oldShare = {}
    /\ driveWeb.pc \in {"confMp", "confUuid", "confUsb", "undoMount", "undoFstab",
                        "undoReload", "undoShare"} =>
         ShareKept /\ (driveWeb.confSet \/ driveConf = OldConf)
    /\ driveWeb.pc \in {"undoMp", "undoUuid", "undoUsb", "failed"} => driveShare = OldPath
    /\ driveWeb.pc \in {"undoUuid", "undoUsb"} => driveConf.mp = OldConf.mp
    /\ driveWeb.pc = "undoUsb" => driveConf.uuid = OldConf.uuid
    /\ driveWeb.pc = "failed" => driveConf = OldConf

\* What the dashboard is about to mount is the configured drive.
AboutToMount ==
  driveWeb.kind = "mount" =>
    /\ driveWeb.uuid = driveConf.uuid
    /\ uuid[driveWeb.dev] = driveWeb.uuid
    /\ driveWeb.pc = "mountManaged" => \A e \in EntryHere : e.uuid = driveWeb.uuid
    /\ driveWeb.pc \in {"startCheck", "waitCheck", "waitBackup"} => driveWeb.mounted

DriveInv == Typed /\ WayForward /\ WayBack /\ AboutToMount /\ Agree /\ SharingReturns

(***************************************************************************)
(* Types.                                                                  *)
(***************************************************************************)
\* Which request is at which step.
SetupSteps == {"fstab", "reload", "mount", "share", "confMp", "confUuid", "confUsb",
               "undoMount", "undoFstab", "undoReload", "undoShare", "undoMp", "undoUuid",
               "undoUsb"}

LEMMA WhichRequest ==
  ASSUME Typed
  PROVE  /\ driveWeb.pc \in SetupSteps => driveWeb \in SetupRequest
         /\ driveWeb.pc \in {"stopCheck", "stopBackup", "stopSmb", "umount", "powerDown",
                            "startSmb"} => driveWeb \in UnmountRequest
         /\ driveWeb.pc \in {"erase", "mkfs"} => driveWeb \in FormatRequest
         /\ driveWeb.pc \in {"entry", "mountManaged", "mountDevice", "startCheck",
                            "waitCheck", "waitBackup"} => driveWeb \in MountRequest
         /\ driveWeb.pc = "importShare" => driveWeb \in ImportRequest
         /\ driveWeb.pc = "idle" => driveWeb = DriveIdle
         /\ driveWeb.kind = "none" => driveWeb = DriveIdle
         /\ driveWeb.kind = "setup" => driveWeb \in SetupRequest
         /\ driveWeb.kind = "unmount" => driveWeb \in UnmountRequest
         /\ driveWeb.kind = "format" => driveWeb \in FormatRequest
         /\ driveWeb.kind = "mount" => driveWeb \in MountRequest
BY DEF Typed, Requested, SetupRequest, UnmountRequest, FormatRequest, MountRequest,
       ImportRequest, DriveIdle, SetupSteps

LEMMA MountTypes ==
  ASSUME Typed, NEW d \in Drives, NEW m \in MountPoints, Mount(d, m)
  PROVE  /\ mounts' \in Seq(Mounted) /\ Len(mounts') = Len(mounts) + 1
         /\ mounts'[Len(mounts')] = [dev |-> d, mp |-> m, live |-> TRUE]
<1>1. mounts \in Seq(Mounted) /\ [dev |-> d, mp |-> m, live |-> TRUE] \in Mounted
  BY DEF Typed, DriveTypeOK, Mounted
<1>2. QED
  BY <1>1, AppendProperties DEF Mount

LEMMA UnmountTypes ==
  ASSUME Typed, NEW m, Unmount(m)
  PROVE  mounts' \in Seq(Mounted)
<1>1. mounts \in Seq(Mounted)
  BY DEF Typed, DriveTypeOK, Mounted
<1>2. PICK i \in Top(m) : mounts' = RemoveAt(mounts, i)
  BY DEF Unmount
<1>3. i \in 1..Len(mounts)
  BY <1>1 DEF Top
<1>4. /\ SubSeq(mounts, 1, i - 1) \in Seq(Mounted)
      /\ SubSeq(mounts, i + 1, Len(mounts)) \in Seq(Mounted)
  BY <1>1, <1>3, SubSeqProperties
<1>5. QED
  BY <1>2, <1>4, ConcatProperties DEF RemoveAt

LEMMA DriveGotoTypes ==
  ASSUME Typed, NEW pc, DriveGoto(pc)
  PROVE  /\ driveWeb \in SetupRequest /\ pc \in SetupSteps \cup {"failed"}
              => driveWeb' \in SetupRequest
         /\ driveWeb \in UnmountRequest
              /\ pc \in {"stopBackup", "stopSmb", "umount", "powerDown", "startSmb", "failed"}
              => driveWeb' \in UnmountRequest
         /\ driveWeb \in FormatRequest /\ pc \in {"mkfs", "failed"}
              => driveWeb' \in FormatRequest
         /\ driveWeb \in MountRequest
              /\ pc \in {"mountManaged", "mountDevice", "waitCheck", "waitBackup", "failed"}
              => driveWeb' \in MountRequest
         /\ driveWeb \in ImportRequest /\ pc = "failed" => driveWeb' \in ImportRequest
BY DEF DriveGoto, SetupRequest, UnmountRequest, FormatRequest, MountRequest, ImportRequest,
       SetupSteps

LEMMA GotoKind ==
  ASSUME Typed, NEW pc, DriveGoto(pc)
  PROVE  driveWeb'.kind = driveWeb.kind /\ driveWeb'.pc = pc
BY DEF Typed, Requested, DriveGoto, DriveIdle, SetupRequest, UnmountRequest, FormatRequest,
       MountRequest, ImportRequest

LEMMA SetupTypes ==
  ASSUME Typed,
         \/ \E d \in Drives, m \in MountPoints : AskSetup(d, m)
         \/ WriteFstab \/ ReloadUnits \/ MountNtfs \/ MountRefused \/ ReplaceSharePath
         \/ SetConfigValues \/ SetupStepFails
  PROVE  Typed'
<1> USE DriveAssumption, WhichRequest
<1>1. ASSUME NEW d \in Drives, NEW m \in MountPoints, AskSetup(d, m)
      PROVE  Typed'
  <2>1. driveWeb' \in SetupRequest
    BY <1>1 DEF AskSetup, Typed, DriveTypeOK, SetupRequest, BackupConf
  <2>2. QED
    BY <1>1, <2>1 DEF AskSetup, Typed, DriveTypeOK, Requested, driveStore, disks, jobs
<1>2. CASE WriteFstab
  <2>1. driveWeb \in SetupRequest
    BY <1>2 DEF WriteFstab, IsAt, SetupSteps
  <2>2. [uuid |-> driveWeb.uuid, mp |-> driveWeb.mp] \in Entry
    BY <2>1 DEF SetupRequest, Entry
  <2>3. driveWeb' \in SetupRequest
    BY <1>2, <2>1 DEF WriteFstab, Typed, DriveTypeOK, SetupRequest
  <2>4. QED
    BY <1>2, <2>2, <2>3 DEF WriteFstab, Typed, DriveTypeOK, Requested, disks, jobs
<1>3. CASE ReloadUnits
  <2>1. driveWeb' \in SetupRequest
    BY <1>3, DriveGotoTypes DEF ReloadUnits, IsAt, SetupSteps
  <2>2. QED
    BY <1>3, <2>1 DEF ReloadUnits, Typed, DriveTypeOK, Requested, disks, jobs
<1>4. CASE MountNtfs
  <2>1. driveWeb \in SetupRequest
    BY <1>4 DEF MountNtfs, IsAt, SetupSteps
  <2>2. driveWeb' \in SetupRequest /\ mounts' \in Seq(Mounted)
    BY <1>4, <2>1, MountTypes DEF MountNtfs, SetupRequest
  <2>3. QED
    BY <1>4, <2>2 DEF MountNtfs, Typed, DriveTypeOK, Requested, driveStore, jobs, Mounted
<1>5. CASE MountRefused
  <2>1. driveWeb' \in SetupRequest
    BY <1>5, DriveGotoTypes DEF MountRefused, IsAt, SetupSteps
  <2>2. QED
    BY <1>5, <2>1 DEF MountRefused, Typed, DriveTypeOK, Requested, Mutable, disks, jobs, driveStore
<1>6. CASE ReplaceSharePath
  <2>1. driveWeb \in SetupRequest
    BY <1>6 DEF ReplaceSharePath, IsAt, SetupSteps
  <2>2. driveWeb' \in SetupRequest /\ driveShare' \in SUBSET MountPoints
    BY <1>6, <2>1 DEF ReplaceSharePath, SetupRequest, Typed, DriveTypeOK
  <2>3. QED
    BY <1>6, <2>2 DEF ReplaceSharePath, Typed, DriveTypeOK, Requested, disks, jobs
<1>7. CASE SetConfigValues
  <2>1. driveWeb \in SetupRequest
    BY <1>7 DEF SetConfigValues, SetConf, IsAt, SetupSteps
  <2>2. driveWeb' \in Requested /\ driveConf' \in BackupConf
    BY <1>7, <2>1 DEF SetConfigValues, SetConf, SetupRequest, Requested, Typed, DriveTypeOK, BackupConf
  <2>3. QED
    BY <1>7, <2>2 DEF SetConfigValues, SetConf, Typed, DriveTypeOK, disks, jobs, BackupConf
<1>8. CASE SetupStepFails
  <2>1. driveWeb' \in SetupRequest
    BY <1>8, DriveGotoTypes DEF SetupStepFails, Fails, FaultAt, IsAt, SetupSteps
  <2>2. /\ driveMoves < MaxDriveMoves /\ driveMoves' = driveMoves + 1
        /\ UNCHANGED <<disks, driveStore, smb, jobs, driveTorn>>
    BY <1>8 DEF SetupStepFails, Fails, FaultAt, Mutable
  <2>3. QED
    BY <2>1, <2>2 DEF Typed, DriveTypeOK, Requested, disks, jobs, driveStore
<1>9. QED
  BY <1>1, <1>2, <1>3, <1>4, <1>5, <1>6, <1>7, <1>8

LEMMA RollbackTypes ==
  ASSUME Typed,
         UndoMount \/ UndoFstab \/ UndoReload \/ UndoShare \/ UndoConfig \/ RollbackFails
  PROVE  Typed'
<1> USE DriveAssumption, WhichRequest
<1>1. driveWeb \in SetupRequest
  BY DEF UndoMount, UndoFstab, UndoReload, UndoShare, UndoConfig, SetConf, RollbackFails,
         FaultAt, IsAt, SetupSteps
<1>2. driveWeb' \in SetupRequest
  <2>1. CASE UndoMount \/ UndoFstab \/ UndoReload \/ UndoShare
    BY <1>1, <2>1, DriveGotoTypes DEF UndoMount, UndoFstab, UndoReload, UndoShare, AfterShare, SetupSteps
  <2>2. CASE UndoConfig
    BY <1>1, <2>2 DEF UndoConfig, SetConf, SetupRequest
  <2>3. CASE RollbackFails
    BY <1>1, <2>3, DriveGotoTypes DEF RollbackFails, FaultAt, AfterShare, SetupSteps
  <2>4. QED
    BY <2>1, <2>2, <2>3
<1>3. CASE UndoMount
  <2>1. mounts' \in Seq(Mounted)
    BY <1>3, UnmountTypes DEF UndoMount, Typed, DriveTypeOK, Mounted
  <2>2. QED
    BY <1>2, <1>3, <2>1 DEF UndoMount, Typed, DriveTypeOK, Requested, driveStore, jobs, Mounted
<1>4. CASE UndoFstab
  <2>1. fstab' \in SUBSET Entry
    BY <1>1, <1>4 DEF UndoFstab, SetupRequest
  <2>2. QED
    BY <1>2, <1>4, <2>1 DEF UndoFstab, Typed, DriveTypeOK, Requested, disks, jobs
<1>5. CASE UndoReload
  BY <1>2, <1>5 DEF UndoReload, Typed, DriveTypeOK, Requested, disks, jobs
<1>6. CASE UndoShare
  <2>1. driveShare' \in SUBSET MountPoints
    BY <1>1, <1>6 DEF UndoShare, SetupRequest, Typed, DriveTypeOK
  <2>2. QED
    BY <1>2, <1>6, <2>1 DEF UndoShare, Typed, DriveTypeOK, Requested, disks, jobs
<1>7. CASE UndoConfig
  <2>1. driveConf' \in BackupConf
    BY <1>1, <1>7 DEF UndoConfig, SetConf, SetupRequest, Typed, DriveTypeOK, BackupConf
  <2>2. QED
    BY <1>2, <1>7, <2>1 DEF UndoConfig, SetConf, Typed, DriveTypeOK, Requested, disks, jobs,
                            BackupConf
<1>8. CASE RollbackFails
  <2>1. /\ driveMoves < MaxDriveMoves /\ driveMoves' = driveMoves + 1
        /\ UNCHANGED <<disks, driveStore, smb, jobs>>
        /\ driveTorn' = driveTorn \cup {"setup"}
    BY <1>8 DEF RollbackFails, FaultAt, Mutable
  <2>2. QED
    BY <1>2, <2>1 DEF Typed, DriveTypeOK, Requested, disks, jobs, driveStore
<1>9. QED
  BY <1>3, <1>4, <1>5, <1>6, <1>7, <1>8

LEMMA RemovalTypes ==
  ASSUME Typed,
         \/ AskUnmount \/ StopCheck \/ StopBackup \/ StopSmb \/ StopTimesOut
         \/ Umount \/ PowerDown \/ UmountFails \/ StartSmb \/ StartSmbFails
         \/ \E d \in Drives : UnmountPartition(d)
  PROVE  Typed'
<1> USE DriveAssumption, WhichRequest
<1>1. CASE AskUnmount
  <2>1. driveWeb' \in UnmountRequest
    BY <1>1 DEF AskUnmount, UnmountRequest, Typed, DriveTypeOK
  <2>2. QED
    BY <1>1, <2>1 DEF AskUnmount, Typed, DriveTypeOK, Requested, disks, driveStore, jobs
<1>2. CASE StopCheck \/ StopBackup \/ StopSmb
  <2>1. driveWeb' \in UnmountRequest
    BY <1>2, DriveGotoTypes DEF StopCheck, StopBackup, StopSmb, IsAt
  <2>2. /\ UNCHANGED <<disks, driveStore, driveTorn, driveMoves>>
        /\ smb' \in BOOLEAN /\ chk' \in {chk, DriveIdle} /\ bak' \in {bak, DriveIdle}
    BY <1>2 DEF StopCheck, StopBackup, StopSmb, jobs, Typed, DriveTypeOK
  <2>3. QED
    BY <2>1, <2>2 DEF Typed, DriveTypeOK, Requested, disks, driveStore, Script
<1>3. CASE StopTimesOut
  <2>1. driveWeb' \in UnmountRequest
    BY <1>3, DriveGotoTypes DEF StopTimesOut, Fails, FaultAt, IsAt
  <2>2. /\ UNCHANGED <<disks, driveStore, jobs>> /\ smb' \in BOOLEAN
        /\ driveTorn' \in {driveTorn, driveTorn \cup {"unmount"}}
        /\ driveMoves < MaxDriveMoves /\ driveMoves' = driveMoves + 1
    BY <1>3 DEF StopTimesOut, Fails, FaultAt, Mutable, Typed, DriveTypeOK
  <2>3. QED
    BY <2>1, <2>2 DEF Typed, DriveTypeOK, Requested, disks, driveStore, jobs
<1>4. CASE Umount
  <2>1. driveWeb' \in UnmountRequest
    BY <1>4, DriveGotoTypes DEF Umount, IsAt
  <2>2. mounts' \in Seq(Mounted)
    BY <1>4, UnmountTypes DEF Umount, Typed, DriveTypeOK, Mounted
  <2>3. QED
    BY <1>4, <2>1, <2>2 DEF Umount, Typed, DriveTypeOK, Requested, driveStore, jobs, Mounted
<1>5. CASE PowerDown
  <2>1. driveWeb' \in UnmountRequest
    BY <1>5, DriveGotoTypes DEF PowerDown, IsAt
  <2>2. QED
    BY <1>5, <2>1 DEF PowerDown, Typed, DriveTypeOK, Requested, Mutable, disks, driveStore, jobs
<1>6. CASE UmountFails \/ StartSmbFails
  <2>1. driveWeb' \in UnmountRequest
    BY <1>6, DriveGotoTypes DEF UmountFails, StartSmbFails, Fails, FaultAt, IsAt
  <2>2. /\ UNCHANGED <<disks, driveStore, smb, jobs>>
        /\ driveTorn' \in {driveTorn, driveTorn \cup {"unmount"}}
        /\ driveMoves < MaxDriveMoves /\ driveMoves' = driveMoves + 1
    BY <1>6 DEF UmountFails, StartSmbFails, Fails, FaultAt, Mutable
  <2>3. QED
    BY <2>1, <2>2 DEF Typed, DriveTypeOK, Requested, disks, driveStore, jobs
<1>7. CASE StartSmb
  BY <1>7 DEF StartSmb, Finish, Typed, DriveTypeOK, Requested, disks, driveStore, jobs
<1>8. ASSUME NEW d \in Drives, UnmountPartition(d)
      PROVE  Typed'
  <2>1. mounts' \in Seq(Mounted)
    BY <1>8, UnmountTypes DEF UnmountPartition
  <2>2. QED
    BY <1>8, <2>1 DEF UnmountPartition, Typed, DriveTypeOK, driveStore, jobs, Mounted
<1>9. QED
  BY <1>1, <1>2, <1>3, <1>4, <1>5, <1>6, <1>7, <1>8

LEMMA FormatTypes ==
  ASSUME Typed,
         \/ \E d \in Drives : AskFormat(d)
         \/ EraseDisk \/ MakeFileSystem \/ FormatFails
  PROVE  Typed'
<1> USE DriveAssumption, WhichRequest
<1>1. ASSUME NEW d \in Drives, AskFormat(d)
      PROVE  Typed'
  <2>1. driveWeb' \in FormatRequest
    BY <1>1 DEF AskFormat, FormatRequest
  <2>2. QED
    BY <1>1, <2>1 DEF AskFormat, Typed, DriveTypeOK, Requested, disks, driveStore, jobs
<1>2. CASE EraseDisk
  <2>1. driveWeb' \in FormatRequest
    BY <1>2, DriveGotoTypes DEF EraseDisk, IsAt
  <2>2. uuid' \in [Drives -> Uuids \cup {NoUuid}]
    BY <1>2 DEF EraseDisk, Typed, DriveTypeOK
  <2>3. QED
    BY <1>2, <2>1, <2>2 DEF EraseDisk, Typed, DriveTypeOK, Requested, driveStore, jobs
<1>3. CASE MakeFileSystem
  <2>1. uuid' \in [Drives -> Uuids \cup {NoUuid}]
    BY <1>3 DEF MakeFileSystem, Typed, DriveTypeOK
  <2>2. QED
    BY <1>3, <2>1 DEF MakeFileSystem, Finish, Typed, DriveTypeOK, Requested, driveStore, jobs
<1>4. CASE FormatFails
  <2>1. driveWeb' \in FormatRequest
    BY <1>4, DriveGotoTypes DEF FormatFails, Fails, FaultAt, IsAt
  <2>2. /\ UNCHANGED <<disks, driveStore, smb, jobs, driveTorn>>
        /\ driveMoves < MaxDriveMoves /\ driveMoves' = driveMoves + 1
    BY <1>4 DEF FormatFails, Fails, FaultAt, Mutable
  <2>3. QED
    BY <2>1, <2>2 DEF Typed, DriveTypeOK, Requested, disks, driveStore, jobs
<1>5. QED
  BY <1>1, <1>2, <1>3, <1>4

LEMMA StartedTypes ==
  ASSUME Typed
  PROVE  /\ \A b \in BOOLEAN : Started(chk, b, "active") \in Script({"active", "io", "again"})
         /\ \A b \in BOOLEAN : Started(bak, b, "copy") \in Script({"copy", "copying"})
BY DEF Started, Script, Typed, DriveTypeOK

LEMMA RemountTypes ==
  ASSUME Typed, Remount \/ Failed
  PROVE  Typed'
<1> USE DriveAssumption, WhichRequest
<1>1. CASE AskMount
  <2>1. driveWeb' \in MountRequest
    BY <1>1 DEF AskMount, MountRequest, Typed, DriveTypeOK
  <2>2. QED
    BY <1>1, <2>1 DEF AskMount, Typed, DriveTypeOK, Requested, disks, driveStore, jobs
<1>2. CASE CheckEntry \/ MountDriveFails \/ StartTimesOut \/ Failed
  <2>1. driveWeb' \in MountRequest \cup {DriveIdle}
    <3>1. CASE CheckEntry
      BY <3>1, DriveGotoTypes DEF CheckEntry, Finish, IsAt
    <3>2. CASE MountDriveFails
      BY <3>2, DriveGotoTypes DEF MountDriveFails, IsAt
    <3>3. CASE StartTimesOut
      BY <3>3, DriveGotoTypes DEF StartTimesOut, IsAt
    <3>4. CASE Failed
      BY <3>4 DEF Failed, Finish
    <3>5. QED
      BY <1>2, <3>1, <3>2, <3>3, <3>4
  <2>2. UNCHANGED <<Mutable, driveTorn, driveMoves>>
    BY <1>2 DEF CheckEntry, MountDriveFails, StartTimesOut, Failed
  <2>3. QED
    BY <2>1, <2>2 DEF Typed, DriveTypeOK, Requested, Mutable, disks, driveStore, jobs
<1>3. CASE MountDrive
  <2>1. driveWeb \in MountRequest
    BY <1>3 DEF MountDrive, IsAt
  <2>2. driveWeb' \in MountRequest
    BY <1>3, <2>1 DEF MountDrive, MountRequest
  <2>3. mounts' \in Seq(Mounted)
    BY <1>3, <2>1, MountTypes DEF MountDrive, MountRequest, Typed, DriveTypeOK
  <2>4. QED
    BY <1>3, <2>2, <2>3 DEF MountDrive, Typed, DriveTypeOK, Requested, driveStore, jobs, Mounted
<1>4. CASE StartCheckNow
  <2>1. driveWeb' \in MountRequest
    BY <1>4, DriveGotoTypes DEF StartCheckNow, IsAt
  <2>2. chk' \in Script({"active", "io", "again"})
    BY <1>4, StartedTypes DEF StartCheckNow, UsbFound
  <2>3. QED
    BY <1>4, <2>1, <2>2 DEF StartCheckNow, Typed, DriveTypeOK, Requested, disks, driveStore
<1>5. CASE StartBackupNow
  <2>1. driveWeb' \in MountRequest
    BY <1>5, DriveGotoTypes DEF StartBackupNow, IsAt
  <2>2. bak' \in Script({"copy", "copying"})
    BY <1>5, StartedTypes DEF StartBackupNow, LooksMounted
  <2>3. QED
    BY <1>5, <2>1, <2>2 DEF StartBackupNow, Typed, DriveTypeOK, Requested, disks, driveStore
<1>6. CASE StartSmbNow
  BY <1>6 DEF StartSmbNow, Finish, Typed, DriveTypeOK, Requested, disks, driveStore, jobs
<1>7. QED
  BY <1>1, <1>2, <1>3, <1>4, <1>5, <1>6 DEF Remount

LEMMA OtherWriterTypes ==
  ASSUME Typed, OtherWriters
  PROVE  Typed'
<1> USE DriveAssumption, WhichRequest
<1>1. CASE EditShare \/ CompleteShare
  <2>1. driveShare' \in SUBSET MountPoints
    BY <1>1 DEF EditShare, CompleteShare, Typed, DriveTypeOK
  <2>2. /\ UNCHANGED <<disks, fstab, units, driveConf, smb, driveWeb, jobs>>
        /\ driveTorn' \in {driveTorn \cup {"share"}, driveTorn \ {"share"}}
        /\ driveMoves < MaxDriveMoves /\ driveMoves' = driveMoves + 1
    BY <1>1 DEF EditShare, CompleteShare
  <2>3. QED
    BY <2>1, <2>2 DEF Typed, DriveTypeOK, disks, jobs
<1>2. CASE ImportConfig
  <2>1. driveConf' \in BackupConf
    BY <1>2 DEF ImportConfig, BackupConf
  <2>2. driveWeb' \in ImportRequest
    BY <1>2 DEF ImportConfig, ImportRequest
  <2>3. /\ UNCHANGED <<disks, fstab, units, driveShare, smb, jobs>>
        /\ driveTorn' = driveTorn \cup {"import", "share"}
        /\ driveMoves < MaxDriveMoves /\ driveMoves' = driveMoves + 1
    BY <1>2 DEF ImportConfig
  <2>4. QED
    BY <2>1, <2>2, <2>3 DEF Typed, DriveTypeOK, Requested, BackupConf, disks, jobs
<1>3. CASE ImportShare
  BY <1>3 DEF ImportShare, Finish, Typed, DriveTypeOK, Requested, disks, jobs
<1>4. CASE ImportFails
  <2>1. driveWeb' \in ImportRequest
    BY <1>4, DriveGotoTypes DEF ImportFails, Fails, FaultAt, IsAt
  <2>2. /\ UNCHANGED <<disks, driveStore, smb, jobs, driveTorn>>
        /\ driveMoves < MaxDriveMoves /\ driveMoves' = driveMoves + 1
    BY <1>4 DEF ImportFails, Fails, FaultAt, Mutable
  <2>3. QED
    BY <2>1, <2>2 DEF Typed, DriveTypeOK, Requested, disks, driveStore, jobs
<1>5. QED
  BY <1>1, <1>2, <1>3, <1>4 DEF OtherWriters

LEMMA CheckTypes ==
  ASSUME Typed, CheckStep
  PROVE  Typed'
<1>1. UNCHANGED others
  BY DEF CheckStep, CheckActive, CheckIo, CheckAgain
<1>2. chk \in [kind : {"script"}, pc : {"active", "io", "again"}, mp : MountPoints]
  BY DEF CheckStep, CheckActive, CheckIo, CheckAgain, Typed, Script, DriveIdle
<1>3. \A next \in {"io", "again", "idle"} :
        ChkGoto(next) => chk' \in Script({"active", "io", "again"})
  BY <1>2 DEF ChkGoto, Script
<1>4. \A next : UnitStarts(next) => ChkGoto(next) /\ mounts' \in Seq(Mounted)
  BY <1>2, MountTypes DEF UnitStarts, Typed, DriveTypeOK
<1>5. mounts \in Seq(Mounted)
  BY DEF Typed, DriveTypeOK, Mounted
<1>6. chk' \in Script({"active", "io", "again"}) /\ mounts' \in Seq(Mounted)
  <2>1. CASE CheckActive
    BY <2>1, <1>3, <1>4, <1>5 DEF CheckActive
  <2>2. CASE CheckIo
    BY <2>2, <1>3, <1>5, UnmountTypes DEF CheckIo
  <2>3. CASE CheckAgain
    BY <2>3, <1>3, <1>4, <1>5 DEF CheckAgain
  <2>4. QED
    BY <2>1, <2>2, <2>3 DEF CheckStep
<1>7. QED
  BY <1>1, <1>6 DEF Typed, DriveTypeOK, others, driveStore, Mounted

LEMMA ScriptTypes ==
  ASSUME Typed, Scripts
  PROVE  Typed'
<1>1. CASE CheckTimer
  BY <1>1, StartedTypes DEF CheckTimer, UsbFound, Typed, DriveTypeOK, others, driveStore
<1>2. CASE BackupTimer
  BY <1>2, StartedTypes DEF BackupTimer, LooksMounted, Typed, DriveTypeOK, disks, driveStore
<1>3. CASE BackupCopies
  <2>1. bak' \in Script({"copy", "copying"})
    BY <1>3 DEF BackupCopies, Typed, Script, DriveIdle
  <2>2. QED
    BY <1>3, <2>1 DEF BackupCopies, Typed, DriveTypeOK, disks, driveStore
<1>4. CASE BackupEnds
  BY <1>4 DEF BackupEnds, Script, Typed, DriveTypeOK, disks, driveStore
<1>5. QED
  BY <1>1, <1>2, <1>3, <1>4, CheckTypes DEF Scripts

LEMMA EnvironmentTypes ==
  ASSUME Typed, Environment
  PROVE  Typed'
<1> USE DriveAssumption
<1>1. ASSUME NEW d \in Drives, Unplug(d)
      PROVE  Typed'
  <2>1. mounts \in Seq(Mounted)
    BY DEF Typed, DriveTypeOK, Mounted
  <2> DEFINE left(i) == [mounts[i] EXCEPT !.live = @ /\ mounts[i].dev # d]
  <2>2. \A i \in 1..Len(mounts) : left(i) \in Mounted
    <3>1. TAKE i \in 1..Len(mounts)
    <3>2. mounts[i] \in Mounted
      BY <2>1
    <3>3. QED
      BY <3>2 DEF Mounted
  <2>3. mounts' = [i \in DOMAIN mounts |-> left(i)]
    BY <1>1 DEF Unplug
  <2> HIDE DEF left
  <2>4. mounts' \in Seq(Mounted)
    BY <2>1, <2>2, <2>3
  <2>5. QED
    BY <1>1, <2>4 DEF Unplug, Typed, DriveTypeOK, driveStore, jobs, Mounted
<1>2. ASSUME NEW d \in Drives, Plug(d)
      PROVE  Typed'
  BY <1>2 DEF Plug, Typed, DriveTypeOK, driveStore, jobs
<1>3. ASSUME NEW d \in Drives, NEW m \in MountPoints, Automount(d, m)
      PROVE  Typed'
  <2>1. mounts' \in Seq(Mounted)
    BY <1>3, MountTypes DEF Automount
  <2>2. QED
    BY <1>3, <2>1 DEF Automount, Typed, DriveTypeOK, driveStore, jobs, Mounted
<1>4. CASE DriveWebDies
  BY <1>4 DEF DriveWebDies, TornByCrash, Mutable, Typed, DriveTypeOK, Requested, disks,
              driveStore, jobs
<1>5. CASE PowerCut
  <2>1. \A d \in Drives, e \in Entry :
          <<[dev |-> d, mp |-> e.mp, live |-> TRUE]>> \in Seq(Mounted)
    BY DEF Mounted, Entry
  <2>2. \/ mounts' = <<>>
        \/ \E d \in plugged, e \in fstab :
             mounts' = <<[dev |-> d, mp |-> e.mp, live |-> TRUE]>>
    <3> DEFINE found == {d \in plugged : \E e \in fstab : uuid[d] = e.uuid}
    <3>1. IF found = {} THEN mounts' = <<>>
          ELSE \E d \in found, e \in fstab :
                 mounts' = <<[dev |-> d, mp |-> e.mp, live |-> TRUE]>>
      BY <1>5, Zenon DEF PowerCut
    <3>2. found \subseteq plugged
      OBVIOUS
    <3> HIDE DEF found
    <3>3. QED
      BY <3>1, <3>2
  <2>3. mounts' \in Seq(Mounted)
    <3>1. plugged \subseteq Drives /\ fstab \subseteq Entry
      BY DEF Typed, DriveTypeOK
    <3>2. CASE mounts' = <<>>
      BY <3>2
    <3>3. ASSUME NEW d \in plugged, NEW e \in fstab,
                 mounts' = <<[dev |-> d, mp |-> e.mp, live |-> TRUE]>>
          PROVE  mounts' \in Seq(Mounted)
      BY <2>1, <3>1, <3>3
    <3>4. QED
      BY <2>2, <3>2, <3>3
  <2>4. QED
    BY <1>5, <2>3 DEF PowerCut, TornByCrash, Typed, DriveTypeOK, Requested, Script, Mounted
<1>6. QED
  BY <1>1, <1>2, <1>3, <1>4, <1>5 DEF Environment

LEMMA DriveStepTypes ==
  ASSUME Typed, [DriveNext]_driveVars
  PROVE  Typed'
<1>1. CASE DriveNext
  BY <1>1, SetupTypes, RollbackTypes, RemovalTypes, FormatTypes, RemountTypes,
     OtherWriterTypes, ScriptTypes, EnvironmentTypes DEF DriveNext, Setup, Removal
<1>2. CASE UNCHANGED driveVars
  BY <1>2 DEF driveVars, Typed, DriveTypeOK
<1>3. QED
  BY <1>1, <1>2

(***************************************************************************)
(* A setup: what it has written and what it can restore.                   *)
(***************************************************************************)
StoreInv == WayForward /\ WayBack /\ Agree

LEMMA DriveGotoKeeps ==
  ASSUME driveWeb \in SetupRequest, NEW pc, DriveGoto(pc)
  PROVE  /\ driveWeb'.pc = pc /\ driveWeb'.kind = "setup"
         /\ driveWeb'.mp = driveWeb.mp /\ driveWeb'.uuid = driveWeb.uuid
         /\ driveWeb'.prev = driveWeb.prev /\ driveWeb'.backup = driveWeb.backup
         /\ driveWeb'.oldShare = driveWeb.oldShare /\ driveWeb'.confSet = driveWeb.confSet
         /\ driveWeb'.before = driveWeb.before
BY DEF DriveGoto, SetupRequest

LEMMA AskSetupInv ==
  ASSUME Typed, StoreInv, NEW d \in Drives, NEW m \in MountPoints, AskSetup(d, m)
  PROVE  StoreInv'
<1>1. driveWeb = DriveIdle
  BY WhichRequest DEF AskSetup, IsAt
<1>2. /\ driveWeb'.kind = "setup" /\ driveWeb'.pc = "fstab"
      /\ driveWeb'.prev = driveConf /\ driveWeb'.oldShare = {}
      /\ driveWeb'.before = <<fstab, driveConf, driveShare>>
      /\ UNCHANGED <<fstab, units, driveConf, driveShare, driveTorn>>
  BY DEF AskSetup, driveStore
<1>3. "setup" \notin driveTorn =>
        units = fstab /\ Coherent(fstab, driveConf, driveShare)
  BY <1>1 DEF StoreInv, Agree, Coherent, DriveIdle
<1>4. QED
  BY <1>2, <1>3 DEF StoreInv, WayForward, WayBack, Agree, Coherent, OldFstab, OldConf, OldPath

LEMMA ForwardInv ==
  ASSUME Typed, StoreInv,
         \/ WriteFstab \/ ReloadUnits \/ MountNtfs \/ MountRefused \/ ReplaceSharePath
         \/ SetConfigValues \/ SetupStepFails
  PROVE  StoreInv'
<1>1. driveWeb \in SetupRequest
  BY WhichRequest DEF WriteFstab, ReloadUnits, MountNtfs, MountRefused, ReplaceSharePath,
     SetConfigValues, SetConf, SetupStepFails, Fails, FaultAt, IsAt, SetupSteps
<1>2. driveWeb.kind = "setup"
  BY <1>1 DEF SetupRequest
<1> USE DEF StoreInv, WayForward, WayBack, Agree, Coherent, OldFstab, OldConf, OldPath,
            ShareKept
<1>3. CASE WriteFstab
  <2>1. /\ driveWeb'.pc = "reload" /\ driveWeb'.kind = "setup"
        /\ driveWeb'.mp = driveWeb.mp /\ driveWeb'.uuid = driveWeb.uuid
        /\ driveWeb'.prev = driveWeb.prev /\ driveWeb'.backup = fstab
        /\ driveWeb'.oldShare = driveWeb.oldShare /\ driveWeb'.before = driveWeb.before
    BY <1>1, <1>3 DEF WriteFstab, SetupRequest
  <2>2. QED
    BY <1>2, <1>3, <2>1 DEF WriteFstab, IsAt
<1>4. CASE ReloadUnits
  BY <1>1, <1>2, <1>4, DriveGotoKeeps DEF ReloadUnits, IsAt
<1>5. CASE MountNtfs
  <2>1. /\ driveWeb'.pc = "share" /\ driveWeb'.kind = "setup"
        /\ driveWeb'.mp = driveWeb.mp /\ driveWeb'.uuid = driveWeb.uuid
        /\ driveWeb'.prev = driveWeb.prev /\ driveWeb'.backup = driveWeb.backup
        /\ driveWeb'.oldShare = driveWeb.oldShare /\ driveWeb'.before = driveWeb.before
    BY <1>1, <1>5 DEF MountNtfs, SetupRequest
  <2>2. QED
    BY <1>2, <1>5, <2>1 DEF MountNtfs, IsAt, driveStore
<1>6. CASE MountRefused
  BY <1>1, <1>2, <1>6, DriveGotoKeeps DEF MountRefused, IsAt, Mutable, driveStore
<1>7. CASE ReplaceSharePath
  <2>1. /\ driveWeb'.pc = "confMp" /\ driveWeb'.kind = "setup"
        /\ driveWeb'.mp = driveWeb.mp /\ driveWeb'.uuid = driveWeb.uuid
        /\ driveWeb'.prev = driveWeb.prev /\ driveWeb'.backup = driveWeb.backup
        /\ driveWeb'.oldShare = IF driveShare = {driveWeb.mp} THEN {} ELSE driveShare
        /\ driveWeb'.confSet = TRUE /\ driveWeb'.before = driveWeb.before
    BY <1>1, <1>7 DEF ReplaceSharePath, SetupRequest
  <2>2. /\ driveShare' = IF driveShare = {} THEN {} ELSE {driveWeb.mp}
        /\ driveWeb.pc = "share" /\ UNCHANGED <<fstab, units, driveConf, driveTorn>>
    BY <1>7 DEF ReplaceSharePath, IsAt
  <2>3. driveShare' \subseteq {driveWeb'.mp}
    BY <2>1, <2>2
  <2>4. driveShare = OldPath => ShareKept'
    BY <2>1, <2>2
  <2>5. QED
    BY <1>2, <2>1, <2>2, <2>3, <2>4
<1>8. CASE SetConfigValues
  <2>1. ASSUME NEW pc, NEW next, NEW c, next # "idle", SetConf(pc, next, c)
        PROVE  /\ driveWeb.pc = pc /\ driveConf' = c
               /\ driveWeb'.pc = next /\ driveWeb'.kind = "setup"
               /\ driveWeb'.mp = driveWeb.mp /\ driveWeb'.uuid = driveWeb.uuid
               /\ driveWeb'.prev = driveWeb.prev /\ driveWeb'.backup = driveWeb.backup
               /\ driveWeb'.oldShare = driveWeb.oldShare
               /\ driveWeb'.confSet = driveWeb.confSet
               /\ driveWeb'.before = driveWeb.before
               /\ UNCHANGED <<fstab, units, driveShare, driveTorn>>
    <3>1. /\ driveWeb.pc = pc /\ driveConf' = c /\ DriveGoto(next)
          /\ UNCHANGED <<fstab, units, driveShare, driveTorn>>
      BY <2>1 DEF SetConf, IsAt, DriveGoto
    <3>2. QED
      BY <1>1, <3>1, DriveGotoKeeps
  <2>2. ASSUME SetConf("confMp", "confUuid", [driveConf EXCEPT !.mp = driveWeb.mp])
        PROVE  StoreInv'
    <3>1. driveConf'.mp = driveWeb.mp
      BY <2>1, <2>2 DEF Typed, DriveTypeOK
    <3>2. QED
      BY <1>2, <2>1, <2>2, <3>1
  <2>3. ASSUME SetConf("confUuid", "confUsb", [driveConf EXCEPT !.uuid = driveWeb.uuid])
        PROVE  StoreInv'
    <3>1. driveConf'.uuid = driveWeb.uuid /\ driveConf'.mp = driveConf.mp
      BY <2>1, <2>3 DEF Typed, DriveTypeOK
    <3>2. QED
      BY <1>2, <2>1, <2>3, <3>1
  <2>4. ASSUME SetConf("confUsb", "idle", [driveConf EXCEPT !.usb = {driveWeb.dev}])
        PROVE  StoreInv'
    <3>1. /\ driveWeb.pc = "confUsb" /\ driveWeb'.kind = "none"
          /\ driveTorn' = driveTorn \ {"setup", "import", "share"}
          /\ driveConf'.uuid = driveConf.uuid /\ driveConf'.mp = driveConf.mp
          /\ UNCHANGED <<fstab, units, driveShare>>
      BY <2>4 DEF SetConf, IsAt, DriveIdle, Typed, DriveTypeOK
    <3>2. QED
      BY <1>2, <3>1
  <2>5. QED
    BY <1>8, <2>2, <2>3, <2>4 DEF SetConfigValues
<1>9. CASE SetupStepFails
  <2>1. PICK pc \in {"fstab", "reload", "mount", "share", "confMp", "confUuid", "confUsb"} :
          /\ driveWeb.pc = pc /\ DriveGoto(IF pc = "fstab" THEN "failed" ELSE "undoMount")
          /\ UNCHANGED <<driveStore, driveTorn>>
    BY <1>9 DEF SetupStepFails, Fails, FaultAt, IsAt, Mutable
  <2>2. QED
    BY <1>1, <1>2, <2>1, DriveGotoKeeps DEF driveStore
<1>10. QED
  BY <1>3, <1>4, <1>5, <1>6, <1>7, <1>8, <1>9

LEMMA RollbackInv ==
  ASSUME Typed, StoreInv,
         UndoMount \/ UndoFstab \/ UndoReload \/ UndoShare \/ UndoConfig \/ RollbackFails
  PROVE  StoreInv'
<1>1. driveWeb \in SetupRequest
  BY WhichRequest DEF UndoMount, UndoFstab, UndoReload, UndoShare, UndoConfig, SetConf,
     RollbackFails, FaultAt, IsAt, SetupSteps
<1>2. driveWeb.kind = "setup"
  BY <1>1 DEF SetupRequest
<1> USE DEF StoreInv, WayForward, WayBack, Agree, Coherent, OldFstab, OldConf, OldPath,
            ShareKept
<1>3. CASE UndoMount
  BY <1>1, <1>2, <1>3, DriveGotoKeeps DEF UndoMount, IsAt, driveStore
<1>4. CASE UndoFstab
  BY <1>1, <1>2, <1>4, DriveGotoKeeps DEF UndoFstab, IsAt
<1>5. CASE UndoReload
  BY <1>1, <1>2, <1>5, DriveGotoKeeps DEF UndoReload, IsAt
<1>6. CASE UndoShare
  BY <1>1, <1>2, <1>6, DriveGotoKeeps DEF UndoShare, AfterShare, IsAt
<1>7. CASE UndoConfig
  <2>1. ASSUME NEW pc, NEW next, NEW c, next # "idle", SetConf(pc, next, c)
        PROVE  /\ driveWeb.pc = pc /\ driveConf' = c
               /\ driveWeb'.pc = next /\ driveWeb'.kind = "setup"
               /\ driveWeb'.prev = driveWeb.prev
               /\ driveWeb'.before = driveWeb.before
               /\ UNCHANGED <<fstab, units, driveShare, driveTorn>>
    <3>1. /\ driveWeb.pc = pc /\ driveConf' = c /\ DriveGoto(next)
          /\ UNCHANGED <<fstab, units, driveShare, driveTorn>>
      BY <2>1 DEF SetConf, IsAt, DriveGoto
    <3>2. QED
      BY <1>1, <3>1, DriveGotoKeeps
  <2>2. driveConf \in BackupConf /\ OldConf \in BackupConf
    BY <1>1 DEF SetupRequest, Typed, DriveTypeOK, BackupConf
  <2>3. ASSUME SetConf("undoMp", "undoUuid", [driveConf EXCEPT !.mp = driveWeb.prev.mp])
        PROVE  StoreInv'
    <3>1. driveConf'.mp = driveWeb.prev.mp
      BY <2>1, <2>2, <2>3 DEF BackupConf
    <3>2. QED
      BY <1>2, <2>1, <2>3, <3>1
  <2>4. ASSUME SetConf("undoUuid", "undoUsb", [driveConf EXCEPT !.uuid = driveWeb.prev.uuid])
        PROVE  StoreInv'
    <3>1. driveConf'.uuid = driveWeb.prev.uuid /\ driveConf'.mp = driveConf.mp
      BY <2>1, <2>2, <2>4 DEF BackupConf
    <3>2. QED
      BY <1>2, <2>1, <2>4, <3>1
  <2>5. ASSUME SetConf("undoUsb", "failed", [driveConf EXCEPT !.usb = driveWeb.prev.usb])
        PROVE  StoreInv'
    <3> DEFINE new == [driveConf EXCEPT !.usb = driveWeb.prev.usb]
    <3>1. driveConf' = new /\ driveWeb.pc = "undoUsb" /\ driveWeb'.pc = "failed"
      BY <2>1, <2>5
    <3>2. new = [mp |-> driveConf.mp, uuid |-> driveConf.uuid, usb |-> driveWeb.prev.usb]
      BY <2>2 DEF BackupConf
    <3>3. "setup" \notin driveTorn => new = OldConf
      <4>1. OldConf = [mp |-> OldConf.mp, uuid |-> OldConf.uuid, usb |-> OldConf.usb]
        BY <2>2 DEF BackupConf
      <4>2. "setup" \notin driveTorn =>
              /\ driveConf.mp = OldConf.mp /\ driveConf.uuid = OldConf.uuid
              /\ driveWeb.prev = OldConf
        BY <1>2, <3>1
      <4> HIDE DEF OldConf
      <4>3. QED
        BY <3>2, <4>1, <4>2
    <3> HIDE DEF new
    <3>4. QED
      BY <1>2, <2>1, <2>5, <3>1, <3>3
  <2>6. QED
    BY <1>7, <2>3, <2>4, <2>5 DEF UndoConfig
<1>8. CASE RollbackFails
  <2>1. PICK next \in {"failed", "undoMp"} : DriveGoto(next)
    BY <1>8 DEF RollbackFails, FaultAt, AfterShare
  <2>2. "setup" \in driveTorn'
    BY <1>8 DEF RollbackFails
  <2>3. QED
    BY <1>1, <2>1, <2>2, DriveGotoKeeps
<1>9. QED
  BY <1>3, <1>4, <1>5, <1>6, <1>7, <1>8

\* A step that leaves alone what a setup changes.
LEMMA ElsewhereInv ==
  ASSUME StoreInv, UNCHANGED driveStore,
         \A x \in {"setup", "import", "share"} : x \in driveTorn <=> x \in driveTorn',
         \/ UNCHANGED driveWeb
         \/ driveWeb.kind # "setup" /\ driveWeb'.kind # "setup"
  PROVE  StoreInv'
BY DEF StoreInv, WayForward, WayBack, Agree, Coherent, OldFstab, OldConf, OldPath, ShareKept,
       driveStore

\* The answer to a setup that failed.
LEMMA FailedInv ==
  ASSUME Typed, StoreInv, Failed
  PROVE  StoreInv'
<1>1. driveWeb.pc = "failed" /\ driveWeb' = DriveIdle /\ UNCHANGED <<driveStore, driveTorn>>
  BY DEF Failed, IsAt, Finish, Mutable
<1>2. CASE driveWeb.kind # "setup"
  BY <1>1, <1>2, ElsewhereInv DEF DriveIdle
<1>3. CASE driveWeb.kind = "setup"
  BY <1>1, <1>3 DEF StoreInv, WayForward, WayBack, Agree, Coherent, OldFstab, OldConf, OldPath,
                    DriveIdle, driveStore
<1>4. QED
  BY <1>2, <1>3

LEMMA RemovalInv ==
  ASSUME Typed, StoreInv, Removal \/ Remount
  PROVE  StoreInv'
<1>1. /\ UNCHANGED driveStore
      /\ \A x \in {"setup", "import", "share"} : x \in driveTorn <=> x \in driveTorn'
  BY DEF Removal, Remount, AskUnmount, StopCheck, StopBackup, StopSmb, StopTimesOut, Umount,
         PowerDown, UmountFails, StartSmb, StartSmbFails, UnmountPartition, AskFormat,
         EraseDisk, MakeFileSystem, FormatFails, AskMount, CheckEntry, MountDrive,
         MountDriveFails, StartCheckNow, StartBackupNow, StartSmbNow, StartTimesOut, Fails,
         FaultAt, Mutable
<1>2. CASE \E d \in Drives : UnmountPartition(d)
  BY <1>1, <1>2, ElsewhereInv DEF UnmountPartition
<1>3. CASE ~\E d \in Drives : UnmountPartition(d)
  <2>1. driveWeb.kind # "setup"
    BY <1>3, WhichRequest DEF Removal, Remount, AskUnmount, StopCheck, StopBackup, StopSmb,
         StopTimesOut, Umount, PowerDown, UmountFails, StartSmb, StartSmbFails, AskFormat,
         EraseDisk, MakeFileSystem, FormatFails, AskMount, CheckEntry, MountDrive,
         MountDriveFails, StartCheckNow, StartBackupNow, StartSmbNow, StartTimesOut, Fails,
         FaultAt, IsAt, UnmountRequest, FormatRequest, MountRequest, DriveIdle
  <2>2. driveWeb'.kind # "setup"
    <3>1. CASE \/ AskUnmount \/ StartSmb \/ MakeFileSystem \/ AskMount \/ StartSmbNow
               \/ \E d \in Drives : AskFormat(d)
      BY <3>1 DEF AskUnmount, StartSmb, MakeFileSystem, AskMount, StartSmbNow, AskFormat,
           Finish, DriveIdle
    <3>2. CASE \/ StopCheck \/ StopBackup \/ StopSmb \/ StopTimesOut \/ Umount \/ PowerDown
               \/ UmountFails \/ StartSmbFails
      <4>1. \E pc : DriveGoto(pc)
        BY <3>2 DEF StopCheck, StopBackup, StopSmb, StopTimesOut, Umount, PowerDown,
             UmountFails, StartSmbFails, Fails, FaultAt
      <4>2. QED
        BY <2>1, <4>1, GotoKind
    <3>3. CASE \/ EraseDisk \/ FormatFails \/ CheckEntry \/ MountDriveFails
               \/ StartCheckNow \/ StartBackupNow \/ StartTimesOut
      <4>1. (\E pc : DriveGoto(pc)) \/ driveWeb' = DriveIdle
        BY <3>3 DEF EraseDisk, FormatFails, CheckEntry, MountDriveFails, StartCheckNow,
             StartBackupNow, StartTimesOut, Fails, FaultAt, Finish
      <4>2. QED
        BY <2>1, <4>1, GotoKind DEF DriveIdle
    <3>4. CASE MountDrive
      BY <2>1, <3>4 DEF MountDrive
    <3>5. QED
      BY <1>3, <3>1, <3>2, <3>3, <3>4 DEF Removal, Remount
  <2>3. QED
    BY <1>1, <2>1, <2>2, ElsewhereInv
<1>4. QED
  BY <1>2, <1>3

\* The other writers: what they change is excused in Agree, by the flag they set
\* and until what they set it for is put right.
LEMMA OtherWritersInv ==
  ASSUME Typed, StoreInv, OtherWriters
  PROVE  StoreInv'
<1>1. CASE EditShare \/ CompleteShare
  <2>1. driveWeb = DriveIdle /\ driveWeb' = DriveIdle
    BY <1>1, WhichRequest DEF EditShare, CompleteShare, IsAt
  <2>2. UNCHANGED <<fstab, units, driveConf>>
    BY <1>1 DEF EditShare, CompleteShare
  <2>3. /\ "setup" \in driveTorn' <=> "setup" \in driveTorn
        /\ "import" \in driveTorn' <=> "import" \in driveTorn
        /\ "share" \notin driveTorn' => driveShare' \subseteq {driveConf.mp}
    BY <1>1 DEF EditShare, CompleteShare
  <2>4. QED
    BY <2>1, <2>2, <2>3 DEF StoreInv, WayForward, WayBack, Agree, DriveIdle
<1>2. CASE ImportConfig
  <2>1. driveWeb = DriveIdle
    BY <1>2, WhichRequest DEF ImportConfig, IsAt
  <2>2. /\ driveWeb'.kind = "import" /\ UNCHANGED <<fstab, units>>
        /\ driveTorn' = driveTorn \cup {"import", "share"}
    BY <1>2 DEF ImportConfig
  <2>3. QED
    BY <2>1, <2>2 DEF StoreInv, WayForward, WayBack, Agree, DriveIdle
<1>3. CASE ImportShare
  <2>1. driveWeb.kind = "import"
    BY <1>3, WhichRequest DEF ImportShare, IsAt, ImportRequest
  <2>2. /\ driveWeb' = DriveIdle /\ UNCHANGED <<fstab, units, driveConf>>
        /\ driveTorn' = driveTorn \ {"share"} /\ driveShare' = {driveConf.mp}
    BY <1>3 DEF ImportShare, Finish
  <2>3. QED
    BY <2>1, <2>2 DEF StoreInv, WayForward, WayBack, Agree, DriveIdle
<1>4. CASE ImportFails
  <2>1. UNCHANGED <<driveStore, driveTorn>> /\ DriveGoto("failed")
    BY <1>4 DEF ImportFails, Fails, FaultAt, Mutable
  <2>2. driveWeb.kind = "import"
    BY <1>4, WhichRequest DEF ImportFails, Fails, FaultAt, IsAt, ImportRequest
  <2>3. QED
    BY <2>1, <2>2, GotoKind, ElsewhereInv
<1>5. QED
  BY <1>1, <1>2, <1>3, <1>4 DEF OtherWriters

\* The scripts and the environment.
LEMMA OutsideInv ==
  ASSUME Typed, StoreInv, Scripts \/ Environment
  PROVE  StoreInv'
<1>1. CASE DriveWebDies
  <2>1. /\ UNCHANGED driveStore /\ driveWeb' = DriveIdle
        /\ driveTorn' = driveTorn \cup ({driveWeb.kind} \cap {"setup", "unmount"})
    BY <1>1 DEF DriveWebDies, TornByCrash, Mutable
  <2>2. CASE driveWeb.kind = "setup"
    BY <2>1, <2>2 DEF StoreInv, WayForward, WayBack, Agree, DriveIdle
  <2>3. CASE driveWeb.kind # "setup"
    BY <2>1, <2>3, ElsewhereInv DEF DriveIdle
  <2>4. QED
    BY <2>2, <2>3
<1>2. CASE PowerCut
  <2>1. /\ UNCHANGED <<fstab, driveConf, driveShare>> /\ units' = fstab
        /\ driveWeb' = DriveIdle
        /\ driveTorn' = (driveTorn \cup ({driveWeb.kind} \cap {"setup", "unmount"})) \ {"unmount"}
    BY <1>2 DEF PowerCut, TornByCrash
  <2>2. QED
    BY <2>1 DEF StoreInv, WayForward, WayBack, Agree, DriveIdle
<1>3. CASE Scripts \/ \E d \in Drives : Unplug(d) \/ Plug(d) \/ \E m \in MountPoints : Automount(d, m)
  <2>1. UNCHANGED <<driveStore, driveTorn, driveWeb>>
    BY <1>3 DEF Scripts, CheckTimer, CheckStep, CheckActive, CheckIo, CheckAgain, BackupTimer,
       BackupCopies, BackupEnds, Unplug, Plug, Automount, others
  <2>2. QED
    BY <2>1, ElsewhereInv
<1>4. QED
  BY <1>1, <1>2, <1>3 DEF Environment

LEMMA StoreStep ==
  ASSUME Typed, StoreInv, [DriveNext]_driveVars
  PROVE  StoreInv'
<1>1. CASE DriveNext
  BY <1>1, AskSetupInv, ForwardInv, RollbackInv, FailedInv, RemovalInv,
     OtherWritersInv, OutsideInv
     DEF DriveNext, Setup
<1>2. CASE UNCHANGED driveVars
  BY <1>2, ElsewhereInv DEF driveVars, driveStore
<1>3. QED
  BY <1>1, <1>2

(***************************************************************************)
(* File sharing.                                                           *)
(***************************************************************************)
SharingStopped == {"umount", "powerDown", "startSmb"}

LEMMA SharingStep ==
  ASSUME Typed, SharingReturns, [DriveNext]_driveVars
  PROVE  SharingReturns'
<1> USE DEF SharingReturns, IsAt
<1>1. ASSUME smb' = smb, driveTorn \subseteq driveTorn', driveWeb.pc \notin SharingStopped
      PROVE  SharingReturns'
  BY <1>1 DEF SharingStopped
<1>2. CASE Setup \/ Failed
  <2>1. driveWeb.pc \in SetupSteps \cup {"idle", "failed"}
    BY <1>2 DEF Setup, AskSetup, WriteFstab, ReloadUnits, MountNtfs, MountRefused,
       ReplaceSharePath, SetConfigValues, SetupStepFails, UndoMount, UndoFstab, UndoReload,
       UndoShare, UndoConfig, SetConf, RollbackFails, Fails, FaultAt, Failed, SetupSteps
  <2>2. smb' = smb
    BY <1>2 DEF Setup, AskSetup, WriteFstab, ReloadUnits, MountNtfs, MountRefused,
       ReplaceSharePath, SetConfigValues, SetupStepFails, UndoMount, UndoFstab, UndoReload,
       UndoShare, UndoConfig, SetConf, RollbackFails, Fails, FaultAt, Failed, Mutable
  <2>3. "unmount" \in driveTorn => "unmount" \in driveTorn'
    BY <1>2 DEF Setup, AskSetup, WriteFstab, ReloadUnits, MountNtfs, MountRefused,
       ReplaceSharePath, SetConfigValues, SetupStepFails, UndoMount, UndoFstab, UndoReload,
       UndoShare, UndoConfig, SetConf, RollbackFails, Fails, FaultAt, Failed
  <2>4. QED
    BY <2>1, <2>2, <2>3 DEF SetupSteps
<1>3. CASE StartSmb \/ StartSmbNow \/ PowerCut
  BY <1>3 DEF StartSmb, StartSmbNow, PowerCut
<1>4. CASE StopSmb \/ PowerDown \/ UmountFails
  BY <1>4, GotoKind DEF StopSmb, PowerDown, UmountFails, Fails, FaultAt
<1>5. CASE Umount
  <2>1. PICK next \in {"powerDown", "startSmb"} : DriveGoto(next)
    BY <1>5 DEF Umount
  <2>2. QED
    BY <2>1, GotoKind
<1>6. CASE StartSmbFails
  BY <1>6 DEF StartSmbFails
<1>7. CASE StopTimesOut
  <2>1. CASE "unmount" \in driveTorn'
    BY <2>1
  <2>2. CASE \E pc \in {"stopCheck", "stopBackup"} : Fails(pc, "failed")
    BY <1>1, <2>2 DEF Fails, FaultAt, Mutable, SharingStopped
  <2>3. QED
    BY <1>7, <2>1, <2>2 DEF StopTimesOut
<1>8. CASE \/ AskUnmount \/ StopCheck \/ StopBackup \/ EraseDisk \/ MakeFileSystem \/ FormatFails
           \/ \E d \in Drives : UnmountPartition(d) \/ AskFormat(d)
  BY <1>1, <1>8 DEF AskUnmount, StopCheck, StopBackup, EraseDisk, MakeFileSystem, FormatFails,
     UnmountPartition, AskFormat, Fails, FaultAt, Mutable, SharingStopped
<1>9. CASE \/ AskMount \/ CheckEntry \/ MountDrive \/ MountDriveFails \/ StartCheckNow
           \/ StartBackupNow \/ StartTimesOut
  BY <1>1, <1>9 DEF AskMount, CheckEntry, MountDrive, MountDriveFails, StartCheckNow,
     StartBackupNow, StartTimesOut, Mutable, SharingStopped
<1>10. CASE DriveWebDies
  <2>1. /\ UNCHANGED smb
        /\ driveTorn' = driveTorn \cup ({driveWeb.kind} \cap {"setup", "unmount"})
    BY <1>10 DEF DriveWebDies, TornByCrash, Mutable
  <2>2. driveWeb.pc \in SharingStopped => driveWeb.kind = "unmount"
    BY WhichRequest DEF SharingStopped, UnmountRequest
  <2>3. QED
    BY <2>1, <2>2 DEF SharingStopped
<1>11. CASE Scripts \/ \E d \in Drives : Unplug(d) \/ Plug(d) \/ \E m \in MountPoints : Automount(d, m)
  <2>1. UNCHANGED <<smb, driveTorn, driveWeb>>
    BY <1>11 DEF Scripts, CheckTimer, CheckStep, CheckActive, CheckIo, CheckAgain, BackupTimer,
       BackupCopies, BackupEnds, Unplug, Plug, Automount, others
  <2>2. QED
    BY <2>1
<1>12. CASE UNCHANGED driveVars
  BY <1>12 DEF driveVars
<1>13. CASE OtherWriters
  <2>1. /\ UNCHANGED smb /\ driveWeb.pc \notin SharingStopped
        /\ "unmount" \in driveTorn <=> "unmount" \in driveTorn'
    BY <1>13 DEF OtherWriters, EditShare, CompleteShare, ImportConfig, ImportShare,
       ImportFails, Fails, FaultAt, Mutable, SharingStopped
  <2>2. QED
    BY <2>1 DEF SharingStopped
<1>14. QED
  BY <1>2, <1>3, <1>4, <1>5, <1>6, <1>7, <1>8, <1>9, <1>10, <1>11, <1>12, <1>13
     DEF DriveNext, Removal, Remount, Environment

(***************************************************************************)
(* The mount button.                                                       *)
(***************************************************************************)
LEMMA GotoMount ==
  ASSUME driveWeb \in MountRequest, NEW pc, DriveGoto(pc)
  PROVE  /\ driveWeb'.pc = pc /\ driveWeb'.dev = driveWeb.dev /\ driveWeb'.mp = driveWeb.mp
         /\ driveWeb'.uuid = driveWeb.uuid /\ driveWeb'.mounted = driveWeb.mounted
BY DEF DriveGoto, MountRequest

LEMMA MountStep ==
  ASSUME Typed, AboutToMount, [DriveNext]_driveVars
  PROVE  AboutToMount'
<1> USE DEF AboutToMount, EntryHere, IsAt
<1>1. ASSUME UNCHANGED <<driveWeb, driveConf, fstab, uuid>>
      PROVE  AboutToMount'
  BY <1>1
<1>2. CASE Setup
  <2>1. CASE \E d \in Drives, m \in MountPoints : AskSetup(d, m)
    BY <2>1 DEF AskSetup
  <2>2. CASE ~\E d \in Drives, m \in MountPoints : AskSetup(d, m)
    <3>1. driveWeb.pc \in SetupSteps
      BY <1>2, <2>2 DEF Setup, WriteFstab, ReloadUnits, MountNtfs, MountRefused,
         ReplaceSharePath, SetConfigValues, SetupStepFails, UndoMount, UndoFstab, UndoReload,
         UndoShare, UndoConfig, SetConf, RollbackFails, Fails, FaultAt, SetupSteps
    <3>2. driveWeb \in SetupRequest
      BY <3>1, WhichRequest
    <3>3. driveWeb'.kind # "mount"
      <4>1. CASE WriteFstab \/ MountNtfs \/ ReplaceSharePath
        BY <3>2, <4>1 DEF WriteFstab, MountNtfs, ReplaceSharePath, SetupRequest
      <4>2. CASE SetConfigValues \/ UndoConfig
        <5>1. driveWeb' = DriveIdle \/ \E pc : DriveGoto(pc)
          BY <4>2 DEF SetConfigValues, UndoConfig, SetConf, DriveGoto
        <5>2. QED
          BY <3>2, <5>1, GotoKind DEF SetupRequest, DriveIdle
      <4>3. CASE \/ ReloadUnits \/ MountRefused \/ SetupStepFails \/ UndoMount \/ UndoFstab
                 \/ UndoReload \/ UndoShare \/ RollbackFails
        <5>1. \E pc : DriveGoto(pc)
          BY <4>3 DEF ReloadUnits, MountRefused, SetupStepFails, UndoMount, UndoFstab,
             UndoReload, UndoShare, RollbackFails, Fails, FaultAt
        <5>2. QED
          BY <3>2, <5>1, GotoKind DEF SetupRequest
      <4>4. QED
        BY <1>2, <2>2, <4>1, <4>2, <4>3 DEF Setup
    <3>4. QED
      BY <3>3
  <2>3. QED
    BY <2>1, <2>2
<1>3. CASE \/ AskUnmount \/ StartSmb \/ MakeFileSystem \/ StartSmbNow \/ Failed
           \/ DriveWebDies \/ PowerCut \/ \E d \in Drives : AskFormat(d)
  BY <1>3 DEF AskUnmount, StartSmb, MakeFileSystem, StartSmbNow, Failed, DriveWebDies, PowerCut,
     AskFormat, Finish, DriveIdle
<1>4. CASE \/ StopCheck \/ StopBackup \/ StopSmb \/ StopTimesOut \/ Umount \/ PowerDown
           \/ UmountFails \/ StartSmbFails \/ EraseDisk \/ FormatFails
  <2>1. \E pc : DriveGoto(pc)
    BY <1>4 DEF StopCheck, StopBackup, StopSmb, StopTimesOut, Umount, PowerDown, UmountFails,
       StartSmbFails, EraseDisk, FormatFails, Fails, FaultAt
  <2>2. driveWeb.kind # "mount"
    BY <1>4, WhichRequest DEF StopCheck, StopBackup, StopSmb, StopTimesOut, Umount, PowerDown,
       UmountFails, StartSmbFails, EraseDisk, FormatFails, Fails, FaultAt, UnmountRequest,
       FormatRequest
  <2>3. QED
    BY <2>1, <2>2, GotoKind
<1>5. CASE AskMount
  <2>1. PICK d \in Drives :
          /\ WithUuid(driveConf.uuid) = {d}
          /\ driveWeb' = [kind |-> "mount", pc |-> "entry", dev |-> d, mp |-> driveConf.mp,
                          uuid |-> driveConf.uuid, mounted |-> FALSE]
    BY <1>5 DEF AskMount
  <2>2. uuid[d] = driveConf.uuid
    BY <2>1 DEF WithUuid
  <2>3. UNCHANGED <<driveConf, uuid>>
    BY <1>5 DEF AskMount, disks, driveStore
  <2>4. QED
    BY <2>1, <2>2, <2>3
<1>6. CASE CheckEntry \/ MountDriveFails \/ StartCheckNow \/ StartBackupNow \/ StartTimesOut
  <2>1. driveWeb \in MountRequest
    BY <1>6, WhichRequest DEF CheckEntry, MountDriveFails, StartCheckNow, StartBackupNow,
       StartTimesOut
  <2>2. UNCHANGED <<driveConf, fstab, uuid>>
    BY <1>6 DEF CheckEntry, MountDriveFails, StartCheckNow, StartBackupNow, StartTimesOut,
       Mutable, disks, driveStore
  <2>3. CASE CheckEntry
    BY <2>1, <2>2, <2>3, GotoMount DEF CheckEntry, Finish, DriveIdle, MountRequest
  <2>4. CASE MountDriveFails \/ StartCheckNow \/ StartBackupNow \/ StartTimesOut
    <3>1. PICK pc \in {"waitCheck", "waitBackup", "failed"} :
            DriveGoto(pc) /\ (pc # "failed" => driveWeb.pc \in {"startCheck", "waitCheck"})
      BY <2>4 DEF MountDriveFails, StartCheckNow, StartBackupNow, StartTimesOut
    <3>2. QED
      BY <2>1, <2>2, <3>1, GotoMount DEF MountRequest
  <2>5. QED
    BY <1>6, <2>3, <2>4
<1>7. CASE MountDrive
  <2>1. driveWeb \in MountRequest
    BY <1>7, WhichRequest DEF MountDrive
  <2>2. /\ driveWeb'.pc = "startCheck" /\ driveWeb'.dev = driveWeb.dev
        /\ driveWeb'.uuid = driveWeb.uuid /\ driveWeb'.mounted = TRUE
    BY <1>7, <2>1 DEF MountDrive, MountRequest
  <2>3. QED
    BY <1>7, <2>1, <2>2 DEF MountDrive, MountRequest, driveStore
<1>8. CASE \/ Scripts \/ \E d \in Drives : UnmountPartition(d)
           \/ \E d \in Drives : Unplug(d) \/ Plug(d) \/ \E m \in MountPoints : Automount(d, m)
  <2>1. UNCHANGED <<driveWeb, driveConf, fstab, uuid>>
    BY <1>8 DEF Scripts, CheckTimer, CheckStep, CheckActive, CheckIo, CheckAgain, BackupTimer,
       BackupCopies, BackupEnds, Unplug, Plug, Automount, UnmountPartition, others, disks,
       driveStore
  <2>2. QED
    BY <1>1, <2>1
<1>9. CASE UNCHANGED driveVars
  BY <1>1, <1>9 DEF driveVars
<1>10. CASE OtherWriters
  <2>1. driveWeb'.kind # "mount"
    <3>1. CASE EditShare \/ CompleteShare
      BY <3>1, WhichRequest DEF EditShare, CompleteShare, DriveIdle
    <3>2. CASE ImportConfig \/ ImportShare
      BY <3>2 DEF ImportConfig, ImportShare, Finish, DriveIdle
    <3>3. CASE ImportFails
      BY <3>3, WhichRequest, GotoKind DEF ImportFails, Fails, FaultAt, ImportRequest
    <3>4. QED
      BY <1>10, <3>1, <3>2, <3>3 DEF OtherWriters
  <2>2. QED
    BY <2>1
<1>11. QED
  BY <1>2, <1>3, <1>4, <1>5, <1>6, <1>7, <1>8, <1>9, <1>10 DEF DriveNext, Removal, Remount, Environment

\* Only mounting brings the request to the start of the units.
LEMMA StepToStart ==
  ASSUME Typed, DriveNext, driveWeb \in MountRequest, driveWeb.pc # "startCheck",
         driveWeb'.pc = "startCheck"
  PROVE  MountDrive
<1> USE DEF IsAt
<1>1. driveWeb.pc \notin SetupSteps \cup
        {"idle", "stopCheck", "stopBackup", "stopSmb", "umount", "powerDown", "startSmb",
         "erase", "mkfs", "importShare"}
  BY DEF MountRequest, SetupSteps
<1>2. ~Setup
  BY <1>1 DEF Setup, AskSetup, WriteFstab, ReloadUnits, MountNtfs, MountRefused,
     ReplaceSharePath, SetConfigValues, SetupStepFails, UndoMount, UndoFstab, UndoReload,
     UndoShare, UndoConfig, SetConf, RollbackFails, Fails, FaultAt, SetupSteps
<1>3. CASE Removal
  BY <1>1, <1>3 DEF Removal, AskUnmount, StopCheck, StopBackup, StopSmb, StopTimesOut, Umount,
     PowerDown, UmountFails, StartSmb, StartSmbFails, UnmountPartition, AskFormat, EraseDisk,
     MakeFileSystem, FormatFails, Fails, FaultAt
<1>4. CASE \/ Scripts
           \/ \E d \in Drives : Unplug(d) \/ Plug(d) \/ \E m \in MountPoints : Automount(d, m)
  BY <1>4 DEF Scripts, CheckTimer, CheckStep, CheckActive, CheckIo, CheckAgain, BackupTimer,
     BackupCopies, BackupEnds, Unplug, Plug, Automount, others
<1>5. ~(DriveWebDies \/ PowerCut \/ Failed \/ StartSmbNow)
  BY DEF DriveWebDies, PowerCut, Failed, StartSmbNow, Finish, DriveIdle
<1>6. ~(CheckEntry \/ MountDriveFails \/ StartCheckNow \/ StartBackupNow \/ StartTimesOut)
  <2>1. ASSUME \/ CheckEntry \/ MountDriveFails \/ StartCheckNow \/ StartBackupNow
               \/ StartTimesOut
        PROVE  FALSE
    <3>1. \/ driveWeb' = DriveIdle
          \/ \E pc \in {"mountDevice", "mountManaged", "waitCheck", "waitBackup", "failed"} :
               DriveGoto(pc)
      BY <2>1 DEF CheckEntry, MountDriveFails, StartCheckNow, StartBackupNow, StartTimesOut,
         Finish
    <3>2. QED
      BY <3>1, GotoMount DEF DriveIdle
  <2>2. QED
    BY <2>1
<1>7. ~AskMount
  BY <1>1 DEF AskMount
<1>8. ~OtherWriters
  BY <1>1 DEF OtherWriters, EditShare, CompleteShare, ImportConfig, ImportShare, ImportFails,
     Fails, FaultAt
<1>9. QED
  BY <1>2, <1>3, <1>4, <1>5, <1>6, <1>7, <1>8 DEF DriveNext, Remount, Environment

(***************************************************************************)
(* The invariant holds at the start and is kept by every step.             *)
(***************************************************************************)
LEMMA DriveInitInv ==
  ASSUME DriveInit
  PROVE  DriveInv
<1>1. /\ mounts = <<>> /\ plugged = Drives /\ uuid = DriveUuid /\ smb = TRUE
      /\ driveWeb = DriveIdle /\ chk = DriveIdle /\ bak = DriveIdle /\ units = fstab
      /\ driveTorn = {} /\ driveMoves = 0
  BY DEF DriveInit
<1>2. CASE fstab = {}
  <2>1. driveShare = {} /\ driveConf = [mp |-> DefaultMountPoint, uuid |-> NoUuid, usb |-> {}]
    BY <1>2 DEF DriveInit
  <2>2. Typed
    BY <1>1, <1>2, <2>1, DriveAssumption DEF Typed, DriveTypeOK, Requested, Script
  <2>3. QED
    BY <1>1, <1>2, <2>1, <2>2 DEF DriveInv, WayForward, WayBack, AboutToMount, Agree,
       SharingReturns, DriveIdle
<1>3. CASE fstab # {}
  <2>1. /\ fstab = {[uuid |-> DriveUuid[InitialDrive], mp |-> DefaultMountPoint]}
        /\ driveShare = {DefaultMountPoint}
        /\ driveConf = [mp |-> DefaultMountPoint, uuid |-> DriveUuid[InitialDrive],
                        usb |-> {InitialDrive}]
    BY <1>3 DEF DriveInit
  <2>2. Typed
    BY <1>1, <2>1, DriveAssumption DEF Typed, DriveTypeOK, Requested, Script, Entry
  <2>3. QED
    BY <1>1, <2>1, <2>2 DEF DriveInv, WayForward, WayBack, AboutToMount, Agree,
       SharingReturns, DriveIdle
<1>4. QED
  BY <1>2, <1>3

LEMMA DriveInvariance == DriveSpec => []DriveInv
<1>1. DriveInv /\ [DriveNext]_driveVars => DriveInv'
  BY DriveStepTypes, StoreStep, SharingStep, MountStep DEF DriveInv, StoreInv
<1>2. QED
  BY <1>1, DriveInitInv, PTL DEF DriveSpec

(***************************************************************************)
(* The theorems.                                                           *)
(***************************************************************************)
\* Type correctness: whatever the drives, the mount points and the failures.
THEOREM DriveTypesCorrect == DriveSpec => []DriveTypeOK
<1>1. DriveInv => DriveTypeOK
  BY DEF DriveInv, Typed
<1>2. QED
  BY <1>1, DriveInvariance, PTL

\* With no setup at work and none left half way: systemd has the units of fstab;
\* fstab and configuration name one drive and one mount point unless an import has
\* replaced the configuration since the last setup; and the share serves that mount
\* point unless an import or an edit of the share has come between.
THEOREM StoresAgree == DriveSpec => []Agree
<1>1. DriveInv => Agree
  BY DEF DriveInv
<1>2. QED
  BY <1>1, DriveInvariance, PTL

\* A setup answered with an error has changed nothing, whichever of its steps
\* failed, unless its rollback failed as well.
THEOREM SetupIsAllOrNothing == DriveSpec => []AllOrNothing
<1>1. DriveInv => AllOrNothing
  <2>1. SUFFICES ASSUME DriveInv, driveWeb.kind = "setup", driveWeb.pc = "failed",
                        "setup" \notin driveTorn
                 PROVE  driveWeb.before = <<fstab, driveConf, driveShare>> /\ units = fstab
    BY DEF AllOrNothing, IsAt
  <2>2. /\ fstab = OldFstab /\ driveConf = OldConf /\ driveShare = OldPath
        /\ units = fstab
    BY <2>1 DEF DriveInv, WayBack
  <2>3. driveWeb \in SetupRequest
    BY <2>1, WhichRequest DEF DriveInv
  <2>4. driveWeb.before = <<OldFstab, OldConf, OldPath>>
    BY <2>3 DEF SetupRequest, OldFstab, OldConf, OldPath
  <2>5. QED
    BY <2>2, <2>4
<1>2. QED
  BY <1>1, DriveInvariance, PTL

\* File sharing is down only during an unmount, or after a restart of the web
\* service or a failed systemctl in the middle of one.
THEOREM SharingIsRestored == DriveSpec => []SharingReturns
<1>1. DriveInv => SharingReturns
  BY DEF DriveInv
<1>2. QED
  BY <1>1, DriveInvariance, PTL

\* The mount button mounts the configured drive and no other, even after a setup
\* that was cut short between fstab and the configuration.
THEOREM ConfiguredDriveMounted == DriveSpec => RightDrive
<1>1. DriveInv /\ [DriveNext]_driveVars =>
        [driveWeb.kind = "mount" /\ ~driveWeb.mounted /\ driveWeb'.pc = "startCheck" =>
           uuid[mounts'[Len(mounts')].dev] = driveConf.uuid]_driveVars
  <2>1. SUFFICES ASSUME DriveInv, DriveNext, driveWeb.kind = "mount", ~driveWeb.mounted,
                        driveWeb'.pc = "startCheck"
                 PROVE  uuid[mounts'[Len(mounts')].dev] = driveConf.uuid
    OBVIOUS
  <2>2. driveWeb \in MountRequest
    BY <2>1, WhichRequest DEF DriveInv
  <2>3. MountDrive
    <3>1. driveWeb.pc # "startCheck"
      BY <2>1 DEF DriveInv, AboutToMount
    <3>2. QED
      BY <2>1, <2>2, <3>1, StepToStart DEF DriveInv
  <2>4. PICK d \in plugged :
          /\ \/ IsAt("mountManaged") /\ (\E e \in EntryHere : uuid[d] = e.uuid)
             \/ IsAt("mountDevice") /\ d = driveWeb.dev
          /\ Mount(d, driveWeb.mp)
    BY <2>3 DEF MountDrive
  <2>5. uuid[d] = driveConf.uuid
    BY <2>1, <2>4 DEF DriveInv, AboutToMount, IsAt
  <2>6. mounts'[Len(mounts')].dev = d
    <3>1. d \in Drives /\ driveWeb.mp \in MountPoints
      BY <2>1, <2>2 DEF DriveInv, Typed, DriveTypeOK, MountRequest
    <3>2. Typed /\ Mount(d, driveWeb.mp)
      BY <2>1, <2>4 DEF DriveInv
    <3>3. mounts'[Len(mounts')] = [dev |-> d, mp |-> driveWeb.mp, live |-> TRUE]
      BY <3>1, <3>2, MountTypes
    <3>4. QED
      BY <3>3
  <2>7. QED
    BY <2>5, <2>6
<1>2. QED
  BY <1>1, DriveInvariance, PTL DEF DriveSpec, RightDrive

=============================================================================
