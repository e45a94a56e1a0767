------------------------------ MODULE StoreProofs ------------------------------
(***************************************************************************)
(* Proofs about what the program keeps in files.  FilePersistence: for any *)
(* number of processes, calls and power cuts the updates of a small file   *)
(* are atomic and durable.  ConfigStore: for any number of threads,        *)
(* managers and settings no locked update is lost to another one, and a    *)
(* manager never shows a file older than what was saved through it.        *)
(***************************************************************************)
EXTENDS ConfigStore, FilePersistence, TLAPS

USE FileAssumption, ConfigAssumption

(***************************************************************************)
(* FilePersistence.                                                        *)
(***************************************************************************)
\* The phases in which a process holds the lock.
Critical == {"read", "sync", "replace", "syncdir", "return"}

\* A process in the critical section is alone there, so the file it read is the
\* file it replaces; every file that a power cut may leave is synced, holds what
\* was acknowledged and nothing that is not visible.
FileLockInv == \A p \in Procs : phase[p] \in Critical => lockHolder = p

TempInv ==
    \A p \in Procs :
      /\ phase[p] \in {"sync", "replace"} => temp[p].updates = visible.updates \cup {update[p]}
      /\ phase[p] = "replace" => temp[p].data = "synced"
      /\ phase[p] = "syncdir" => update[p] \in visible.updates
      /\ phase[p] = "return" => \A f \in onDisk : update[p] \in f.updates

DiskInv ==
    /\ visible \in onDisk
    /\ \A f \in onDisk : /\ f.data = "synced"
                         /\ acked \subseteq f.updates
                         /\ f.updates \subseteq visible.updates

FileInv == FileTypeOK /\ FileLockInv /\ TempInv /\ DiskInv

LEMMA FileInitInv == FileInit => FileInv
BY DEF FileInit, FileInv, FileTypeOK, FileLockInv, TempInv, DiskInv, File, EmptyFile, Phase,
       Critical

LEMMA LeaveInv ==
  ASSUME FileTypeOK, FileLockInv, NEW p \in Procs, Leave(p)
  PROVE  /\ FileLockInv'
         /\ lockHolder' \in Procs \cup {NoHolder}
         /\ phase' \in [Procs -> Phase]
         /\ phase'[p] = "idle"
         /\ \A q \in Procs : q # p => phase'[q] = phase[q]
BY DEF FileTypeOK, FileLockInv, Leave, Phase, Critical

\* Two processes are never in the critical section together.
LEMMA AloneInside ==
  ASSUME FileLockInv, NEW p \in Procs, NEW q \in Procs,
         phase[p] \in Critical, phase[q] \in Critical
  PROVE  p = q
BY DEF FileLockInv

LEMMA FileStepInv ==
  ASSUME FileInv, NEW p \in Procs, Step(p)
  PROVE  FileInv'
<1> USE DEF FileInv, FileTypeOK
<1>1. ASSUME NEW u \in Updates, Call(p, u)  PROVE FileInv'
  BY <1>1 DEF Call, FileLockInv, TempInv, DiskInv, Critical, Phase
<1>2. CASE Lock(p)
  BY <1>2 DEF Lock, FileLockInv, TempInv, DiskInv, Critical, Phase
<1>3. CASE ReadAndChange(p)
  BY <1>3 DEF ReadAndChange, FileLockInv, TempInv, DiskInv, Critical, Phase, File
<1>4. CASE SyncTemp(p)
  BY <1>4 DEF SyncTemp, FileLockInv, TempInv, DiskInv, Critical, Phase, File
<1>5. CASE Replace(p)
  BY <1>5 DEF Replace, FileLockInv, TempInv, DiskInv, Critical, Phase, File
<1>6. CASE SyncDirectory(p)
  BY <1>6 DEF SyncDirectory, FileLockInv, TempInv, DiskInv, Critical, Phase
<1>7. CASE Return(p)
  BY <1>7, LeaveInv DEF Return, TempInv, DiskInv
<1>8. CASE Abandon(p)
  BY <1>8, LeaveInv DEF Abandon, TempInv, DiskInv
<1>9. QED
  BY <1>1, <1>2, <1>3, <1>4, <1>5, <1>6, <1>7, <1>8 DEF Step, Work

LEMMA PowerCutInv ==
  ASSUME FileInv, PowerCut
  PROVE  FileInv' /\ visible' \in onDisk
<1>1. visible' \in onDisk
  <2>1. PICK f \in onDisk : visible' \in AfterPowerCut(f)
    BY DEF PowerCut
  <2>2. f.data = "synced" /\ f \in File
    BY DEF FileInv, DiskInv, FileTypeOK
  <2>3. AfterPowerCut(f) = {f}
    BY <2>2 DEF AfterPowerCut, File
  <2>4. QED
    BY <2>1, <2>3
<1>2. QED
  BY <1>1 DEF PowerCut, FileInv, FileTypeOK, FileLockInv, TempInv, DiskInv, Phase, Critical

LEMMA FileInvariance == FileSpec => []FileInv
<1>1. FileInv /\ [FileNext]_fileVars => FileInv'
  <2> SUFFICES ASSUME FileInv, [FileNext]_fileVars  PROVE FileInv'
    OBVIOUS
  <2>1. CASE FileNext
    BY <2>1, FileStepInv, PowerCutInv DEF FileNext
  <2>2. CASE UNCHANGED fileVars
    BY <2>2 DEF fileVars, FileInv, FileTypeOK, FileLockInv, TempInv, DiskInv
  <2>3. QED
    BY <2>1, <2>2
<1>2. QED
  BY FileInitInv, <1>1, PTL DEF FileSpec

\* The state keeps its types.
THEOREM FileTypeCorrect == FileSpec => []FileTypeOK
<1>1. FileInv => FileTypeOK
  BY DEF FileInv
<1>2. QED
  BY <1>1, FileInvariance, PTL

\* An update that a caller was told is done survives every power cut, and no
\* power cut ever leaves a torn file.
THEOREM AcknowledgedUpdatesSurvive == FileSpec => []AckedSurvive
<1>1. FileInv => AckedSurvive
  BY DEF FileInv, DiskInv, AckedSurvive
<1>2. QED
  BY <1>1, FileInvariance, PTL

\* locked_json_update implements the atomic, durable update of AtomicFile.
THEOREM UpdatesAreAtomic == FileSpec => RefinesAtomicFile
<1>1. FileInit => Atomic!Init
  BY DEF FileInit, Atomic!Init, EmptyFile
<1>2. FileInv /\ [FileNext]_fileVars => [Atomic!Next]_(Atomic!vars)
  <2> SUFFICES ASSUME FileInv, [FileNext]_fileVars  PROVE [Atomic!Next]_(Atomic!vars)
    OBVIOUS
  <2> USE DEF Atomic!vars
  <2>1. ASSUME NEW p \in Procs, Step(p)  PROVE [Atomic!Next]_(Atomic!vars)
    <3>1. CASE Replace(p)
      <4>1. /\ visible'.updates = visible.updates \cup {update[p]}
            /\ update[p] \in Updates /\ UNCHANGED acked
        BY <3>1 DEF Replace, FileInv, TempInv, FileTypeOK
      <4>2. CASE update[p] \in visible.updates
        BY <4>1, <4>2
      <4>3. CASE update[p] \notin visible.updates
        BY <4>1, <4>3 DEF Atomic!Next, Atomic!Apply
      <4>4. QED
        BY <4>2, <4>3
    <3>2. CASE Return(p)
      <4>1. /\ acked' = acked \cup {update[p]} /\ UNCHANGED visible
            /\ update[p] \in visible.updates /\ update[p] \in Updates
        BY <3>2 DEF Return, FileInv, TempInv, DiskInv, FileTypeOK
      <4>2. QED
        BY <4>1 DEF Atomic!Next, Atomic!Acknowledge
    <3>3. CASE ~Replace(p) /\ ~Return(p)
      BY <2>1, <3>3 DEF Step, Work, Call, Lock, ReadAndChange, SyncTemp, SyncDirectory, Abandon
    <3>4. QED
      BY <3>1, <3>2, <3>3
  <2>2. CASE PowerCut
    <3>1. visible'.updates \in SUBSET visible.updates /\ acked \subseteq visible'.updates
      BY <2>2, PowerCutInv DEF FileInv, DiskInv
    <3>2. QED
      BY <2>2, <3>1 DEF PowerCut, Atomic!Next, Atomic!PowerCut
  <2>3. CASE UNCHANGED fileVars
    BY <2>3 DEF fileVars
  <2>4. QED
    BY <2>1, <2>2, <2>3 DEF FileNext
<1>3. QED
  BY <1>1, <1>2, FileInvariance, PTL DEF FileSpec, RefinesAtomicFile, Atomic!Spec

(***************************************************************************)
(* ConfigStore.                                                            *)
(***************************************************************************)
Updating == [at : {"write", "publish"}, m : Managers, change : Change, base : Config]

\* Only the holder of the lock is in an update.
LockInv == \A t \in Threads : req[t].at \in {"write", "publish"} => holder = t

\* What was saved under the lock is in val.
Holds(val) == \A k \in Settings : lastSaved[k] # 0 => val[k] = lastSaved[k]

\* An update under way starts from a file with all that was saved before it; no
\* manager has saved anything newer than the file.
UpdateInv ==
    /\ Holds(file.val)
    /\ \A m \in Managers : savedVia[m] <= file.ver
    /\ \A t \in Threads :
         /\ req[t].at = "write" => Holds(req[t].base.val)
         /\ req[t].at = "publish" => req[t].base.ver <= file.ver

ConfigInv == TypeOK /\ LockInv /\ UpdateInv /\ ReadsOwnSaves

-----------------------------------------------------------------------------
(* Helpers                                                                 *)

LEMMA GotoEffect ==
  ASSUME TypeOK, NEW t \in Threads, NEW next \in Request, Goto(t, next)
  PROVE  /\ req' \in [Threads -> Request]
         /\ req'[t] = next
         /\ \A u \in Threads : u # t => req'[u] = req[u]
BY DEF TypeOK, Goto

LEMMA UpdatingType ==
  ASSUME TypeOK, NEW t \in Threads, req[t].at \in {"write", "publish"}
  PROVE  req[t] \in Updating
<1>1. req[t] \in Request
  BY DEF TypeOK
<1> QED
  BY <1>1 DEF Request, Updating, Idle

LEMMA ChangedType ==
  ASSUME NEW val \in Values, NEW change \in Change
  PROVE  Changed(val, change) \in Values
BY DEF Values, Change, Changed

LEMMA IdleType == Idle \in Request
BY DEF Request, Idle

LEMMA EmptyType == Empty \in Config
BY DEF Empty, Config, Values

-----------------------------------------------------------------------------
(* Types                                                                   *)

LEMMA StepType ==
  ASSUME TypeOK, NEW t \in Threads,
         \/ \E m \in Managers, k \in Settings : set_value(t, m, k)
         \/ Locked(t) \/ Load(t) \/ CompleteSetup(t) \/ WholeFile(t)
  PROVE  TypeOK'
<1> USE DEF TypeOK
<1>a. req[t] \in Request
  OBVIOUS
<1>1. ASSUME NEW m \in Managers, NEW k \in Settings, set_value(t, m, k)
      PROVE  TypeOK'
  <2> DEFINE next == [at |-> "lock", m |-> m,
                      change |-> [of |-> "setting", key |-> k, value |-> saves']]
  <2>1. saves' \in 1..MaxSaves
    BY <1>1 DEF set_value
  <2>2. next \in Request
    BY <2>1 DEF Request, Change
  <2>3. Goto(t, next)
    BY <1>1 DEF set_value
  <2>4. req' \in [Threads -> Request]
    BY <2>2, <2>3, GotoEffect
  <2> QED
    BY <1>1, <2>1, <2>4 DEF set_value
<1>2. CASE ReadLatest(t)
  <2> DEFINE next == [at |-> "write", m |-> req[t].m, change |-> req[t].change, base |-> file]
  <2>1. req[t] \in [at : {"lock"}, m : Managers, change : Change]
    BY <1>2, <1>a DEF ReadLatest, Request, Idle
  <2>2. next \in Request
    BY <2>1 DEF Request
  <2>3. Goto(t, next)
    BY <1>2 DEF ReadLatest
  <2>4. req' \in [Threads -> Request]
    BY <2>2, <2>3, GotoEffect
  <2> QED
    BY <1>2, <2>4 DEF ReadLatest
<1>3. CASE Write(t)
  <2> DEFINE new  == [ver |-> file.ver + 1, val |-> Changed(req[t].base.val, req[t].change)]
             next == [req[t] EXCEPT !.at = "publish", !.base = new]
  <2>1. req[t] \in Updating
    BY <1>3, UpdatingType DEF Write
  <2>2. Changed(req[t].base.val, req[t].change) \in Values
    BY <2>1, ChangedType DEF Updating, Config
  <2>3. new \in Config
    BY <2>2 DEF Config
  <2>4. next \in Request
    <3> HIDE DEF new
    <3> QED
      BY <2>1, <2>3 DEF Request, Updating
  <2>5. /\ Goto(t, next) /\ file' = new
        /\ lastSaved' = Changed(lastSaved, req[t].change)
    BY <1>3 DEF Write
  <2>7. lastSaved' \in Values
    BY <2>1, <2>5, ChangedType DEF Updating
  <2>6. req' \in [Threads -> Request]
    BY <2>4, <2>5, GotoEffect
  <2> QED
    BY <1>3, <2>3, <2>5, <2>6, <2>7 DEF Write, Config
<1>4. CASE WriteRaises(t)
  <2>1. req' \in [Threads -> Request]
    BY <1>4, IdleType, GotoEffect DEF WriteRaises
  <2> QED
    BY <1>4, <2>1 DEF WriteRaises
<1>5. CASE Publish(t)
  <2>1. req[t] \in Updating
    BY <1>5, UpdatingType DEF Publish
  <2>2. AfterUpdate(req[t]) \in Request
    BY <2>1 DEF AfterUpdate, Request, Updating, Idle
  <2>3. req' \in [Threads -> Request]
    BY <1>5, <2>2, GotoEffect DEF Publish
  <2> QED
    BY <1>5, <2>1, <2>3 DEF Publish, Updating, Config
<1>6. ASSUME NEW m \in Managers, NEW then \in {"idle", "snapshot"}, load_config(t, m, then)
      PROVE  TypeOK'
  <2>1. [at |-> "read", m |-> m, then |-> then] \in Request
    BY DEF Request
  <2>2. req' \in [Threads -> Request]
    BY <1>6, <2>1, GotoEffect DEF load_config
  <2> QED
    BY <1>6, <2>2, EmptyType DEF load_config
<1>7. CASE Reload(t)
  <2>1. req[t] \in [at : {"reload"}, m : Managers]
    BY <1>7, <1>a DEF Reload, Request, Idle
  <2>2. [at |-> "read", m |-> req[t].m, then |-> "idle"] \in Request
    BY <2>1 DEF Request
  <2>3. req' \in [Threads -> Request]
    BY <1>7, <2>2, GotoEffect DEF Reload
  <2> QED
    BY <1>7, <2>1, <2>3, EmptyType DEF Reload
<1>8. ASSUME NEW m \in Managers, Construct(t, m)
      PROVE  TypeOK'
  <2>1. [at |-> "read", m |-> m, then |-> "idle"] \in Request
    BY DEF Request
  <2>2. req' \in [Threads -> Request]
    BY <1>8, <2>1, GotoEffect DEF Construct
  <2> QED
    BY <1>8, <2>2 DEF Construct
<1>9. CASE ReadFile(t)
  <2> DEFINE next == IF req[t].then = "idle" THEN Idle
                     ELSE [at |-> "snapshot", m |-> req[t].m, key |-> SetupComplete]
  <2>1. req[t] \in [at : {"read"}, m : Managers, then : {"idle", "snapshot"}]
    BY <1>9, <1>a DEF ReadFile, Request, Idle
  <2>2. next \in Request
    BY <2>1 DEF Request, Idle
  <2>3. Goto(t, next)
    BY <1>9 DEF ReadFile
  <2>4. req' \in [Threads -> Request]
    BY <2>2, <2>3, GotoEffect
  <2>5. Merge(mem[req[t].m], file) \in Config
    BY <2>1 DEF Merge, Config, Values
  <2> QED
    BY <1>9, <2>1, <2>4, <2>5 DEF ReadFile
<1>10. CASE FileIsMissing(t)
  <2>1. req[t] \in [at : {"read"}, m : Managers, then : {"idle", "snapshot"}]
    BY <1>10, <1>a DEF FileIsMissing, Request, Idle
  <2>2. [at |-> "lock", m |-> req[t].m, change |-> [of |-> "nothing"]] \in Request
    BY <2>1 DEF Request, Change
  <2>3. req' \in [Threads -> Request]
    BY <1>10, <2>2, GotoEffect DEF FileIsMissing
  <2> QED
    BY <1>10, <2>3 DEF FileIsMissing
<1>11. ASSUME NEW m \in Managers, save_schedule(t, m)
       PROVE  TypeOK'
  <2>1. [at |-> "snapshot", m |-> m, key |-> Schedule] \in Request
    BY DEF Request
  <2>2. req' \in [Threads -> Request]
    BY <1>11, <2>1, GotoEffect DEF save_schedule
  <2> QED
    BY <1>11, <2>2 DEF save_schedule
<1>12. CASE Snapshot(t)
  <2> DEFINE change == [of |-> "setting", key |-> req[t].key, value |-> saves']
             copy   == mem[req[t].m].val
             snap   == IF req[t].key = Schedule THEN Changed(copy, change) ELSE copy
             next   == [at |-> "overwrite", m |-> req[t].m, change |-> change, snap |-> snap]
  <2>1. req[t] \in [at : {"snapshot"}, m : Managers, key : {Schedule, SetupComplete}]
    BY <1>12, <1>a DEF Snapshot, Request, Idle
  <2>2. saves' \in 1..MaxSaves
    BY <1>12 DEF Snapshot
  <2>3. change \in Change
    BY <2>1, <2>2 DEF Change
  <2>4. copy \in Values
    BY <2>1 DEF Config
  <2>5. snap \in Values
    BY <2>3, <2>4, ChangedType
  <2>6. next \in Request
    <3> HIDE DEF change, snap
    <3> QED
      BY <2>1, <2>3, <2>5 DEF Request
  <2>7. Goto(t, next)
    BY <1>12 DEF Snapshot
  <2>8. req' \in [Threads -> Request]
    <3> HIDE DEF next
    <3> QED
      BY <2>6, <2>7, GotoEffect
  <2> QED
    BY <1>12, <2>2, <2>8 DEF Snapshot
<1>13. CASE Overwrite(t)
  <2>1. req[t] \in [at : {"overwrite"}, m : Managers, snap : Values, change : Change]
    BY <1>13, <1>a DEF Overwrite, Request, Idle
  <2>2. [at |-> "lock", m |-> req[t].m, change |-> req[t].change] \in Request
    BY <2>1 DEF Request
  <2>3. req' \in [Threads -> Request]
    BY <1>13, <2>2, IdleType, GotoEffect DEF Overwrite
  <2>4. file' \in Config
    BY <1>13, <2>1 DEF Overwrite, Config, Values
  <2> QED
    BY <1>13, <2>3, <2>4 DEF Overwrite, Values
<1>14. CASE OverwriteFails(t)
  <2>1. req' \in [Threads -> Request]
    BY <1>14, IdleType, GotoEffect DEF OverwriteFails
  <2> QED
    BY <1>14, <2>1 DEF OverwriteFails
<1> QED
  BY <1>1, <1>2, <1>3, <1>4, <1>5, <1>6, <1>7, <1>8, <1>9, <1>10, <1>11, <1>12, <1>13, <1>14
     DEF Locked, Load, CompleteSetup, WholeFile

LEMMA InitType == Init => TypeOK
BY EmptyType, IdleType DEF Init, TypeOK, Empty, Values

\* Every variable keeps its type: whole-file writes and locked updates only ever
\* leave settings with values that were saved, in the file and in memory.
THEOREM TypeCorrect == Spec => []TypeOK
<1>1. TypeOK /\ [Next]_vars => TypeOK'
  <2> SUFFICES ASSUME TypeOK, [Next]_vars PROVE TypeOK'
    OBVIOUS
  <2>1. CASE Next
    BY <2>1, StepType DEF Next
  <2>2. CASE UNCHANGED vars
    BY <2>2 DEF vars, TypeOK
  <2> QED
    BY <2>1, <2>2
<1> QED
  BY InitType, <1>1, PTL DEF Spec

-----------------------------------------------------------------------------
(* Updates and reloads                                                     *)

LEMMA Alone ==
  ASSUME LockInv, NEW t \in Threads, NEW u \in Threads,
         req[t].at \in {"write", "publish"}, req[u].at \in {"write", "publish"}
  PROVE  t = u
BY DEF LockInv

\* A step that neither takes nor gives the lock, writes no locked update and
\* publishes none: the thread was not in an update and does not get into one.
LEMMA OutsideTheLock ==
  ASSUME ConfigInv, NEW t \in Threads, NEW next \in Request, Goto(t, next),
         req[t].at \notin {"write", "publish"}, next.at \notin {"write", "publish"},
         holder' = holder, savedVia' = savedVia, file'.ver \in Nat,
         \/ file' = file /\ lastSaved' = lastSaved
         \/ file'.ver >= file.ver /\ \A k \in Settings : lastSaved'[k] = 0
  PROVE  LockInv' /\ UpdateInv'
<1>1. /\ req'[t] = next
      /\ \A u \in Threads : u # t => req'[u] = req[u]
  BY GotoEffect DEF ConfigInv
<1>2. /\ file.ver \in Nat
      /\ \A m \in Managers : savedVia[m] \in Nat
      /\ \A u \in Threads : req[u].at = "publish" => req[u].base.ver \in Nat
  BY UpdatingType DEF ConfigInv, TypeOK, Config, Updating
<1>3. LockInv'
  BY <1>1 DEF ConfigInv, LockInv
<1>4. UpdateInv'
  BY <1>1, <1>2 DEF ConfigInv, UpdateInv, Holds
<1> QED
  BY <1>3, <1>4

\* A step that leaves memory alone and does not end a reload.
LEMMA OutsideAReload ==
  ASSUME ConfigInv, NEW t \in Threads, NEW next \in Request, Goto(t, next),
         req[t].at = "read" => \A m \in Managers : mem'[m].ver >= savedVia[m] \/ req[t].m # m,
         \A m \in Managers : \/ mem'[m] = mem[m]
                             \/ next.at = "read" /\ next.m = m
                             \/ mem'[m].ver >= savedVia[m],
         savedVia' = savedVia
  PROVE  ReadsOwnSaves'
<1>1. /\ req'[t] = next
      /\ \A u \in Threads : u # t => req'[u] = req[u]
  BY GotoEffect DEF ConfigInv
<1> SUFFICES ASSUME NEW m \in Managers, ~(mem'[m].ver >= savedVia[m])
             PROVE  Reloading(m)'
  BY DEF ReadsOwnSaves
<1>2. CASE next.at = "read" /\ next.m = m
  BY <1>1, <1>2 DEF Reloading
<1>3. CASE mem'[m] = mem[m]
  <2>1. PICK u \in Threads : req[u].at = "read" /\ req[u].m = m
    BY <1>3 DEF ConfigInv, ReadsOwnSaves, Reloading
  <2>2. u # t
    BY <2>1
  <2> QED
    BY <1>1, <2>1, <2>2 DEF Reloading
<1> QED
  BY <1>2, <1>3

LEMMA ConfigStepInv ==
  ASSUME ConfigInv, NEW t \in Threads,
         \/ \E m \in Managers, k \in Settings : set_value(t, m, k)
         \/ Locked(t) \/ Load(t) \/ CompleteSetup(t) \/ WholeFile(t)
  PROVE  LockInv' /\ UpdateInv' /\ ReadsOwnSaves'
<1>t. TypeOK /\ TypeOK'
  BY StepType DEF ConfigInv
<1>n. /\ file.ver \in Nat
      /\ \A m \in Managers : mem[m].ver \in Nat /\ savedVia[m] \in Nat
      /\ DOMAIN mem = Managers /\ DOMAIN savedVia = Managers
  BY <1>t DEF TypeOK, Config
<1>r. req'[t] \in Request /\ Goto(t, req'[t])
  <2>1. \E next : Goto(t, next)
    BY DEF set_value, Locked, ReadLatest, Write, WriteRaises, Publish, Load, load_config,
           Reload, Construct, ReadFile, FileIsMissing, CompleteSetup, WholeFile,
           save_schedule, Snapshot, Overwrite, OverwriteFails
  <2> QED
    BY <1>t, <2>1 DEF TypeOK, Goto
<1>1. ASSUME NEW m \in Managers, NEW k \in Settings, set_value(t, m, k)
      PROVE  LockInv' /\ UpdateInv' /\ ReadsOwnSaves'
  <2>1. req[t].at = "idle" /\ req'[t].at = "lock"
    BY <1>1, <1>t DEF set_value, Idle, Goto, TypeOK
  <2>2. LockInv' /\ UpdateInv'
    BY <1>1, <1>r, <1>n, <2>1, OutsideTheLock DEF set_value
  <2>3. ReadsOwnSaves'
    BY <1>1, <1>r, <1>n, <2>1, OutsideAReload DEF set_value
  <2> QED
    BY <2>2, <2>3
<1>2. CASE ReadLatest(t)
  <2>1. /\ req[t].at = "lock" /\ req'[t].at = "write" /\ req'[t].base = file
        /\ \A u \in Threads : u # t => req'[u] = req[u]
    BY <1>2, <1>t DEF ReadLatest, Goto, TypeOK
  <2>2. \A u \in Threads : req[u].at \notin {"write", "publish"}
    BY <1>2 DEF ReadLatest, ConfigInv, LockInv
  <2>3. LockInv'
    BY <1>2, <2>1, <2>2 DEF ReadLatest, LockInv
  <2>4. UpdateInv'
    BY <1>2, <1>n, <2>1, <2>2 DEF ReadLatest, ConfigInv, UpdateInv, Holds
  <2>5. ReadsOwnSaves'
    BY <1>2, <1>r, <1>n, <2>1, OutsideAReload DEF ReadLatest
  <2> QED
    BY <2>3, <2>4, <2>5
<1>3. CASE Write(t)
  <2>1. req[t] \in Updating
    BY <1>3, <1>t, UpdatingType DEF Write
  <2>2. /\ req'[t].at = "publish" /\ req'[t].base.ver = file.ver + 1
        /\ file'.ver = file.ver + 1
        /\ file'.val = Changed(req[t].base.val, req[t].change)
        /\ lastSaved' = Changed(lastSaved, req[t].change)
        /\ \A u \in Threads : u # t => req'[u] = req[u]
    BY <1>3, <1>t, <2>1 DEF Write, Goto, TypeOK, Updating
  <2>3. \A u \in Threads : u # t => req[u].at \notin {"write", "publish"}
    BY <1>3, Alone DEF Write, ConfigInv
  <2>4. LockInv'
    BY <1>3, <2>2, <2>3 DEF Write, ConfigInv, LockInv
  <2>5. UpdateInv'
    <3>1. Holds(req[t].base.val)
      BY <1>3 DEF Write, ConfigInv, UpdateInv
    <3>2. /\ lastSaved \in Values /\ req[t].base.val \in Values
          /\ req[t].change \in Change
      BY <1>t, <2>1 DEF TypeOK, Updating, Config
    <3>3. Holds(file.val)'
      BY <2>2, <3>1, <3>2 DEF Holds, Changed, Values
    <3>4. \A m \in Managers : savedVia'[m] <= file'.ver
      BY <1>3, <1>n, <2>2 DEF Write, ConfigInv, UpdateInv
    <3> QED
      BY <1>n, <2>2, <2>3, <3>3, <3>4 DEF UpdateInv
  <2>6. ReadsOwnSaves'
    BY <1>3, <1>r, <1>n, <2>2, OutsideAReload DEF Write
  <2> QED
    BY <2>4, <2>5, <2>6
<1>4. CASE WriteRaises(t)
  <2>1. /\ req'[t].at = "idle"
        /\ \A u \in Threads : u # t => req'[u] = req[u]
    BY <1>4, <1>t DEF WriteRaises, Goto, TypeOK, Idle
  <2>2. \A u \in Threads : u # t => req[u].at \notin {"write", "publish"}
    BY <1>4, Alone DEF WriteRaises, ConfigInv
  <2>3. LockInv'
    BY <1>4, <2>1, <2>2 DEF WriteRaises, LockInv
  <2>4. UpdateInv'
    BY <1>4, <1>n, <2>1, <2>2 DEF WriteRaises, ConfigInv, UpdateInv, Holds
  <2>5. ReadsOwnSaves'
    BY <1>4, <1>r, <1>n, <2>1, OutsideAReload DEF WriteRaises
  <2> QED
    BY <2>3, <2>4, <2>5
<1>5. CASE Publish(t)
  <2>1. req[t] \in Updating
    BY <1>5, <1>t, UpdatingType DEF Publish
  <2>2. /\ req'[t].at \in {"idle", "reload"}
        /\ \A u \in Threads : u # t => req'[u] = req[u]
    BY <1>5, <1>t, <2>1 DEF Publish, AfterUpdate, Goto, TypeOK, Idle
  <2>3. \A u \in Threads : u # t => req[u].at \notin {"write", "publish"}
    BY <1>5, Alone DEF Publish, ConfigInv
  <2>4. /\ req[t].m \in Managers
        /\ req[t].base.ver <= file.ver
        /\ mem'[req[t].m] = req[t].base
        /\ savedVia'[req[t].m] = req[t].base.ver
        /\ \A m \in Managers : m # req[t].m => mem'[m] = mem[m] /\ savedVia'[m] = savedVia[m]
    BY <1>5, <1>n, <2>1 DEF Publish, Updating, ConfigInv, UpdateInv
  <2>5. LockInv'
    BY <1>5, <2>2, <2>3 DEF Publish, LockInv
  <2>6. UpdateInv'
    BY <1>5, <1>n, <2>2, <2>3, <2>4 DEF Publish, ConfigInv, UpdateInv, Holds
  <2>7. ReadsOwnSaves'
    <3> SUFFICES ASSUME NEW m \in Managers, ~(mem'[m].ver >= savedVia'[m])
                 PROVE  Reloading(m)'
      BY DEF ReadsOwnSaves
    <3>1. m # req[t].m
      BY <1>n, <1>t, <2>1, <2>4 DEF Updating, Config
    <3>2. PICK u \in Threads : req[u].at = "read" /\ req[u].m = m
      BY <2>4, <3>1 DEF ConfigInv, ReadsOwnSaves, Reloading
    <3>3. u # t
      BY <1>5, <3>2 DEF Publish
    <3> QED
      BY <2>2, <3>2, <3>3 DEF Reloading
  <2> QED
    BY <2>5, <2>6, <2>7
<1>6. ASSUME NEW m \in Managers, NEW then \in {"idle", "snapshot"}, load_config(t, m, then)
      PROVE  LockInv' /\ UpdateInv' /\ ReadsOwnSaves'
  <2>1. req[t].at = "idle" /\ req'[t].at = "read" /\ req'[t].m = m
    BY <1>6, <1>t DEF load_config, Idle, Goto, TypeOK
  <2>2. LockInv' /\ UpdateInv'
    BY <1>6, <1>r, <1>n, <2>1, OutsideTheLock DEF load_config
  <2>3. ReadsOwnSaves'
    BY <1>6, <1>r, <1>n, <2>1, OutsideAReload DEF load_config
  <2> QED
    BY <2>2, <2>3
<1>7. CASE Reload(t)
  <2>1. req[t].at = "reload" /\ req'[t].at = "read" /\ req'[t].m = req[t].m
    BY <1>7, <1>t DEF Reload, Goto, TypeOK
  <2>2. LockInv' /\ UpdateInv'
    BY <1>7, <1>r, <1>n, <2>1, OutsideTheLock DEF Reload
  <2>3. ReadsOwnSaves'
    BY <1>7, <1>r, <1>n, <2>1, OutsideAReload DEF Reload
  <2> QED
    BY <2>2, <2>3
<1>8. ASSUME NEW m \in Managers, Construct(t, m)
      PROVE  LockInv' /\ UpdateInv' /\ ReadsOwnSaves'
  <2>1. req[t].at = "idle" /\ req'[t].at = "read"
    BY <1>8, <1>t DEF Construct, Idle, Goto, TypeOK
  <2>2. LockInv' /\ UpdateInv'
    BY <1>8, <1>r, <1>n, <2>1, OutsideTheLock DEF Construct
  <2>3. ReadsOwnSaves'
    BY <1>8, <1>r, <1>n, <2>1, OutsideAReload DEF Construct
  <2> QED
    BY <2>2, <2>3
<1>9. CASE ReadFile(t)
  <2>1. req[t] \in [at : {"read"}, m : Managers, then : {"idle", "snapshot"}]
    <3>1. req[t] \in Request /\ req[t].at = "read"
      BY <1>9, <1>t DEF ReadFile, TypeOK
    <3> QED
      BY <3>1 DEF Request, Idle
  <2>2. req'[t].at \in {"idle", "snapshot"}
    BY <1>9, <1>t DEF ReadFile, Goto, TypeOK, Idle
  <2>3. /\ mem'[req[t].m].ver = file.ver
        /\ \A m \in Managers : m # req[t].m => mem'[m] = mem[m]
    BY <1>9, <1>n, <2>1 DEF ReadFile, Merge
  <2>4. \A m \in Managers : savedVia[m] <= file.ver
    BY <1>n DEF ConfigInv, UpdateInv
  <2>5. LockInv' /\ UpdateInv'
    BY <1>9, <1>r, <1>n, <2>1, <2>2, OutsideTheLock DEF ReadFile
  <2>6. ReadsOwnSaves'
    BY <1>9, <1>r, <1>n, <2>1, <2>2, <2>3, <2>4, OutsideAReload DEF ReadFile
  <2> QED
    BY <2>5, <2>6
<1>10. CASE FileIsMissing(t)
  <2>1. req[t].at = "read" /\ req'[t].at = "lock"
    BY <1>10, <1>t DEF FileIsMissing, Goto, TypeOK
  <2>2. \A m \in Managers : savedVia[m] <= 0
    BY <1>10, <1>n DEF FileIsMissing, ConfigInv, UpdateInv, Empty
  <2>3. LockInv' /\ UpdateInv'
    BY <1>10, <1>r, <1>n, <2>1, OutsideTheLock DEF FileIsMissing
  <2>4. ReadsOwnSaves'
    BY <1>10, <1>r, <1>n, <2>1, <2>2, OutsideAReload DEF FileIsMissing
  <2> QED
    BY <2>3, <2>4
<1>11. ASSUME NEW m \in Managers, save_schedule(t, m)
       PROVE  LockInv' /\ UpdateInv' /\ ReadsOwnSaves'
  <2>1. req[t].at = "idle" /\ req'[t].at = "snapshot"
    BY <1>11, <1>t DEF save_schedule, Idle, Goto, TypeOK
  <2>2. LockInv' /\ UpdateInv'
    BY <1>11, <1>r, <1>n, <2>1, OutsideTheLock DEF save_schedule
  <2>3. ReadsOwnSaves'
    BY <1>11, <1>r, <1>n, <2>1, OutsideAReload DEF save_schedule
  <2> QED
    BY <2>2, <2>3
<1>12. CASE Snapshot(t)
  <2>1. req[t].at = "snapshot" /\ req'[t].at = "overwrite"
    BY <1>12, <1>t DEF Snapshot, Goto, TypeOK
  <2>2. LockInv' /\ UpdateInv'
    BY <1>12, <1>r, <1>n, <2>1, OutsideTheLock DEF Snapshot
  <2>3. ReadsOwnSaves'
    BY <1>12, <1>r, <1>n, <2>1, OutsideAReload DEF Snapshot
  <2> QED
    BY <2>2, <2>3
<1>13. CASE Overwrite(t)
  <2>1. req[t].at = "overwrite" /\ req'[t].at \in {"idle", "lock"}
    BY <1>13, <1>t DEF Overwrite, Goto, TypeOK, Idle
  <2>2. file'.ver = file.ver + 1 /\ \A k \in Settings : lastSaved'[k] = 0
    BY <1>13 DEF Overwrite
  <2>3. LockInv' /\ UpdateInv'
    BY <1>13, <1>r, <1>n, <2>1, <2>2, OutsideTheLock DEF Overwrite
  <2>4. ReadsOwnSaves'
    BY <1>13, <1>r, <1>n, <2>1, OutsideAReload DEF Overwrite
  <2> QED
    BY <2>3, <2>4
<1>14. CASE OverwriteFails(t)
  <2>1. req[t].at = "overwrite" /\ req'[t].at = "idle"
    BY <1>14, <1>t DEF OverwriteFails, Goto, TypeOK, Idle
  <2>2. LockInv' /\ UpdateInv'
    BY <1>14, <1>r, <1>n, <2>1, OutsideTheLock DEF OverwriteFails
  <2>3. ReadsOwnSaves'
    BY <1>14, <1>r, <1>n, <2>1, OutsideAReload DEF OverwriteFails
  <2> QED
    BY <2>2, <2>3
<1> QED
  BY <1>1, <1>2, <1>3, <1>4, <1>5, <1>6, <1>7, <1>8, <1>9, <1>10, <1>11, <1>12, <1>13, <1>14
     DEF Locked, Load, CompleteSetup, WholeFile

LEMMA ConfigInvariance == Spec => []ConfigInv
<1>1. Init => ConfigInv
  BY InitType DEF Init, ConfigInv, LockInv, UpdateInv, Holds, ReadsOwnSaves, Idle, Empty
<1>2. ConfigInv /\ [Next]_vars => ConfigInv'
  <2> SUFFICES ASSUME ConfigInv, [Next]_vars PROVE ConfigInv'
    OBVIOUS
  <2>1. CASE Next
    BY <2>1, StepType, ConfigStepInv DEF Next, ConfigInv
  <2>2. CASE UNCHANGED vars
    BY <2>2 DEF vars, ConfigInv, TypeOK, LockInv, UpdateInv, Holds, ReadsOwnSaves, Reloading
  <2> QED
    BY <2>1, <2>2
<1> QED
  BY <1>1, <1>2, PTL DEF Spec

\* Settings saved one at a time never undo each other, whoever saves them: the
\* file keeps each one until it is saved again or the whole file is overwritten.
THEOREM NoLockedUpdateIsLost == Spec => []LockedSavesStand
<1>1. ConfigInv => LockedSavesStand
  BY DEF ConfigInv, UpdateInv, Holds, LockedSavesStand
<1> QED
  BY ConfigInvariance, <1>1, PTL

\* A manager shared by any number of threads never falls behind its own saves.
THEOREM ManagersReadTheirOwnSaves == Spec => []ReadsOwnSaves
<1>1. ConfigInv => ReadsOwnSaves
  BY DEF ConfigInv
<1> QED
  BY ConfigInvariance, <1>1, PTL

=============================================================================
