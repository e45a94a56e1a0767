---------------------------- MODULE FilePersistence ----------------------------
(***************************************************************************)
(* locked_json_update, locked_path and atomic_write_text: processes and    *)
(* threads that read, change and replace one small file under a lock on a  *)
(* sidecar file.  Any step can raise, a process can be killed at any step, *)
(* and the power can fail.                                                 *)
(*                                                                         *)
(* A file is the set of updates it holds.  What the operating system keeps *)
(* is modelled by its contract: an os.replace is visible at once, but      *)
(* until the directory is synced a power cut may undo it; a file whose     *)
(* data was not synced may be torn after a power cut.                      *)
(***************************************************************************)
EXTENDS Naturals

CONSTANTS
    Procs,       \* the processes and threads that update the file
    Updates,     \* the update calls that are ever made
    NoHolder,      \* the holder of a free lock
    MaxPowerCuts \* bound

ASSUME FileAssumption ==
    /\ NoHolder \notin Procs
    /\ MaxPowerCuts \in Nat

VARIABLES
    visible,  \* the file every process sees at the path
    onDisk,   \* the files a power cut may leave at the path
    lockHolder,   \* who holds the lock on the sidecar
    phase,    \* where each process is in locked_json_update
    update,   \* the update each process is applying
    temp,     \* each process's temporary file
    made,     \* the calls made so far
    acked,    \* history: the updates whose call has returned
    powerCuts

fileVars == <<visible, onDisk, lockHolder, phase, update, temp, made, acked, powerCuts>>

\* A torn file holds nothing that read_json could parse.
File == [updates : SUBSET Updates, data : {"written", "synced", "torn"}]

EmptyFile == [updates |-> {}, data |-> "synced"]
TornFile == [updates |-> {}, data |-> "torn"]

Phase == {"idle", "lock", "read", "sync", "replace", "syncdir", "return"}

-----------------------------------------------------------------------------
(* locked_path                                                             *)

Call(p, u) ==
    /\ phase[p] = "idle"
    /\ u \notin made
    /\ made' = made \cup {u}
    /\ update' = [update EXCEPT ![p] = u]
    /\ phase' = [phase EXCEPT ![p] = "lock"]
    /\ UNCHANGED <<visible, onDisk, lockHolder, temp, acked, powerCuts>>

\* No lock around the read, the change and the write.
Mutant_LockIgnoresHolder(p) ==
    /\ phase[p] = "lock"
    /\ lockHolder' = p
    /\ phase' = [phase EXCEPT ![p] = "read"]
    /\ UNCHANGED <<visible, onDisk, update, temp, made, acked, powerCuts>>

Lock(p) ==
    /\ phase[p] = "lock"
    /\ lockHolder = NoHolder
    /\ lockHolder' = p
    /\ phase' = [phase EXCEPT ![p] = "read"]
    /\ UNCHANGED <<visible, onDisk, update, temp, made, acked, powerCuts>>

\* A lock that an exception leaves behind.
Mutant_LeaveKeepsLock(p) ==
    /\ phase' = [phase EXCEPT ![p] = "idle"]
    /\ lockHolder' = IF phase[p] = "return" THEN NoHolder ELSE lockHolder

\* The finally clause, or the kernel when the process is gone.
Leave(p) ==
    /\ phase' = [phase EXCEPT ![p] = "idle"]
    /\ lockHolder' = IF lockHolder = p THEN NoHolder ELSE lockHolder

-----------------------------------------------------------------------------
(* locked_json_update and atomic_write_text                                *)

\* The text is left in the buffer of the Python file object.
Mutant_ReadAndChange(p) ==
    /\ phase[p] = "read"
    /\ visible.data # "torn"
    /\ temp' = [temp EXCEPT ![p] =
                  [updates |-> visible.updates \cup {update[p]}, data |-> "buffered"]]
    /\ phase' = [phase EXCEPT ![p] = "sync"]
    /\ UNCHANGED <<visible, onDisk, lockHolder, update, made, acked, powerCuts>>

\* The file is read, the update applied and the result written to a temporary
\* file: only this process sees the last two.
ReadAndChange(p) ==
    /\ phase[p] = "read"
    /\ visible.data # "torn"
    /\ temp' = [temp EXCEPT ![p] =
                  [updates |-> visible.updates \cup {update[p]}, data |-> "written"]]
    /\ phase' = [phase EXCEPT ![p] = "sync"]
    /\ UNCHANGED <<visible, onDisk, lockHolder, update, made, acked, powerCuts>>

\* durable=FALSE: the data is left to the page cache.
Mutant_NoFsync(p) ==
    /\ phase[p] = "sync"
    /\ phase' = [phase EXCEPT ![p] = "replace"]
    /\ UNCHANGED <<visible, onDisk, lockHolder, update, temp, made, acked, powerCuts>>

SyncTemp(p) ==
    /\ phase[p] = "sync"
    /\ temp' = [temp EXCEPT ![p].data = "synced"]
    /\ phase' = [phase EXCEPT ![p] = "replace"]
    /\ UNCHANGED <<visible, onDisk, lockHolder, update, made, acked, powerCuts>>

Replace(p) ==
    /\ phase[p] = "replace"
    /\ visible' = temp[p]
    /\ onDisk' = onDisk \cup {temp[p]}
    /\ phase' = [phase EXCEPT ![p] = "syncdir"]
    /\ UNCHANGED <<lockHolder, update, temp, made, acked, powerCuts>>

\* The directory entry is left to the journal.
Mutant_NoDirectoryFsync(p) ==
    /\ phase[p] = "syncdir"
    /\ phase' = [phase EXCEPT ![p] = "return"]
    /\ UNCHANGED <<visible, onDisk, lockHolder, update, temp, made, acked, powerCuts>>

SyncDirectory(p) ==
    /\ phase[p] = "syncdir"
    /\ onDisk' = {visible}
    /\ phase' = [phase EXCEPT ![p] = "return"]
    /\ UNCHANGED <<visible, lockHolder, update, temp, made, acked, powerCuts>>

Return(p) ==
    /\ phase[p] = "return"
    /\ acked' = acked \cup {update[p]}
    /\ Leave(p)
    /\ UNCHANGED <<visible, onDisk, update, temp, made, powerCuts>>

\* The step at hand raises (the disk is full, a sync fails) or the process is
\* killed.  After Replace the update has been made and no one is told.
Abandon(p) ==
    /\ phase[p] \notin {"idle", "return"}
    /\ Leave(p)
    /\ UNCHANGED <<visible, onDisk, update, temp, made, acked, powerCuts>>

-----------------------------------------------------------------------------

\* What the next start of the machine finds at the path.
AfterPowerCut(f) ==
    {[f EXCEPT !.data = IF @ = "written" THEN "synced" ELSE @]}
    \cup (IF f.data = "written" THEN {TornFile} ELSE {})

PowerCut ==
    /\ powerCuts < MaxPowerCuts
    /\ powerCuts' = powerCuts + 1
    /\ \E f \in onDisk : visible' \in AfterPowerCut(f)
    /\ onDisk' = {visible'}
    /\ lockHolder' = NoHolder
    /\ phase' = [p \in Procs |-> "idle"]
    /\ UNCHANGED <<update, temp, made, acked>>

FileInit ==
    /\ visible = EmptyFile
    /\ onDisk = {EmptyFile}
    /\ lockHolder = NoHolder
    /\ phase = [p \in Procs |-> "idle"]
    /\ update \in [Procs -> Updates]
    /\ temp = [p \in Procs |-> EmptyFile]
    /\ made = {}
    /\ acked = {}
    /\ powerCuts = 0

Work(p) ==
    \/ ReadAndChange(p)
    \/ SyncTemp(p)
    \/ Replace(p)
    \/ SyncDirectory(p)
    \/ Return(p)

Step(p) ==
    \/ \E u \in Updates : Call(p, u)
    \/ Lock(p)
    \/ Work(p)
    \/ Abandon(p)

FileNext == PowerCut \/ \E p \in Procs : Step(p)

\* A process in the critical section runs on; the kernel wakes a waiter each
\* time the lock is released and passes over none of them forever.
Fairness == \A p \in Procs : WF_fileVars(Work(p)) /\ SF_fileVars(Lock(p))

FileSpec == FileInit /\ [][FileNext]_fileVars /\ Fairness

-----------------------------------------------------------------------------
(* Properties                                                              *)

FileTypeOK ==
    /\ visible \in File
    /\ onDisk \in SUBSET File
    /\ lockHolder \in Procs \cup {NoHolder}
    /\ phase \in [Procs -> Phase]
    /\ update \in [Procs -> Updates]
    /\ temp \in [Procs -> File]
    /\ made \in SUBSET Updates
    /\ acked \in SUBSET Updates
    /\ powerCuts \in 0..MaxPowerCuts

\* Whatever the disk holds when the power fails, it is a whole file with every
\* update that some caller was told is done: the reason for both fsyncs, for
\* the order of fsync, replace and directory fsync, and for the lock.
AckedSurvive == \A f \in onDisk : f.data = "synced" /\ acked \subseteq f.updates

\* Callers see the atomic updates of module AtomicFile: no update is lost
\* between another's read and write, none is half done, and a reader that
\* takes no lock (read_json) never finds a torn file.
Atomic == INSTANCE AtomicFile WITH content <- visible.updates
RefinesAtomicFile == Atomic!Spec

\* A call that waits for the lock gets it (or is killed): an exception in
\* another process's update never leaves the lock taken.
LockIsGranted == \A p \in Procs : phase[p] = "lock" ~> phase[p] # "lock"

=============================================================================
