------------------------------- MODULE FakeTasks -------------------------------
(***************************************************************************)
(* Fake mode, in which the program runs on a development machine without   *)
(* systemd: a task is a daemon thread of the web process                   *)
(* (services/task_service.py), and its status is in state.json             *)
(* (FakeState of services/runtime.py).  In real mode the same requests are *)
(* one systemctl each, and systemd sees to it that a unit runs once.       *)
(*                                                                         *)
(* One task; the others do not interact with it.                           *)
(***************************************************************************)
EXTENDS Naturals

CONSTANTS Requests,  \* threads of the web service that serve a stop
          MaxRuns,   \* bound: runs of the task
          MaxStops   \* bound: stops

ASSUME TaskAssumption == MaxRuns \in Nat /\ MaxStops \in Nat

VARIABLES status,   \* the status of the task in state.json
          run,      \* where each run is
          cancel,   \* the runs whose cancel event is set
          active,   \* the run in _fake_task_threads, if any
          stop,     \* the stops under way
          stale,    \* history: since the last start, a restart during a run, or a state.json
                    \* that could not be written, may have left "Running" behind
          stops

taskVars == <<status, run, cancel, active, stop, stale, stops>>

Runs == 1..MaxRuns

Live == {r \in Runs : run[r] \in {"works", "reports", "leaves"}}

(* _start_fake_task, under the lock: refused while the thread is alive. *)
Start(r) ==
  /\ run[r] = "none" /\ \A q \in 1..(r - 1) : run[q] # "none"
  /\ active \cap Live = {}
  /\ run' = [run EXCEPT ![r] = "works"]
  /\ active' = {r}
  /\ status' = "Running"
  /\ stale' = FALSE
  /\ UNCHANGED <<cancel, stop, stops>>

(* "Running" is written, and then the log line or the thread fails.        *)
StartFails(r) ==
  /\ run[r] = "none" /\ \A q \in 1..(r - 1) : run[q] # "none"
  /\ active \cap Live = {}
  /\ status' = "Running"
  /\ stale' = TRUE
  /\ UNCHANGED <<run, cancel, active, stop, stops>>

(* The work of the task ends: by itself, or because it saw the event. *)
Work(r) ==
  /\ run[r] = "works"
  /\ run' = [run EXCEPT ![r] = "reports"]
  /\ UNCHANGED <<status, cancel, active, stop, stale, stops>>

(* _run_fake_task looks at the event again. *)
Report(r) ==
  /\ run[r] = "reports"
  /\ status' \in IF r \in cancel THEN {"Stopped"} ELSE {"Success", "Failure"}
  /\ run' = [run EXCEPT ![r] = "leaves"]
  /\ UNCHANGED <<cancel, active, stop, stale, stops>>

(* The write of the report fails, in the except clause as well. *)
ReportFails(r) ==
  /\ run[r] = "reports"
  /\ run' = [run EXCEPT ![r] = "leaves"]
  /\ stale' = TRUE
  /\ UNCHANGED <<status, cancel, active, stop, stops>>

(* Its finally clause: the entry of the dictionary is dropped if it is     *)
(* this thread's.                                                          *)
Leave(r) ==
  /\ run[r] = "leaves"
  /\ run' = [run EXCEPT ![r] = "ended"]
  /\ active' = active \ {r}
  /\ UNCHANGED <<status, cancel, stop, stale, stops>>

\* Mutant: a stop takes the thread out of the dictionary.
StopForgets(q) ==
  /\ stop[q] = "none" /\ stops < MaxStops
  /\ stops' = stops + 1
  /\ cancel' = cancel \cup (active \cap Live)
  /\ active' = {}
  /\ stop' = [stop EXCEPT ![q] = IF active \cap Live # {} THEN "running" ELSE "idle"]
  /\ UNCHANGED <<status, run, stale>>

(* stop_task, under the lock. *)
Stop(q) ==
  /\ stop[q] = "none" /\ stops < MaxStops
  /\ stops' = stops + 1
  /\ cancel' = cancel \cup (active \cap Live)
  /\ stop' = [stop EXCEPT ![q] = IF active \cap Live # {} THEN "running" ELSE "idle"]
  /\ UNCHANGED <<status, run, active, stale>>

(* After the lock, the status is read, and then written. *)
ReadStatus(q) ==
  /\ stop[q] \in {"running", "idle"}
  /\ stop' = [stop EXCEPT ![q] =
                IF stop[q] = "running" \/ status = "Running" THEN "write" ELSE "none"]
  /\ UNCHANGED <<status, run, cancel, active, stale, stops>>

WriteStopped(q) ==
  /\ stop[q] = "write"
  /\ status' = "Stopped"
  /\ stop' = [stop EXCEPT ![q] = "none"]
  /\ UNCHANGED <<run, cancel, active, stale, stops>>

(* The web process is restarted: its daemon threads end where they are. *)
Restart ==
  /\ Live # {}
  /\ run' = [r \in Runs |-> IF r \in Live THEN "ended" ELSE run[r]]
  /\ active' = {} /\ stop' = [q \in Requests |-> "none"]
  /\ stale' = TRUE
  /\ UNCHANGED <<status, cancel, stops>>

TaskInit ==
  /\ status = "Not Run Yet"
  /\ run = [r \in Runs |-> "none"] /\ cancel = {} /\ active = {}
  /\ stop = [q \in Requests |-> "none"]
  /\ stale = FALSE /\ stops = 0

TaskNext ==
  \/ \E r \in Runs : Start(r) \/ StartFails(r) \/ Work(r) \/ Report(r) \/ ReportFails(r)
                   \/ Leave(r)
  \/ \E q \in Requests : Stop(q) \/ ReadStatus(q) \/ WriteStopped(q)
  \/ Restart

TaskSpec == TaskInit /\ [][TaskNext]_taskVars

(***************************************************************************)
(* Properties.                                                             *)
(***************************************************************************)
(* The type of every variable. *)
TaskTypeOK ==
  /\ status \in {"Not Run Yet", "Running", "Success", "Failure", "Stopped"}
  /\ run \in [Runs -> {"none", "works", "reports", "leaves", "ended"}]
  /\ cancel \subseteq Runs /\ active \subseteq Runs
  /\ stop \in [Requests -> {"none", "running", "idle", "write"}]
  /\ stale \in BOOLEAN /\ stops \in 0..MaxStops

(* A task runs once at a time, however starts and stops overlap, also when *)
(* it takes its time to stop.  When nothing runs the status is not         *)
(* "Running", unless a restart or a state.json that could not be written   *)
(* has left it so.  How the last run ended the status need not say: a stop *)
(* writes "Stopped" after it has given up the lock, maybe over the         *)
(* "Success" of a run that ended meanwhile, or over a newer "Running".     *)
RunsAlone ==
  /\ \A p, q \in Live : p = q
  /\ Live = {} /\ ~stale => status # "Running"
=============================================================================
