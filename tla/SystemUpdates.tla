----------------------------- MODULE SystemUpdates -----------------------------
(***************************************************************************)
(* SystemUpdatesManager: apt runs started, stopped and watched from the    *)
(* System Updates page.                                                    *)
(*                                                                         *)
(* One worker thread of the web process runs apt-get and reports in a      *)
(* state file; request threads start it, stop it and poll it.  They share  *)
(* a lock, but the state file is also read outside the lock, and a restart *)
(* of the web service ends every thread and leaves the file behind.        *)
(***************************************************************************)
EXTENDS Naturals

CONSTANTS
    Web,        \* the request threads
    MaxOps,     \* bound: operations started
    MaxRestarts \* bound: restarts of the web service

ASSUME UpdatesAssumption == MaxOps \in Nat /\ MaxRestarts \in Nat

VARIABLES
    file,    \* system_updates_state.json: operation number, status, phase
    worker,  \* where the worker thread is
    verdict, \* the outcome the worker is about to report
    apt,     \* the apt-get process of the last operation
    printed, \* apt has printed what the worker has not read
    other,   \* another package manager is at work on the machine
    cancel,  \* the cancel event of the last operation is set
    hasEvent, hasProcess, \* _cancel_event and _process are not None
    web,     \* what each request thread is in the middle of
    asked,   \* history: the operations an admin has asked to stop
    restarts

vars == <<file, worker, verdict, apt, printed, other, cancel, hasEvent, hasProcess, web,
          asked, restarts>>

Status == {"idle", "running", "success", "stopped", "failure", "external"}
Phase  == {"Idle", "Starting", "Working", "Stopping", "Complete", "Stopped", "Failed",
           "Interrupted", "Package manager busy"}

\* The status itself is put where the page expects the name of a phase.
Mutant_FinalPhase(status) == status

FinalPhase(status) == CASE status = "success" -> "Complete"
                        [] status = "stopped" -> "Stopped"
                        [] status = "failure" -> "Failed"

Idle == [at |-> "idle"]

WebState ==
    {Idle}
    \cup [at : {"terminate"}, proc : 0..MaxOps]  \* the operation of the process, or none
    \cup [at : {"mark", "poll", "inspect"}]
    \cup [at : {"reconcile"}, busy : BOOLEAN]

OwnRunning == worker # "none"
AptAlive   == apt = "running"
AptBusy    == AptAlive \/ other

\* The worker is in proc.stdout.readline, which returns when apt prints or ends.
AptSilent == worker = "read" /\ AptAlive /\ ~printed

Goto(w, next) == web' = [web EXCEPT ![w] = next]

-----------------------------------------------------------------------------
(* Requests                                                                *)

\* A start that only looks at its own thread.
Mutant_StartIgnoresApt(w) ==
    /\ web[w] = Idle
    /\ ~OwnRunning
    /\ file.op < MaxOps
    /\ file' = [op |-> file.op + 1, status |-> "running", phase |-> "Starting"]
    /\ worker' = "spawn" /\ cancel' = FALSE /\ hasEvent' = TRUE
    /\ UNCHANGED <<verdict, apt, printed, other, hasProcess, web, asked, restarts>>

\* start_operation holds the lock from the checks to the start of the thread,
\* its closing get_status included.
Start(w) ==
    /\ web[w] = Idle
    /\ ~OwnRunning /\ ~AptBusy
    /\ file.op < MaxOps
    /\ file' = [op |-> file.op + 1, status |-> "running", phase |-> "Starting"]
    /\ worker' = "spawn" /\ cancel' = FALSE /\ hasEvent' = TRUE
    /\ UNCHANGED <<verdict, apt, printed, other, hasProcess, web, asked, restarts>>

\* stop_operation, in three parts: cancel under the lock, terminate outside it,
\* mark the phase under the lock again.
StopCancel(w) ==
    /\ web[w] = Idle
    /\ OwnRunning /\ hasEvent
    /\ cancel' = TRUE
    /\ asked' = asked \cup {file.op}
    /\ Goto(w, [at |-> "terminate", proc |-> IF hasProcess THEN file.op ELSE 0])
    /\ UNCHANGED <<file, worker, verdict, apt, printed, other, hasEvent, hasProcess, restarts>>

\* terminate_process: the signals end apt, unless it was just done.
Terminated == apt' \in IF AptAlive THEN {"ok", "error"} ELSE {apt}

StopTerminate(w) ==
    /\ web[w].at = "terminate"
    /\ IF web[w].proc = file.op THEN Terminated ELSE UNCHANGED apt
    /\ Goto(w, [at |-> "mark"])
    /\ UNCHANGED <<file, worker, verdict, printed, other, cancel, hasEvent, hasProcess, asked,
                   restarts>>

StopMark(w) ==
    /\ web[w].at = "mark"
    /\ file' = IF file.phase \in {"Stopped", "Failed", "Complete"} THEN file
               ELSE [file EXCEPT !.phase = "Stopping"]
    /\ Goto(w, [at |-> "poll"])
    /\ UNCHANGED <<worker, verdict, apt, printed, other, cancel, hasEvent, hasProcess, asked,
                   restarts>>

\* get_status: the file is read without the lock; only a status "running" can
\* need a correction.
PollRead(w) ==
    /\ web[w].at \in {"idle", "poll"}
    /\ Goto(w, IF file.status = "running" THEN [at |-> "inspect"] ELSE Idle)
    /\ UNCHANGED <<file, worker, verdict, apt, printed, other, cancel, hasEvent, hasProcess,
                   asked, restarts>>

\* get_lock_status: the worker, then the machine's package managers.
PollInspect(w) ==
    /\ web[w].at = "inspect"
    /\ Goto(w, IF OwnRunning THEN Idle ELSE [at |-> "reconcile", busy |-> AptBusy])
    /\ UNCHANGED <<file, worker, verdict, apt, printed, other, cancel, hasEvent, hasProcess,
                   asked, restarts>>

\* Nothing is written back: a restart leaves "running" on the page for good.
Mutant_NeverReconcile(w) ==
    /\ web[w].at = "reconcile"
    /\ Goto(w, Idle)
    /\ UNCHANGED <<file, worker, verdict, apt, printed, other, cancel, hasEvent, hasProcess,
                   asked, restarts>>

\* _reconcile_running_state: what was read said running and no thread was there.
PollReconcile(w) ==
    /\ web[w].at = "reconcile"
    /\ file' = IF web[w].busy
               THEN [file EXCEPT !.status = "external", !.phase = "Package manager busy"]
               ELSE [file EXCEPT !.status = "failure", !.phase = "Interrupted"]
    /\ Goto(w, Idle)
    /\ UNCHANGED <<worker, verdict, apt, printed, other, cancel, hasEvent, hasProcess, asked,
                   restarts>>

-----------------------------------------------------------------------------
(* The worker: _run_real_operation                                         *)

Spawn ==
    /\ worker = "spawn"
    /\ apt' = "running"
    /\ printed' = FALSE
    /\ worker' = "publish"
    /\ UNCHANGED <<file, verdict, other, cancel, hasEvent, hasProcess, web, asked, restarts>>

Publish ==
    /\ worker = "publish"
    /\ hasProcess' = TRUE
    /\ worker' = "read"
    /\ UNCHANGED <<file, verdict, apt, printed, other, cancel, hasEvent, web, asked, restarts>>

\* A line of output, maybe not the last one that apt has printed.  Until there is
\* one the worker waits in readline and does not look at the cancel event.
ReadLine ==
    /\ worker = "read" /\ printed
    /\ printed' \in BOOLEAN
    /\ file' = [file EXCEPT !.phase = "Working"]
    /\ worker' = "check"
    /\ UNCHANGED <<verdict, apt, other, cancel, hasEvent, hasProcess, web, asked, restarts>>

CheckCancel ==
    /\ worker = "check"
    /\ worker' = IF cancel THEN "wait" ELSE "read"
    /\ UNCHANGED <<file, verdict, apt, printed, other, cancel, hasEvent, hasProcess, web, asked,
                   restarts>>

EndOfOutput ==
    /\ worker = "read" /\ ~AptAlive /\ ~printed
    /\ worker' = "wait"
    /\ UNCHANGED <<file, verdict, apt, printed, other, cancel, hasEvent, hasProcess, web, asked,
                   restarts>>

\* A stop that broke the read loop but forgot to signal apt.
Mutant_WaitWithoutTerminate ==
    /\ worker = "wait" /\ ~AptAlive
    /\ worker' = "decide"
    /\ UNCHANGED <<file, verdict, apt, printed, other, cancel, hasEvent, hasProcess, web, asked,
                   restarts>>

\* Terminate apt if the operation is cancelled, then wait for it.
Wait ==
    /\ worker = "wait"
    /\ IF cancel THEN Terminated ELSE ~AptAlive /\ UNCHANGED apt
    /\ worker' = "decide"
    /\ UNCHANGED <<file, verdict, printed, other, cancel, hasEvent, hasProcess, web, asked,
                   restarts>>

\* The exit code is looked at before the cancel event.
Mutant_Outcome == IF apt = "ok" THEN "success" ELSE "stopped"

Outcome == IF cancel THEN "stopped" ELSE IF apt = "ok" THEN "success" ELSE "failure"

Decide ==
    /\ worker = "decide"
    /\ verdict' = Outcome
    /\ worker' = "report"
    /\ UNCHANGED <<file, apt, printed, other, cancel, hasEvent, hasProcess, web, asked,
                   restarts>>

AfterException == IF cancel THEN "stopped" ELSE "failure"

\* apt-get could not be started, its output could not be decoded, a write failed.
WorkerRaises ==
    /\ worker \in {"spawn", "read", "check"} /\ ~AptSilent
    /\ verdict' = AfterException
    /\ worker' = "report"
    /\ UNCHANGED <<file, apt, printed, other, cancel, hasEvent, hasProcess, web, asked,
                   restarts>>

\* The report could not be written: the exception is reported in its place.
ReportRaises ==
    /\ worker = "report"
    /\ verdict # AfterException
    /\ verdict' = AfterException
    /\ UNCHANGED <<file, worker, apt, printed, other, cancel, hasEvent, hasProcess, web, asked,
                   restarts>>

Report ==
    /\ worker = "report"
    /\ file' = [file EXCEPT !.status = verdict, !.phase = FinalPhase(verdict)]
    /\ worker' = "cleanup"
    /\ UNCHANGED <<verdict, apt, printed, other, cancel, hasEvent, hasProcess, web, asked,
                   restarts>>

\* Nor could that: the thread ends all the same.
NothingIsReported ==
    /\ worker = "report"
    /\ worker' = "cleanup"
    /\ UNCHANGED <<file, verdict, apt, printed, other, cancel, hasEvent, hasProcess, web, asked,
                   restarts>>

Cleanup ==
    /\ worker = "cleanup"
    /\ hasProcess' = FALSE /\ hasEvent' = FALSE
    /\ worker' = "ending"
    /\ UNCHANGED <<file, verdict, apt, printed, other, cancel, web, asked, restarts>>

ThreadEnds ==
    /\ worker = "ending"
    /\ worker' = "none"
    /\ UNCHANGED <<file, verdict, apt, printed, other, cancel, hasEvent, hasProcess, web, asked,
                   restarts>>

-----------------------------------------------------------------------------
(* The machine                                                             *)

AptPrints ==
    /\ AptAlive /\ OwnRunning
    /\ printed' = TRUE
    /\ UNCHANGED <<file, worker, verdict, apt, other, cancel, hasEvent, hasProcess, web, asked,
                   restarts>>

AptEnds ==
    /\ AptAlive
    /\ apt' \in {"ok", "error"}
    /\ UNCHANGED <<file, worker, verdict, printed, other, cancel, hasEvent, hasProcess, web,
                   asked, restarts>>

\* unattended-upgrades, or an admin on the console.
OtherApt ==
    /\ other' = ~other
    /\ UNCHANGED <<file, worker, verdict, apt, printed, cancel, hasEvent, hasProcess, web, asked,
                   restarts>>

\* The service's control group takes apt with it; a crash of gunicorn's worker
\* process does not.
Restart ==
    /\ restarts < MaxRestarts
    /\ restarts' = restarts + 1
    /\ apt' \in IF AptAlive THEN {"running", "error"} ELSE {apt}
    /\ worker' = "none" /\ printed' = FALSE
    /\ cancel' = FALSE /\ hasEvent' = FALSE /\ hasProcess' = FALSE
    /\ web' = [w \in Web |-> Idle]
    /\ UNCHANGED <<file, verdict, other, asked>>

-----------------------------------------------------------------------------

Init ==
    /\ file = [op |-> 0, status |-> "idle", phase |-> "Idle"]
    /\ worker = "none"
    /\ verdict = "failure"
    /\ apt = "none" /\ printed = FALSE
    /\ other = FALSE
    /\ cancel = FALSE /\ hasEvent = FALSE /\ hasProcess = FALSE
    /\ web = [w \in Web |-> Idle]
    /\ asked = {}
    /\ restarts = 0

Poll(w) == PollRead(w) \/ PollInspect(w) \/ PollReconcile(w)

Request(w) == Start(w) \/ StopCancel(w) \/ StopTerminate(w) \/ StopMark(w) \/ Poll(w)

WorkerStep ==
    \/ Spawn \/ Publish \/ ReadLine \/ CheckCancel \/ EndOfOutput
    \/ Wait \/ Decide \/ WorkerRaises \/ ReportRaises
    \/ Report \/ NothingIsReported \/ Cleanup \/ ThreadEnds

Next ==
    \/ \E w \in Web : Request(w)
    \/ WorkerStep
    \/ AptPrints \/ AptEnds
    \/ OtherApt
    \/ Restart

\* The worker is a thread that runs on, but not past a readline: it has no step
\* there until apt prints or ends, and apt is not assumed ever to do either.  An
\* admin has the page open, and the page polls; a request that stops goes on.
Fairness ==
    /\ WF_vars(WorkerStep)
    /\ \A w \in Web : WF_vars(Poll(w) \/ StopTerminate(w) \/ StopMark(w))

Spec == Init /\ [][Next]_vars /\ Fairness

-----------------------------------------------------------------------------
(* Properties                                                              *)

TypeOK ==
    /\ file \in [op : 0..MaxOps, status : Status, phase : Phase]
    /\ worker \in {"none", "spawn", "publish", "read", "check", "wait", "decide", "report",
                   "cleanup", "ending"}
    /\ verdict \in {"success", "stopped", "failure"}
    /\ apt \in {"none", "running", "ok", "error"} /\ printed \in BOOLEAN
    /\ other \in BOOLEAN /\ cancel \in BOOLEAN /\ hasEvent \in BOOLEAN /\ hasProcess \in BOOLEAN
    /\ web \in [Web -> WebState]
    /\ asked \in SUBSET (1..MaxOps)
    /\ restarts \in 0..MaxRestarts

\* The worker never starts apt while an earlier apt of its own is still at work:
\* not after a restart that apt survived, not after a worker that raised and
\* left apt behind.
OneApt == worker = "spawn" => ~AptAlive

\* The page claims no outcome that the operation it names did not have: success
\* only if its apt exited with 0, stopped only if an admin asked to stop this
\* operation, not an earlier one, whose stop may have come late; and the event
\* that will make the worker report a stop is set only if it was asked for.
Truthful ==
    /\ file.status = "success" => apt = "ok"
    /\ file.status = "stopped" => file.op \in asked
    /\ hasEvent /\ cancel => file.op \in asked

\* A stop ends the operation, even one whose apt would never end by itself.  If
\* the stop found the process, whatever apt does; if it came before the worker had
\* published the process, and so could not signal it, when apt prints something.
StopTakesEffect ==
    /\ \A w \in Web : web[w].at = "terminate" /\ web[w].proc = file.op ~> ~OwnRunning
    /\ []<>~AptSilent => (cancel /\ OwnRunning ~> ~OwnRunning)

\* A "running" that no thread stands behind (a restart, a report that could not
\* be written) does not stay on the page.
StaleRunningHeals ==
    file.status = "running" /\ ~OwnRunning ~> file.status # "running" \/ OwnRunning

\* get_status reports "SimpleSaferServer restarted before this apt operation
\* finished": it writes that over a record that says running, never over the
\* outcome of an operation that did finish.
OutcomeIsKept ==
    [][file'.phase = "Interrupted" /\ file.phase # "Interrupted"
         => file.status \notin {"success", "stopped"}]_vars

=============================================================================
