------------------------- MODULE SystemUpdatesProofs -------------------------
(***************************************************************************)
(* Proofs about SystemUpdates: for any number of request threads,          *)
(* operations and restarts, apt is never started beside an earlier one and *)
(* the page does not misreport what happened.                              *)
(***************************************************************************)
EXTENDS SystemUpdates, TLAPS

USE UpdatesAssumption

\* The worker between the start of an operation and its report.
AtWork == worker \in {"spawn", "publish", "read", "check", "wait", "decide", "report"}

\* While an operation is at work nothing in the file claims its end, the event
\* that cancels it is its own, and the outcome it is about to report is true.
WorkerInv ==
    /\ AtWork => hasEvent /\ file.status # "success" /\ file.status # "stopped"
    /\ OwnRunning => file.op # 0
    /\ worker = "report" /\ verdict = "success" => apt = "ok"
    /\ worker = "report" /\ verdict = "stopped" => file.op \in asked

IInv == TypeOK /\ OneApt /\ Truthful /\ WorkerInv

LEMMA InitInv == Init => IInv
<1> SUFFICES ASSUME Init PROVE IInv
  OBVIOUS
<1>1. TypeOK
  <2>1. file \in [op : 0..MaxOps, status : Status, phase : Phase]
    BY DEF Init, Status, Phase
  <2>2. web \in [Web -> WebState]
    BY DEF Init, WebState
  <2>3. QED
    <3>1. 0 \in 0..MaxRestarts /\ {} \in SUBSET (1..MaxOps)
      OBVIOUS
    <3>2. QED
      BY <2>1, <2>2, <3>1 DEF Init, TypeOK
<1>2. OneApt /\ Truthful /\ WorkerInv
  BY DEF Init, OneApt, Truthful, WorkerInv, AtWork, OwnRunning, AptAlive
<1>3. QED
  BY <1>1, <1>2 DEF IInv

-----------------------------------------------------------------------------
(* Types                                                                   *)

LEMMA StartTypes == ASSUME IInv, NEW w \in Web, Start(w) PROVE TypeOK'
<1>1. file' \in [op : 0..MaxOps, status : Status, phase : Phase]
  <2>1. file.op + 1 \in 0..MaxOps
    BY DEF IInv, TypeOK, Start
  <2>2. QED
    BY <2>1 DEF Start, Status, Phase
<1>2. QED
  BY <1>1 DEF IInv, TypeOK, Start

LEMMA StopTypes ==
  ASSUME IInv, NEW w \in Web, StopCancel(w) \/ StopTerminate(w) \/ StopMark(w)
  PROVE  TypeOK'
<1>1. CASE StopCancel(w)
  <2>1. file.op \in 1..MaxOps /\ file.op \in 0..MaxOps /\ 0 \in 0..MaxOps
    BY <1>1 DEF IInv, TypeOK, WorkerInv, StopCancel
  <2>2. web' \in [Web -> WebState]
    BY <1>1, <2>1 DEF IInv, TypeOK, StopCancel, Goto, WebState
  <2>3. QED
    BY <1>1, <2>1, <2>2 DEF IInv, TypeOK, StopCancel
<1>2. CASE StopTerminate(w)
  <2>1. web' \in [Web -> WebState]
    BY <1>2 DEF IInv, TypeOK, StopTerminate, Goto, WebState
  <2>2. apt' \in {"none", "running", "ok", "error"}
    BY <1>2 DEF IInv, TypeOK, StopTerminate, Terminated
  <2>3. QED
    BY <1>2, <2>1, <2>2 DEF IInv, TypeOK, StopTerminate
<1>3. CASE StopMark(w)
  <2>1. web' \in [Web -> WebState]
    BY <1>3 DEF IInv, TypeOK, StopMark, Goto, WebState
  <2>2. file' \in [op : 0..MaxOps, status : Status, phase : Phase]
    BY <1>3 DEF IInv, TypeOK, StopMark, Phase
  <2>3. QED
    BY <1>3, <2>1, <2>2 DEF IInv, TypeOK, StopMark
<1>4. QED
  BY <1>1, <1>2, <1>3

LEMMA PollTypes == ASSUME IInv, NEW w \in Web, Poll(w) PROVE TypeOK'
<1>1. web' \in [Web -> WebState]
  <2>1. CASE PollRead(w)
    BY <2>1 DEF IInv, TypeOK, PollRead, Goto, WebState, Idle
  <2>2. CASE PollInspect(w)
    <3>1. AptBusy \in BOOLEAN
      BY DEF IInv, TypeOK, AptBusy, AptAlive
    <3>2. QED
      BY <2>2, <3>1 DEF IInv, TypeOK, PollInspect, Goto, WebState, Idle
  <2>3. CASE PollReconcile(w)
    BY <2>3 DEF IInv, TypeOK, PollReconcile, Goto, WebState, Idle
  <2>4. QED
    BY <2>1, <2>2, <2>3 DEF Poll
<1>2. file' \in [op : 0..MaxOps, status : Status, phase : Phase]
  BY DEF IInv, TypeOK, Poll, PollRead, PollInspect, PollReconcile, Status, Phase
<1>3. QED
  BY <1>1, <1>2 DEF IInv, TypeOK, Poll, PollRead, PollInspect, PollReconcile

LEMMA WorkerTypes == ASSUME IInv, WorkerStep PROVE TypeOK'
<1>1. CASE Spawn \/ Publish \/ CheckCancel \/ EndOfOutput \/ Wait
  BY <1>1 DEF IInv, TypeOK, Spawn, Publish, CheckCancel, EndOfOutput, Wait, Terminated
<1>2. CASE ReadLine
  BY <1>2 DEF IInv, TypeOK, ReadLine, Phase
<1>3. CASE Decide \/ WorkerRaises \/ ReportRaises
  BY <1>3 DEF IInv, TypeOK, Decide, Outcome, WorkerRaises, ReportRaises, AfterException
<1>4. CASE Report
  <2>1. verdict \in Status /\ FinalPhase(verdict) \in Phase
    BY DEF IInv, TypeOK, Status, Phase, FinalPhase
  <2>2. QED
    BY <1>4, <2>1 DEF IInv, TypeOK, Report
<1>5. CASE NothingIsReported \/ Cleanup \/ ThreadEnds
  BY <1>5 DEF IInv, TypeOK, NothingIsReported, Cleanup, ThreadEnds
<1>6. QED
  BY <1>1, <1>2, <1>3, <1>4, <1>5 DEF WorkerStep

LEMMA MachineTypes ==
  ASSUME IInv, AptPrints \/ AptEnds \/ OtherApt \/ Restart PROVE TypeOK'
<1>1. CASE AptPrints
  BY <1>1 DEF IInv, TypeOK, AptPrints
<1>2. CASE AptEnds
  BY <1>2 DEF IInv, TypeOK, AptEnds
<1>3. CASE OtherApt
  <2>1. other' \in BOOLEAN
    BY <1>3 DEF OtherApt
  <2>2. QED
    BY <1>3, <2>1 DEF IInv, TypeOK, OtherApt
<1>4. CASE Restart
  <2>1. web' \in [Web -> WebState]
    BY <1>4 DEF Restart, WebState
  <2>2. restarts' \in 0..MaxRestarts
    BY <1>4 DEF IInv, TypeOK, Restart
  <2>3. apt' \in {"none", "running", "ok", "error"}
    BY <1>4 DEF IInv, TypeOK, Restart
  <2>4. QED
    BY <1>4, <2>1, <2>2, <2>3 DEF IInv, TypeOK, Restart
<1>5. QED
  BY <1>1, <1>2, <1>3, <1>4

LEMMA StepTypes == IInv /\ [Next]_vars => TypeOK'
<1> SUFFICES ASSUME IInv, [Next]_vars PROVE TypeOK'
  OBVIOUS
<1>1. ASSUME NEW w \in Web, Request(w) PROVE TypeOK'
  BY <1>1, StartTypes, StopTypes, PollTypes DEF Request
<1>2. CASE UNCHANGED vars
  BY <1>2 DEF vars, IInv, TypeOK
<1>3. QED
  BY <1>1, <1>2, WorkerTypes, MachineTypes DEF Next

-----------------------------------------------------------------------------
(* The other parts of the invariant                                        *)

Rest == OneApt /\ Truthful /\ WorkerInv

LEMMA StartRest == ASSUME IInv, NEW w \in Web, Start(w) PROVE Rest'
<1>1. /\ file'.op # 0 /\ file'.status = "running"
      /\ worker' = "spawn" /\ cancel' = FALSE /\ hasEvent' = TRUE /\ apt' = apt /\ ~AptAlive
  BY DEF IInv, TypeOK, Start, AptBusy
<1>2. QED
  BY <1>1 DEF Rest, OneApt, Truthful, WorkerInv, AtWork, AptAlive

\* Stopping, polling and the rest of the machine leave the worker where it is,
\* and apt too, unless it was alive, when nothing says that it succeeded.
LEMMA StopRest ==
  ASSUME IInv, NEW w \in Web, StopCancel(w) \/ StopTerminate(w) \/ StopMark(w)
  PROVE  Rest'
<1>1. CASE StopCancel(w)
  BY <1>1 DEF IInv, Rest, StopCancel, OneApt, Truthful, WorkerInv, AtWork, OwnRunning, AptAlive
<1>2. CASE StopTerminate(w)
  BY <1>2 DEF IInv, Rest, StopTerminate, Terminated, OneApt, Truthful, WorkerInv, AtWork,
              OwnRunning, AptAlive
<1>3. CASE StopMark(w)
  <2>1. file'.op = file.op /\ file'.status = file.status
    BY <1>3 DEF IInv, TypeOK, StopMark
  <2>2. QED
    BY <1>3, <2>1 DEF IInv, Rest, StopMark, OneApt, Truthful, WorkerInv, AtWork, OwnRunning,
                      AptAlive
<1>4. QED
  BY <1>1, <1>2, <1>3

LEMMA PollRest == ASSUME IInv, NEW w \in Web, Poll(w) PROVE Rest'
<1>1. /\ worker' = worker /\ verdict' = verdict /\ apt' = apt /\ cancel' = cancel
      /\ hasEvent' = hasEvent /\ asked' = asked
  BY DEF Poll, PollRead, PollInspect, PollReconcile
<1>2. /\ file'.op = file.op
      /\ file'.status = file.status \/ file'.status \in {"external", "failure"}
  BY DEF IInv, TypeOK, Poll, PollRead, PollInspect, PollReconcile
<1>3. QED
  BY <1>1, <1>2 DEF IInv, Rest, OneApt, Truthful, WorkerInv, AtWork, OwnRunning, AptAlive

LEMMA WorkerRest == ASSUME IInv, WorkerStep PROVE Rest'
<1>1. CASE Spawn
  BY <1>1 DEF IInv, Rest, Spawn, OneApt, Truthful, WorkerInv, AtWork, OwnRunning, AptAlive
<1>2. CASE Publish \/ CheckCancel \/ EndOfOutput
  BY <1>2 DEF IInv, Rest, Publish, CheckCancel, EndOfOutput, OneApt, Truthful, WorkerInv, AtWork,
              OwnRunning, AptAlive
<1>3. CASE ReadLine
  <2>1. file'.op = file.op /\ file'.status = file.status
    BY <1>3 DEF IInv, TypeOK, ReadLine
  <2>2. QED
    BY <1>3, <2>1 DEF IInv, Rest, ReadLine, OneApt, Truthful, WorkerInv, AtWork, OwnRunning,
                      AptAlive
<1>4. CASE Wait
  BY <1>4 DEF IInv, Rest, Wait, Terminated, OneApt, Truthful, WorkerInv, AtWork, OwnRunning,
              AptAlive
<1>5. CASE Decide \/ WorkerRaises \/ ReportRaises
  <2>1. AtWork /\ worker' = "report" /\ apt' = apt /\ file' = file /\ hasEvent' = hasEvent
        /\ cancel' = cancel /\ asked' = asked
    BY <1>5 DEF Decide, WorkerRaises, ReportRaises, AtWork
  <2>2. verdict' = "success" => apt = "ok"
    BY <1>5 DEF Decide, Outcome, WorkerRaises, ReportRaises, AfterException
  <2>3. verdict' = "stopped" => cancel
    BY <1>5 DEF Decide, Outcome, WorkerRaises, ReportRaises, AfterException
  <2>4. QED
    BY <2>1, <2>2, <2>3 DEF IInv, Rest, OneApt, Truthful, WorkerInv, AtWork, OwnRunning
<1>6. CASE Report
  <2>1. file'.op = file.op /\ file'.status = verdict
    BY <1>6 DEF IInv, TypeOK, Report
  <2>2. QED
    BY <1>6, <2>1 DEF IInv, Rest, Report, OneApt, Truthful, WorkerInv, AtWork, OwnRunning
<1>7. CASE NothingIsReported \/ Cleanup \/ ThreadEnds
  BY <1>7 DEF IInv, Rest, NothingIsReported, Cleanup, ThreadEnds, OneApt, Truthful, WorkerInv,
              AtWork, OwnRunning
<1>8. QED
  BY <1>1, <1>2, <1>3, <1>4, <1>5, <1>6, <1>7 DEF WorkerStep

LEMMA MachineRest ==
  ASSUME IInv, AptPrints \/ AptEnds \/ OtherApt \/ Restart PROVE Rest'
<1>1. CASE AptEnds
  <2>1. /\ file' = file /\ worker' = worker /\ verdict' = verdict /\ cancel' = cancel
        /\ hasEvent' = hasEvent /\ asked' = asked
        /\ AptAlive /\ apt' # "running"
    BY <1>1 DEF AptEnds
  <2>2. QED
    BY <2>1 DEF IInv, Rest, OneApt, Truthful, WorkerInv, AtWork, OwnRunning, AptAlive
<1>2. CASE AptPrints \/ OtherApt
  <2>1. /\ file' = file /\ worker' = worker /\ verdict' = verdict /\ cancel' = cancel
        /\ hasEvent' = hasEvent /\ asked' = asked /\ apt' = apt
    BY <1>2 DEF AptPrints, OtherApt
  <2>2. QED
    BY <2>1 DEF IInv, Rest, OneApt, Truthful, WorkerInv, AtWork, OwnRunning, AptAlive
<1>3. CASE Restart
  BY <1>3 DEF IInv, Rest, Restart, OneApt, Truthful, WorkerInv, AtWork, OwnRunning, AptAlive
<1>4. QED
  BY <1>1, <1>2, <1>3

LEMMA StepRest == IInv /\ [Next]_vars => Rest'
<1> SUFFICES ASSUME IInv, [Next]_vars PROVE Rest'
  OBVIOUS
<1>1. ASSUME NEW w \in Web, Request(w) PROVE Rest'
  BY <1>1, StartRest, StopRest, PollRest DEF Request
<1>2. CASE UNCHANGED vars
  <2>1. /\ file' = file /\ worker' = worker /\ verdict' = verdict /\ cancel' = cancel
        /\ hasEvent' = hasEvent /\ asked' = asked /\ apt' = apt
    BY <1>2 DEF vars
  <2>2. QED
    BY <2>1 DEF IInv, Rest, OneApt, Truthful, WorkerInv, AtWork, OwnRunning, AptAlive
<1>3. QED
  BY <1>1, <1>2, WorkerRest, MachineRest DEF Next

LEMMA StepInv == IInv /\ [Next]_vars => IInv'
BY StepTypes, StepRest DEF IInv, Rest

-----------------------------------------------------------------------------
(* Theorems                                                                *)

\* The invariant holds in every state that SystemUpdates can reach.
THEOREM Invariant == Spec => []IInv
BY InitInv, StepInv, PTL DEF Spec

\* The record in the file, the worker, apt and the requests keep their types,
\* for any number of request threads, operations and restarts.
THEOREM TypeCorrect == Spec => []TypeOK
<1>1. IInv => TypeOK
  BY DEF IInv
<1>2. QED
  BY <1>1, Invariant, PTL

\* However many restarts an apt survives, none is started beside it.
THEOREM AptRunsAlone == Spec => []OneApt
<1>1. IInv => OneApt
  BY DEF IInv
<1>2. QED
  BY <1>1, Invariant, PTL

\* The page says success only of an apt that succeeded and stopped only of an
\* operation that an admin asked to stop, whatever requests, worker and restarts do.
THEOREM OutcomesAreTrue == Spec => []Truthful
<1>1. IInv => Truthful
  BY DEF IInv
<1>2. QED
  BY <1>1, Invariant, PTL

===============================================================================
