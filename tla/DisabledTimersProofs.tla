------------------------- MODULE DisabledTimersProofs -------------------------
(***************************************************************************)
(* Proofs about DisabledTimers, for any set of timers and web threads, any *)
(* retry limit and any number of crashes.                                  *)
(***************************************************************************)
EXTENDS DisabledTimers, TLAPS

USE DEF Record, NoRecord, Fresh, Active, Expired, Idle, Crash, GivesUp

-----------------------------------------------------------------------------
(* Type correctness                                                        *)

\* A timer still to be visited by regeneration is one of the timers.
LEMMA RegenOrderType == \A i \in 1..Len(RegenOrder) : RegenOrder[i] \in Timers
BY TimersAssumption

\* The limit is what separates a record that is retried from one given up on:
\* this half of the type invariant must be carried along with TypeOK.
LimitInv ==
    /\ \A t \in Timers : ~records[t].failed => records[t].attempts < RESTORE_RETRY_LIMIT
    /\ \A t \in Timers : seen[t].attempts < RESTORE_RETRY_LIMIT

TypeInv == TypeOK /\ LimitInv

\* What a web thread carries, by what it is doing.
LEMMA WebTypes ==
  ASSUME TypeOK, NEW w \in Web
  PROVE  /\ web[w].op \in {"idle", "record", "pop", "regen"}
         /\ web[w].op = "idle" => web[w] = Idle
         /\ web[w].op \in {"record", "pop"} => web[w].timer \in Timers
         /\ web[w].op = "record" =>
              web[w].record \in {Fresh("temporary"), Fresh("permanent")}
         /\ web[w].op = "regen" =>
              /\ web[w].keep \in SUBSET Timers
              /\ web[w].pos \in 1..Len(RegenOrder)
              /\ web[w] = [op |-> "regen", keep |-> web[w].keep, pos |-> web[w].pos]
<1> DEFINE s == web[w]
<1>1. s \in WebState
  BY DEF TypeOK
<1>2. CASE s = Idle
  BY <1>2
<1>3. CASE s \in [op : {"record"}, timer : Timers,
                  record : {Fresh("temporary"), Fresh("permanent")}]
  BY <1>3
<1>4. CASE s \in [op : {"pop"}, timer : Timers]
  BY <1>4
<1>5. CASE s \in [op : {"regen"}, keep : SUBSET Timers, pos : DOMAIN RegenOrder]
  BY <1>5, TimersAssumption
<1>6. QED
  BY <1>1, <1>2, <1>3, <1>4, <1>5 DEF WebState

LEMMA TypeInit == Init => TypeInv
BY TimersAssumption DEF Init, TypeInv, TypeOK, LimitInv, WebState

LEMMA TypeWeb ==
  ASSUME TypeInv, NEW w \in Web, WebStep(w)
  PROVE  TypeInv'
<1> USE TimersAssumption, RegenOrderType DEF TypeInv, TypeOK, LimitInv
<1> DEFINE s == web[w]
<1>s. /\ s.op \in {"record", "pop"} => s.timer \in Timers
      /\ s.op = "record" => s.record \in {Fresh("temporary"), Fresh("permanent")}
      /\ s.op = "regen" => /\ s.keep \in SUBSET Timers
                           /\ s.pos \in 1..Len(RegenOrder)
                           /\ s = [op |-> "regen", keep |-> s.keep, pos |-> s.pos]
  BY WebTypes
<1>1. ASSUME NEW t \in Timers, NEW mode \in {"temporary", "permanent"},
             DisableSystemd(w, t, mode)
      PROVE  TypeInv'
  BY <1>1 DEF DisableSystemd, WebState
<1>2. ASSUME NEW t \in Timers, DisableTimesOut(w, t)  PROVE TypeInv'
  BY <1>2 DEF DisableTimesOut
<1>3. ASSUME NEW t \in Timers, EnableSystemd(w, t)  PROVE TypeInv'
  BY <1>3 DEF EnableSystemd, WebState
<1>4. ASSUME NEW t \in Timers, EnableTimesOut(w, t)  PROVE TypeInv'
  BY <1>4 DEF EnableTimesOut
<1>5. CASE WriteRecord(w)
  <2>1. s.op = "record" /\ s.timer \in Timers /\ s.record \in Record
        /\ s.record.attempts = 0 /\ ~s.record.failed
    <3>1. s.op = "record"
      BY <1>5 DEF WriteRecord
    <3>2. CASE s.record = Fresh("temporary")
      BY <1>s, <3>1, <3>2
    <3>3. CASE s.record = Fresh("permanent")
      BY <1>s, <3>1, <3>3
    <3>4. QED
      BY <1>s, <3>1, <3>2, <3>3
  <2>2. records' \in [Timers -> Record]
    BY <2>1, <1>5 DEF WriteRecord
  <2>3. \A t \in Timers : ~records'[t].failed => records'[t].attempts < RESTORE_RETRY_LIMIT
    BY <2>1, <1>5 DEF WriteRecord
  <2>4. web' \in [Web -> WebState]
    BY <1>5 DEF WriteRecord, WebState
  <2>5. QED
    BY <2>2, <2>3, <2>4, <1>5 DEF WriteRecord
<1>6. CASE PopRecord(w)
  BY <1>6, <1>s DEF PopRecord, WebState
<1>7. CASE RegenSnapshot(w)
  <2>1. [op |-> "regen", keep |-> {t \in Timers : Active(records[t])}, pos |-> 1]
          \in WebState
    <3>1. 1 \in DOMAIN RegenOrder
      BY <1>7 DEF RegenSnapshot
    <3>2. QED
      BY <3>1 DEF WebState
  <2>2. web' \in [Web -> WebState]
    BY <2>1, <1>7 DEF RegenSnapshot
  <2>3. QED
    BY <2>2, <1>7 DEF RegenSnapshot
<1>8. CASE RegenTimer(w)
  <2>1. s.pos # Len(RegenOrder) => [s EXCEPT !.pos = @ + 1] \in WebState
    <3> SUFFICES ASSUME s.pos # Len(RegenOrder)
                 PROVE  [s EXCEPT !.pos = @ + 1] \in WebState
      OBVIOUS
    <3>1. s.pos + 1 \in DOMAIN RegenOrder
      BY <1>s, <1>8 DEF RegenTimer
    <3>2. [s EXCEPT !.pos = @ + 1] = [op |-> "regen", keep |-> s.keep, pos |-> s.pos + 1]
      <4> DEFINE k == s.keep
                 p == s.pos
      <4>1. s = [op |-> "regen", keep |-> k, pos |-> p]
        BY <1>s, <1>8 DEF RegenTimer
      <4> HIDE DEF k, p
      <4>2. [[op |-> "regen", keep |-> k, pos |-> p] EXCEPT !.pos = @ + 1]
              = [op |-> "regen", keep |-> k, pos |-> p + 1]
        OBVIOUS
      <4>3. QED
        BY <4>1, <4>2 DEF k, p
    <3>3. QED
      BY <3>1, <3>2, <1>s, <1>8 DEF WebState, RegenTimer
  <2>2. web' \in [Web -> WebState]
    BY <2>1, <1>8 DEF RegenTimer, WebState
  <2>3. QED
    BY <2>2, <1>8 DEF RegenTimer
<1>9. CASE RegenFails(w)
  BY <1>9 DEF RegenFails, WebState
<1>10. CASE WebAbandon(w)
  <2>1. crashes' \in 0..MaxCrashes
    BY <1>10 DEF WebAbandon
  <2>2. web' \in [Web -> WebState] /\ undisturbed' \in [Timers -> BOOLEAN]
    BY <1>10 DEF WebAbandon, WebState
  <2>3. QED
    BY <2>1, <2>2, <1>10 DEF WebAbandon
<1>11. QED
  BY <1>1, <1>2, <1>3, <1>4, <1>5, <1>6, <1>7, <1>8, <1>9, <1>10 DEF WebStep

\* What _record_restore_failure writes is a record with the new count.
LEMMA Stamped ==
  ASSUME NEW r \in Record, NEW n \in 0..RESTORE_RETRY_LIMIT, NEW b \in BOOLEAN
  PROVE  /\ [r EXCEPT !.attempts = n, !.failed = b] \in Record
         /\ [r EXCEPT !.attempts = n, !.failed = b].attempts = n
         /\ [r EXCEPT !.attempts = n, !.failed = b].failed = b
         /\ [r EXCEPT !.attempts = n, !.failed = b].mode = r.mode
OBVIOUS

LEMMA DueRecord ==
  ASSUME NEW r \in Record
  PROVE  /\ [r EXCEPT !.due = TRUE] \in Record
         /\ [r EXCEPT !.due = TRUE].attempts = r.attempts
         /\ [r EXCEPT !.due = TRUE].failed = r.failed
         /\ [r EXCEPT !.due = TRUE].mode = r.mode
OBVIOUS

\* The part of the state a restore pass keeps to itself stays well formed when
\* it leaves a timer.
LEMMA LeaveType ==
  ASSUME TypeInv, NEW t \in Timers, Leave(t)
  PROVE  /\ todo' \in SUBSET Timers
         /\ stage' \in {"idle", "enable"}
         /\ seen' \in [Timers -> Record]
         /\ \A u \in Timers : seen'[u].attempts < RESTORE_RETRY_LIMIT
<1>1. NoRecord \in Record /\ NoRecord.attempts < RESTORE_RETRY_LIMIT
  BY TimersAssumption
<1>2. seen' = [seen EXCEPT ![t] = NoRecord]
  BY DEF Leave
<1> HIDE DEF NoRecord, Record
<1>3. seen' \in [Timers -> Record]
  BY <1>1, <1>2 DEF TypeInv, TypeOK
<1>4. \A u \in Timers : seen'[u].attempts < RESTORE_RETRY_LIMIT
  BY <1>1, <1>2 DEF TypeInv, TypeOK, LimitInv
<1>5. QED
  BY <1>3, <1>4 DEF Leave, TypeInv, TypeOK

LEMMA TypeRestore ==
  ASSUME TypeInv, RestoreStep \/ RestoreAbandon \/ \E t \in Timers : ExpiryPasses(t)
  PROVE  TypeInv'
<1> USE TimersAssumption DEF TypeInv, TypeOK, LimitInv
<1>1. CASE RestoreSnapshot
  BY <1>1 DEF RestoreSnapshot
<1>2. ASSUME NEW t \in Timers, RestoreEnable(t)  PROVE TypeInv'
  BY <1>2 DEF RestoreEnable
<1>3. ASSUME NEW t \in Timers, RestoreEnableFails(t)  PROVE TypeInv'
  <2>1. streak' \in [Timers -> 0..RESTORE_RETRY_LIMIT]
    BY <1>3 DEF RestoreEnableFails, FailedOnce
  <2>2. armed' \in [Timers -> BOOLEAN] /\ undisturbed' \in [Timers -> BOOLEAN]
    <3>1. PICK on \in {armed[t], TRUE} :
            /\ armed' = [armed EXCEPT ![t] = on]
            /\ undisturbed' = [undisturbed EXCEPT ![t] = @ /\ ~on]
      BY <1>3 DEF RestoreEnableFails
    <3>2. on \in BOOLEAN
      OBVIOUS
    <3>3. QED
      BY <3>1, <3>2
  <2>3. QED
    BY <2>1, <2>2, <1>3 DEF RestoreEnableFails
<1>4. ASSUME NEW t \in Timers, RestoreRemove(t)  PROVE TypeInv'
  BY <1>4 DEF RestoreRemove, Leave
<1>5. ASSUME NEW t \in Timers, RestoreRemoveFails(t)  PROVE TypeInv'
  <2>1. streak' \in [Timers -> 0..RESTORE_RETRY_LIMIT]
    BY <1>5 DEF RestoreRemoveFails, FailedOnce
  <2>2. crashes' \in 0..MaxCrashes
    BY <1>5 DEF RestoreRemoveFails
  <2>3. QED
    BY <2>1, <2>2, <1>5 DEF RestoreRemoveFails
<1>6. ASSUME NEW t \in Timers, RecordRestoreFailure(t)  PROVE TypeInv'
  <2> DEFINE attempts == seen[t].attempts + 1
             current  == IF records[t].mode = "none" THEN seen[t] ELSE records[t]
             new      == [current EXCEPT !.attempts = attempts, !.failed = GivesUp(attempts)]
  <2>1. attempts \in 0..RESTORE_RETRY_LIMIT
    OBVIOUS
  <2>2. new \in Record /\ new.attempts = attempts /\ new.failed = GivesUp(attempts)
    <3>1. current \in Record
      OBVIOUS
    <3>2. GivesUp(attempts) \in BOOLEAN
      OBVIOUS
    <3> HIDE DEF current, attempts
    <3>3. QED
      BY <3>1, <3>2, <2>1, Stamped DEF new
  <2>3. records' = [records EXCEPT ![t] = new]
    BY <1>6 DEF RecordRestoreFailure
  <2>4. records' \in [Timers -> Record]
    BY <2>2, <2>3
  <2>5. \A u \in Timers : ~records'[u].failed => records'[u].attempts < RESTORE_RETRY_LIMIT
    <3> HIDE DEF new, attempts
    <3>1. ~GivesUp(attempts) => attempts < RESTORE_RETRY_LIMIT
      BY <2>1
    <3>2. QED
      BY <2>2, <2>3, <3>1
  <2>6. /\ todo' \in SUBSET Timers
        /\ seen' \in [Timers -> Record]
        /\ stage' \in {"idle", "enable", "remove", "fail", "alert"}
        /\ \A u \in Timers : seen'[u].attempts < RESTORE_RETRY_LIMIT
    <3>1. \/ stage' = "alert" /\ UNCHANGED <<todo, seen>>
          \/ Leave(t)
      BY <1>6 DEF RecordRestoreFailure
    <3>2. QED
      BY <3>1, LeaveType
  <2>7. UNCHANGED <<armed, web, crashes, streak, undisturbed>>
    BY <1>6 DEF RecordRestoreFailure
  <2>8. QED
    BY <2>4, <2>5, <2>6, <2>7
<1>7. ASSUME NEW t \in Timers, RestoreAlert(t)  PROVE TypeInv'
  <2>1. seen' \in [Timers -> Record] /\ \A u \in Timers : seen'[u].attempts < RESTORE_RETRY_LIMIT
    BY <1>7 DEF RestoreAlert, Leave
  <2>2. /\ stage' \in {"idle", "enable"} /\ todo' \in SUBSET Timers
        /\ streak' \in [Timers -> 0..RESTORE_RETRY_LIMIT]
        /\ UNCHANGED <<armed, records, web, crashes, undisturbed>>
    BY <1>7 DEF RestoreAlert, Leave
  <2>3. QED
    BY <2>1, <2>2
<1>8. CASE RestoreAbandon
  BY <1>8 DEF RestoreAbandon
<1>9. ASSUME NEW t \in Timers, ExpiryPasses(t)  PROVE TypeInv'
  <2>1. /\ records' \in [Timers -> Record]
        /\ \A u \in Timers : /\ records'[u].failed = records[u].failed
                             /\ records'[u].attempts = records[u].attempts
    <3>1. records' = [records EXCEPT ![t] = [records[t] EXCEPT !.due = TRUE]]
      BY <1>9 DEF ExpiryPasses
    <3> HIDE DEF Record
    <3>2. QED
      BY <3>1, DueRecord
  <2>2. UNCHANGED <<armed, web, stage, todo, seen, crashes, streak, undisturbed>>
    BY <1>9 DEF ExpiryPasses
  <2>3. QED
    BY <2>1, <2>2
<1>10. QED
  BY <1>1, <1>2, <1>3, <1>4, <1>5, <1>6, <1>7, <1>8, <1>9 DEF RestoreStep, RestoreTimer

LEMMA TypeInvariant == Spec => []TypeInv
<1>1. TypeInv /\ [Next]_vars => TypeInv'
  <2> SUFFICES ASSUME TypeInv, [Next]_vars  PROVE TypeInv'
    OBVIOUS
  <2>1. CASE Next
    BY <2>1, TypeWeb, TypeRestore DEF Next
  <2>2. CASE UNCHANGED vars
    BY <2>2 DEF vars, TypeInv, TypeOK, LimitInv
  <2>3. QED
    BY <2>1, <2>2
<1>2. QED
  BY TypeInit, <1>1, PTL DEF Spec

\* Types hold in every reachable state; in particular no attempt counter ever
\* passes the limit, whatever the snapshots of a pass overwrite.
THEOREM TypeCorrect == Spec => []TypeOK
<1>1. TypeInv => TypeOK
  BY DEF TypeInv
<1>2. QED
  BY <1>1, TypeInvariant, PTL

-----------------------------------------------------------------------------
(* Alerts                                                                  *)

\* Every attempt a record counts is a failure that streak has seen.  The count
\* a failing pass writes comes from its snapshot, so the snapshot is bounded
\* too; and the record that is about to be alerted has either been given up on
\* or been replaced since.
AlertInv ==
    /\ \A t \in Timers : ~records[t].failed => records[t].attempts <= streak[t]
    /\ \A t \in todo : seen[t].attempts <= streak[t]
    /\ \A t \in Timers : stage = "fail" /\ Current(t) => seen[t].attempts + 1 <= streak[t]
    /\ \A t \in Timers : stage = "alert" /\ Current(t) =>
         /\ streak[t] = RESTORE_RETRY_LIMIT
         /\ records[t].failed \/ records[t].attempts = 0

LEMMA OneCurrent ==
  ASSUME TypeOK, NEW t \in Timers, NEW u \in Timers, Current(t), Current(u)
  PROVE  t = u
<1>1. SortRank[t] \in Nat /\ SortRank[u] \in Nat
  BY TimersAssumption
<1>2. SortRank[t] = SortRank[u]
  BY <1>1 DEF Current
<1>3. QED
  BY <1>2, TimersAssumption

LEMMA AlertWeb ==
  ASSUME TypeInv, AlertInv, NEW w \in Web, WebStep(w)
  PROVE  AlertInv'
<1>3. \A t \in Timers : 0 <= streak[t]
  <2>1. streak \in [Timers -> 0..RESTORE_RETRY_LIMIT] /\ RESTORE_RETRY_LIMIT \in Nat
    BY TimersAssumption DEF TypeInv, TypeOK
  <2>2. QED
    BY <2>1
<1> USE DEF AlertInv, Current
<1>1. UNCHANGED <<stage, todo, seen, streak>>
  BY DEF WebStep, DisableSystemd, DisableTimesOut, WriteRecord, EnableSystemd,
         EnableTimesOut, PopRecord, RegenSnapshot, RegenTimer, RegenFails, WebAbandon
<1>2. \A t \in Timers : \/ records'[t] = records[t]
                        \/ ~records'[t].failed /\ records'[t].attempts = 0
  <2>1. CASE WriteRecord(w)
    <3>1. \A r \in {Fresh("temporary"), Fresh("permanent")} : ~r.failed /\ r.attempts = 0
      OBVIOUS
    <3>2. web[w].op = "record" /\ web[w].record \in {Fresh("temporary"), Fresh("permanent")}
      BY <2>1, WebTypes DEF WriteRecord, TypeInv
    <3> HIDE DEF Fresh
    <3>3. QED
      BY <2>1, <3>1, <3>2 DEF WriteRecord, TypeInv, TypeOK
  <2>2. CASE PopRecord(w)
    BY <2>2 DEF PopRecord, TypeInv, TypeOK
  <2>3. CASE ~WriteRecord(w) /\ ~PopRecord(w)
    BY <2>3 DEF WebStep, DisableSystemd, DisableTimesOut, EnableSystemd,
                EnableTimesOut, RegenSnapshot, RegenTimer, RegenFails, WebAbandon
  <2>4. QED
    BY <2>1, <2>2, <2>3
<1>4. QED
  BY <1>1, <1>2, <1>3

\* A failure moves streak by one, up to the limit.
LEMMA StreakGrows ==
  ASSUME TypeInv, NEW t \in Timers, FailedOnce(t)
  PROVE  /\ \A u \in Timers : streak[u] <= streak'[u]
         /\ \A n \in Nat : n <= streak[t] /\ n < RESTORE_RETRY_LIMIT => n + 1 <= streak'[t]
<1>1. streak \in [Timers -> 0..RESTORE_RETRY_LIMIT] /\ RESTORE_RETRY_LIMIT \in Nat
  BY TimersAssumption DEF TypeInv, TypeOK
<1>2. \A u \in Timers : streak'[u] = IF u = t /\ streak[t] < RESTORE_RETRY_LIMIT
                                     THEN streak[t] + 1 ELSE streak[u]
  BY <1>1 DEF FailedOnce
<1>3. \A u \in Timers : streak[u] \in Nat /\ streak[u] <= RESTORE_RETRY_LIMIT
  BY <1>1
<1>4. \A u \in Timers : streak[u] <= streak'[u]
  BY <1>2, <1>3
<1>5. \A n \in Nat : n <= streak[t] /\ n < RESTORE_RETRY_LIMIT => n + 1 <= streak'[t]
  BY <1>1, <1>2, <1>3
<1>6. QED
  BY <1>4, <1>5

LEMMA AlertRestore ==
  ASSUME TypeInv, AlertInv, RestoreStep \/ RestoreAbandon \/ \E t \in Timers : ExpiryPasses(t)
  PROVE  AlertInv'
<1> USE DEF AlertInv, TypeInv, TypeOK, LimitInv
<1>1. CASE RestoreSnapshot
  BY <1>1 DEF RestoreSnapshot, Current
<1>2. ASSUME NEW t \in Timers, RestoreEnable(t)  PROVE AlertInv'
  BY <1>2 DEF RestoreEnable
<1>3. ASSUME NEW t \in Timers, RestoreEnableFails(t) \/ RestoreRemoveFails(t)  PROVE AlertInv'
  <2>1. /\ Current(t) /\ FailedOnce(t) /\ stage' = "fail"
        /\ UNCHANGED <<records, todo, seen>>
    BY <1>3 DEF RestoreEnableFails, RestoreRemoveFails
  <2>2. \A u \in Timers : Current(u)' => u = t
    BY <2>1, OneCurrent DEF Current
  <2>3. seen[t].attempts \in Nat /\ seen[t].attempts < RESTORE_RETRY_LIMIT /\ seen[t].attempts <= streak[t]
    BY <2>1, TimersAssumption DEF Current
  <2>4. seen[t].attempts + 1 <= streak'[t]
    BY <2>1, <2>3, StreakGrows
  <2>5. \A u \in Timers : streak[u] <= streak'[u]
    BY <2>1, StreakGrows
  <2>6. streak' \in [Timers -> 0..RESTORE_RETRY_LIMIT]
    BY <2>1, TimersAssumption DEF FailedOnce
  <2>7. \A u \in Timers : ~records'[u].failed => records'[u].attempts <= streak'[u]
    BY <2>1, <2>5, <2>6
  <2>8. \A u \in todo' : seen'[u].attempts <= streak'[u]
    BY <2>1, <2>5, <2>6
  <2>9. QED
    BY <2>1, <2>2, <2>4, <2>7, <2>8
<1>4. ASSUME NEW t \in Timers, RestoreRemove(t)  PROVE AlertInv'
  BY <1>4 DEF RestoreRemove, Leave
<1>5. ASSUME NEW t \in Timers, RecordRestoreFailure(t)  PROVE AlertInv'
  <2> DEFINE attempts == seen[t].attempts + 1
             current  == IF records[t].mode = "none" THEN seen[t] ELSE records[t]
             new      == [current EXCEPT !.attempts = attempts, !.failed = GivesUp(attempts)]
  <2>1. stage = "fail" /\ Current(t) /\ UNCHANGED streak
    BY <1>5 DEF RecordRestoreFailure
  <2>2. attempts \in 0..RESTORE_RETRY_LIMIT /\ attempts <= streak[t]
    BY <2>1, TimersAssumption
  <2>3. new.attempts = attempts /\ new.failed = GivesUp(attempts)
    <3>1. current \in Record /\ GivesUp(attempts) \in BOOLEAN
      OBVIOUS
    <3> HIDE DEF current, attempts
    <3>2. QED
      BY <3>1, <2>2, Stamped DEF new
  <2>4. records' = [records EXCEPT ![t] = new]
    BY <1>5 DEF RecordRestoreFailure
  <2> HIDE DEF new, attempts
  <2>5. \A u \in Timers : ~records'[u].failed => records'[u].attempts <= streak'[u]
    BY <2>1, <2>2, <2>3, <2>4
  <2>6. CASE GivesUp(attempts)
    <3>1. stage' = "alert" /\ UNCHANGED <<todo, seen>>
      BY <1>5, <2>6 DEF RecordRestoreFailure, attempts
    <3>2. \A u \in Timers : Current(u)' => u = t
      BY <2>1, <3>1, OneCurrent DEF Current
    <3>3. streak[t] = RESTORE_RETRY_LIMIT
      BY <2>2, <2>6, TimersAssumption
    <3>4. records'[t].failed
      BY <2>3, <2>4, <2>6
    <3>5. QED
      BY <2>1, <2>5, <3>1, <3>2, <3>3, <3>4
  <2>7. CASE ~GivesUp(attempts)
    <3>1. Leave(t)
      BY <1>5, <2>7 DEF RecordRestoreFailure, attempts
    <3>2. QED
      BY <2>1, <2>5, <3>1 DEF Leave
  <2>8. QED
    BY <2>6, <2>7
<1>6. ASSUME NEW t \in Timers, RestoreAlert(t)  PROVE AlertInv'
  <2>1. /\ stage = "alert" /\ Current(t) /\ Leave(t) /\ UNCHANGED records
        /\ streak' = [streak EXCEPT ![t] = 0]
    BY <1>6 DEF RestoreAlert
  <2>2. records[t].failed \/ records[t].attempts = 0
    BY <2>1
  <2>3. \A u \in Timers : ~records'[u].failed => records'[u].attempts <= streak'[u]
    BY <2>1, <2>2
  <2>4. stage' \in {"idle", "enable"} /\ \A u \in todo' : u # t /\ seen'[u] = seen[u]
    BY <2>1 DEF Leave
  <2>5. QED
    BY <2>1, <2>3, <2>4 DEF Leave
<1>7. CASE RestoreAbandon
  BY <1>7 DEF RestoreAbandon
<1>8. ASSUME NEW t \in Timers, ExpiryPasses(t)  PROVE AlertInv'
  <2>1. \A u \in Timers : /\ records'[u].failed = records[u].failed
                          /\ records'[u].attempts = records[u].attempts
    <3>1. records' = [records EXCEPT ![t] = [records[t] EXCEPT !.due = TRUE]]
      BY <1>8 DEF ExpiryPasses
    <3> HIDE DEF Record
    <3>2. QED
      BY <3>1, DueRecord
  <2>2. UNCHANGED <<stage, todo, seen, streak>>
    BY <1>8 DEF ExpiryPasses
  <2>3. QED
    BY <2>1, <2>2 DEF Current
<1>9. QED
  BY <1>1, <1>2, <1>3, <1>4, <1>5, <1>6, <1>7, <1>8 DEF RestoreStep, RestoreTimer

\* "Schedule restore failed" is never sent before RESTORE_RETRY_LIMIT failed
\* attempts have accumulated since the previous one.
THEOREM AlertsAreNotEarly == Spec => []AlertNotEarly
<1>1. Init => AlertInv
  BY TimersAssumption DEF Init, AlertInv, Current
<1>2. TypeInv /\ AlertInv /\ [Next]_vars => AlertInv'
  <2> SUFFICES ASSUME TypeInv, AlertInv, [Next]_vars  PROVE AlertInv'
    OBVIOUS
  <2>1. CASE Next
    BY <2>1, AlertWeb, AlertRestore DEF Next
  <2>2. CASE UNCHANGED vars
    BY <2>2 DEF vars, AlertInv, Current
  <2>3. QED
    BY <2>1, <2>2
<1>3. AlertInv => AlertNotEarly
  BY DEF AlertInv, AlertNotEarly
<1>4. QED
  BY <1>1, <1>2, <1>3, TypeInvariant, PTL DEF Spec

-----------------------------------------------------------------------------
(* Agreement                                                               *)

\* What an undisturbed timer looks like in the middle of an operation: one
\* thread at most is at work on it, the restore pass and a web thread never
\* both are, and each half-done operation has left systemd in the state that
\* its second half will make the record agree with.
Settled(t) ==
    /\ \A v, w \in Web : Touches(v, t) /\ Touches(w, t) => v = w
    /\ \A w \in Web : Touches(w, t) =>
         /\ t \notin todo
         /\ web[w].op = "record" => ~armed[t]
         /\ web[w].op = "pop" => armed[t]
         /\ web[w].op = "regen" => Agrees(t) /\ (t \in web[w].keep <=> Active(records[t]))
    /\ t \in todo =>
         /\ records[t].mode # "none"
         /\ armed[t] <=> stage = "remove" /\ Current(t)
    /\ ~Busy(t) => Agrees(t)

AgreementInv ==
    /\ stage = "idle" => todo = {}
    /\ \A t \in Timers : undisturbed[t] => Settled(t)

\* A step that leaves a timer, its record and everyone at work on it alone
\* keeps it settled.
LEMMA SettledFrame ==
  ASSUME NEW u \in Timers, Settled(u),
         armed'[u] = armed[u],
         records'[u].mode = records[u].mode, records'[u].failed = records[u].failed,
         \A v \in Web : /\ Touches(v, u)' <=> Touches(v, u)
                        /\ Touches(v, u) => web'[v] = web[v],
         u \in todo' <=> u \in todo,
         (stage = "remove" /\ Current(u))' <=> (stage = "remove" /\ Current(u))
  PROVE  Settled(u)'
<1>1. Busy(u)' <=> Busy(u)
  BY DEF Busy
<1>2. Agrees(u)' <=> Agrees(u)
  BY DEF Agrees
<1>3. Active(records'[u]) <=> Active(records[u])
  OBVIOUS
<1> HIDE DEF Active
<1>4. QED
  BY <1>1, <1>2, <1>3 DEF Settled

LEMMA AgreementWeb ==
  ASSUME TypeInv, AgreementInv, NEW w \in Web, WebStep(w)
  PROVE  AgreementInv'
<1> USE DEF TypeInv
<1>1. UNCHANGED <<stage, todo>>
  BY DEF WebStep, DisableSystemd, DisableTimesOut, WriteRecord, EnableSystemd,
         EnableTimesOut, PopRecord, RegenSnapshot, RegenTimer, RegenFails, WebAbandon
<1>2. \A v \in Web : v # w => web'[v] = web[v]
  BY DEF WebStep, DisableSystemd, DisableTimesOut, WriteRecord, EnableSystemd,
         EnableTimesOut, PopRecord, RegenSnapshot, RegenTimer, RegenFails, WebAbandon,
         TypeOK
<1>3. SUFFICES ASSUME NEW u \in Timers, undisturbed'[u]  PROVE Settled(u)'
  BY <1>1 DEF AgreementInv
<1>4. (stage = "remove" /\ Current(u))' <=> (stage = "remove" /\ Current(u))
  BY <1>1 DEF Current
<1>5. \A v \in Web : v # w => (Touches(v, u)' <=> Touches(v, u))
  BY <1>2 DEF Touches
\* A thread that only now begins an operation on u, with nothing else under way.
<1>6. ASSUME ~Busy(u), web'[w].op \in {"record", "pop"}, web'[w].timer = u,
             web'[w].op = "record" => ~armed'[u], web'[w].op = "pop" => armed'[u]
      PROVE  Settled(u)'
  <2>1. u \notin todo' /\ \A v \in Web : v # w => ~Touches(v, u)'
    BY <1>1, <1>5, <1>6 DEF Busy
  <2>2. Touches(w, u)'
    BY <1>6 DEF Touches
  <2>3. QED
    BY <1>6, <2>1, <2>2 DEF Settled, Busy
\* A thread that finishes what it does to u, with record and systemd in agreement.
<1>7. ASSUME undisturbed[u], Touches(w, u), ~Touches(w, u)', Agrees(u)'
      PROVE  Settled(u)'
  <2>1. u \notin todo /\ \A v \in Web : Touches(v, u) => v = w
    BY <1>7 DEF AgreementInv, Settled
  <2>2. u \notin todo' /\ \A v \in Web : ~Touches(v, u)'
    BY <1>1, <1>5, <1>7, <2>1
  <2>3. QED
    BY <1>7, <2>2 DEF Settled, Busy
\* A thread that works on some other timer.
<1>8. ASSUME undisturbed[u], armed'[u] = armed[u], records'[u] = records[u],
             ~Touches(w, u), ~Touches(w, u)'
      PROVE  Settled(u)'
  <2>1. Settled(u)
    BY <1>8 DEF AgreementInv
  <2>2. \A v \in Web : /\ Touches(v, u)' <=> Touches(v, u)
                       /\ Touches(v, u) => web'[v] = web[v]
    BY <1>2, <1>5, <1>8
  <2>3. QED
    BY <1>1, <1>4, <1>8, <2>1, <2>2, SettledFrame
<1>9. ASSUME NEW t \in Timers, NEW mode \in {"temporary", "permanent"},
              DisableSystemd(w, t, mode)
      PROVE  Settled(u)'
  <2>1. /\ web[w] = Idle /\ web'[w].op = "record" /\ web'[w].timer = t
        /\ u = t => ~Busy(u)
        /\ u # t => undisturbed[u]
        /\ ~armed'[t] /\ \A v \in Timers : v # t => armed'[v] = armed[v]
        /\ UNCHANGED records
    <3>1. undisturbed'[u] = IF u = t THEN ~Busy(t) ELSE undisturbed[u]
      BY <1>9 DEF DisableSystemd, TypeOK
    <3>2. (u = t => ~Busy(u)) /\ (u # t => undisturbed[u])
      BY <1>3, <3>1
    <3>3. QED
      BY <1>9, <3>2 DEF DisableSystemd, TypeOK
  <2>2. CASE u = t
    BY <1>6, <2>1, <2>2 DEF TypeOK
  <2>3. CASE u # t
    BY <1>8, <2>1, <2>3 DEF TypeOK, Touches
  <2>4. QED
    BY <2>2, <2>3
<1>10. ASSUME NEW t \in Timers, DisableTimesOut(w, t)
      PROVE  Settled(u)'
  <2>1. /\ undisturbed' = [undisturbed EXCEPT ![t] = FALSE]
        /\ \A v \in Timers : v # t => armed'[v] = armed[v]
        /\ web[w] = Idle /\ UNCHANGED <<web, records>>
    BY <1>10 DEF DisableTimesOut, TypeOK
  <2>2. u # t /\ undisturbed[u]
    <3>1. undisturbed'[u] = IF u = t THEN FALSE ELSE undisturbed[u]
      BY <2>1 DEF TypeOK
    <3>2. QED
      BY <1>3, <3>1
  <2>3. QED
    BY <1>8, <2>1, <2>2 DEF Touches
<1>11. ASSUME NEW t \in Timers, EnableSystemd(w, t)
      PROVE  Settled(u)'
  <2>1. /\ web[w] = Idle /\ web'[w].op = "pop" /\ web'[w].timer = t
        /\ u = t => ~Busy(u)
        /\ u # t => undisturbed[u]
        /\ armed'[t] /\ \A v \in Timers : v # t => armed'[v] = armed[v]
        /\ UNCHANGED records
    <3>1. undisturbed'[u] = IF u = t THEN ~Busy(t) ELSE undisturbed[u]
      BY <1>11 DEF EnableSystemd, TypeOK
    <3>2. (u = t => ~Busy(u)) /\ (u # t => undisturbed[u])
      BY <1>3, <3>1
    <3>3. QED
      BY <1>11, <3>2 DEF EnableSystemd, TypeOK
  <2>2. CASE u = t
    BY <1>6, <2>1, <2>2 DEF TypeOK
  <2>3. CASE u # t
    BY <1>8, <2>1, <2>3 DEF TypeOK, Touches
  <2>4. QED
    BY <2>2, <2>3
<1>12. ASSUME NEW t \in Timers, EnableTimesOut(w, t)
      PROVE  Settled(u)'
  <2>1. /\ undisturbed' = [undisturbed EXCEPT ![t] = FALSE]
        /\ \A v \in Timers : v # t => armed'[v] = armed[v]
        /\ web[w] = Idle /\ UNCHANGED <<web, records>>
    BY <1>12 DEF EnableTimesOut, TypeOK
  <2>2. u # t /\ undisturbed[u]
    <3>1. undisturbed'[u] = IF u = t THEN FALSE ELSE undisturbed[u]
      BY <2>1 DEF TypeOK
    <3>2. QED
      BY <1>3, <3>1
  <2>3. QED
    BY <1>8, <2>1, <2>2 DEF Touches
<1>13. CASE WriteRecord(w)
  <2> DEFINE t == web[w].timer
  <2>1. /\ web[w].op = "record" /\ web'[w] = Idle /\ armed' = armed /\ undisturbed' = undisturbed
        /\ t \in Timers /\ records'[t].mode # "none"
        /\ \A v \in Timers : v # t => records'[v] = records[v]
    BY <1>13, WebTypes DEF WriteRecord, TypeOK
  <2>2. ~Touches(w, u)' /\ (Touches(w, u) <=> u = t) /\ undisturbed[u]
    BY <1>3, <2>1 DEF Touches
  <2>3. CASE u = t
    <3>1. ~armed[u]
      <4>1. Settled(u) /\ Touches(w, u)
        BY <2>2, <2>3 DEF AgreementInv
      <4>2. QED
        BY <2>1, <4>1, Zenon DEF Settled
    <3>2. Agrees(u)'
      BY <2>1, <2>3, <3>1 DEF Agrees
    <3>3. QED
      BY <1>7, <2>2, <2>3, <3>2
  <2>4. CASE u # t
    BY <1>8, <2>1, <2>2, <2>4
  <2>5. QED
    BY <2>3, <2>4
<1>14. CASE PopRecord(w)
  <2> DEFINE t == web[w].timer
  <2>1. /\ web[w].op = "pop" /\ web'[w] = Idle /\ armed' = armed /\ undisturbed' = undisturbed
        /\ t \in Timers /\ records'[t].mode = "none"
        /\ \A v \in Timers : v # t => records'[v] = records[v]
    BY <1>14, WebTypes DEF PopRecord, TypeOK
  <2>2. ~Touches(w, u)' /\ (Touches(w, u) <=> u = t) /\ undisturbed[u]
    BY <1>3, <2>1 DEF Touches
  <2>3. CASE u = t
    <3>1. armed[u]
      <4>1. Settled(u) /\ Touches(w, u)
        BY <2>2, <2>3 DEF AgreementInv
      <4>2. QED
        BY <2>1, <4>1, Zenon DEF Settled
    <3>2. Agrees(u)'
      BY <2>1, <2>3, <3>1 DEF Agrees
    <3>3. QED
      BY <1>7, <2>2, <2>3, <3>2
  <2>4. CASE u # t
    BY <1>8, <2>1, <2>2, <2>4
  <2>5. QED
    BY <2>3, <2>4
<1>15. CASE RegenSnapshot(w)
  <2>1. /\ web[w] = Idle /\ UNCHANGED <<armed, records>>
        /\ web'[w].op = "regen" /\ web'[w].pos = 1
        /\ web'[w].keep = {t \in Timers : Active(records[t])}
    BY <1>15 DEF RegenSnapshot, TypeOK
  <2>2. undisturbed[u] /\ (Busy(u) => u \notin StillToVisit(1))
    <3>1. undisturbed'[u] = (undisturbed[u] /\ (Busy(u) => u \notin StillToVisit(1)))
      BY <1>15 DEF RegenSnapshot
    <3>2. QED
      BY <1>3, <3>1
  <2>3. CASE u \in StillToVisit(1)
    <3>1. ~Busy(u) /\ Agrees(u)
      BY <2>2, <2>3 DEF AgreementInv, Settled
    <3>2. u \notin todo' /\ \A v \in Web : v # w => ~Touches(v, u)'
      BY <1>1, <1>5, <3>1 DEF Busy
    <3>3. Touches(w, u)'
      BY <2>1, <2>3 DEF Touches
    <3>4. Agrees(u)' /\ (u \in web'[w].keep <=> Active(records'[u]))
      BY <2>1, <3>1 DEF Agrees
    <3>5. QED
      BY <2>1, <3>2, <3>3, <3>4 DEF Settled, Busy
  <2>4. CASE u \notin StillToVisit(1)
    BY <1>8, <2>1, <2>2, <2>4 DEF Touches
  <2>5. QED
    BY <2>3, <2>4
<1>16. CASE RegenTimer(w)
  <2> DEFINE pos == web[w].pos
             t   == RegenOrder[pos]
  <2>1. /\ web[w].op = "regen" /\ pos \in 1..Len(RegenOrder)
        /\ web[w] = [op |-> "regen", keep |-> web[w].keep, pos |-> pos]
        /\ Len(RegenOrder) \in Nat
    BY <1>16, WebTypes, TimersAssumption DEF RegenTimer
  <2>2. /\ armed'[t] <=> t \notin web[w].keep
        /\ \A v \in Timers : v # t => armed'[v] = armed[v]
        /\ records' = records /\ undisturbed' = undisturbed
    BY <1>16, <2>1, RegenOrderType DEF RegenTimer, TypeOK
  <2>3. Settled(u)
    BY <1>3, <2>2 DEF AgreementInv
  \* What regeneration leaves behind, whether or not u is its next timer.
  <2>4. Touches(w, u) => Agrees(u)' /\ (u \in web[w].keep <=> Active(records[u]))
    <3> SUFFICES ASSUME Touches(w, u)
                 PROVE  Agrees(u)' /\ (u \in web[w].keep <=> Active(records[u]))
      OBVIOUS
    <3>1. Agrees(u) /\ (u \in web[w].keep <=> Active(records[u]))
      BY <2>1, <2>3, Zenon DEF Settled
    <3>2. CASE u = t
      <4>1. armed'[u] <=> ~Active(records[u])
        BY <2>2, <3>1, <3>2
      <4>2. records[u].mode = "none" => ~Active(records[u])
        OBVIOUS
      <4>3. QED
        BY <2>2, <3>1, <4>1, <4>2 DEF Agrees
    <3>3. CASE u # t
      BY <2>2, <3>1, <3>3 DEF Agrees
    <3>4. QED
      BY <3>2, <3>3
  <2>5. Touches(w, u)' => Touches(w, u) /\ web'[w].op = "regen" /\ web'[w].keep = web[w].keep
    <3>1. CASE pos = Len(RegenOrder)
      <4>1. web'[w] = Idle
        BY <1>16, <3>1 DEF RegenTimer, TypeOK
      <4>2. QED
        BY <4>1 DEF Touches
    <3>2. CASE pos # Len(RegenOrder)
      <4>1. web'[w].op = "regen" /\ web'[w].keep = web[w].keep /\ web'[w].pos = pos + 1
        BY <1>16, <2>1, <3>2 DEF RegenTimer, TypeOK
      <4>2. StillToVisit(pos + 1) \subseteq StillToVisit(pos)
        BY <2>1 DEF StillToVisit
      <4>3. QED
        BY <2>1, <4>1, <4>2 DEF Touches
    <3>3. QED
      BY <3>1, <3>2
  <2>6. CASE ~Touches(w, u)
    <3>1. u # t
      BY <2>1, <2>6 DEF Touches, StillToVisit
    <3>2. QED
      BY <1>3, <1>8, <2>2, <2>5, <2>6, <3>1
  <2>7. CASE Touches(w, u) /\ ~Touches(w, u)'
    BY <1>3, <1>7, <2>2, <2>4, <2>7
  <2>8. CASE Touches(w, u)'
    <3>1. u \notin todo /\ \A v \in Web : Touches(v, u) => v = w
      BY <2>3, <2>5, <2>8 DEF Settled
    <3>2. u \notin todo' /\ \A v \in Web : v # w => ~Touches(v, u)'
      BY <1>1, <1>5, <3>1
    <3>3. QED
      BY <2>2, <2>4, <2>5, <2>8, <3>2 DEF Settled, Busy
  <2>9. QED
    BY <2>6, <2>7, <2>8
<1>17. CASE RegenFails(w)
  <2>1. /\ web[w].op = "regen" /\ web'[w] = Idle
        /\ armed' = armed /\ records' = records /\ undisturbed' = undisturbed
    BY <1>17 DEF RegenFails, TypeOK
  <2>2. ~Touches(w, u)' /\ undisturbed[u]
    BY <1>3, <2>1 DEF Touches
  <2>3. CASE Touches(w, u)
    <3>1. Agrees(u)
      BY <2>1, <2>2, <2>3 DEF AgreementInv, Settled
    <3>2. QED
      BY <1>7, <2>1, <2>2, <2>3, <3>1 DEF Agrees
  <2>4. CASE ~Touches(w, u)
    BY <1>8, <2>1, <2>2, <2>4
  <2>5. QED
    BY <2>3, <2>4
<1>18. CASE WebAbandon(w)
  <2>1. /\ web[w].op \in {"record", "pop"} /\ web'[w] = Idle
        /\ armed' = armed /\ records' = records
        /\ undisturbed'[u] = IF u = web[w].timer THEN FALSE ELSE undisturbed[u]
    BY <1>18 DEF WebAbandon, TypeOK
  <2>2. u # web[w].timer /\ undisturbed[u]
    BY <1>3, <2>1
  <2>3. ~Touches(w, u) /\ ~Touches(w, u)'
    BY <2>1, <2>2 DEF Touches
  <2>4. QED
    BY <1>8, <2>1, <2>2, <2>3
<1>19. QED
  BY <1>9, <1>10, <1>11, <1>12, <1>13, <1>14, <1>15, <1>16, <1>17, <1>18 DEF WebStep

LEMMA AgreementRestore ==
  ASSUME TypeInv, AgreementInv,
         RestoreStep \/ RestoreAbandon \/ \E t \in Timers : ExpiryPasses(t)
  PROVE  AgreementInv'
<1> USE DEF TypeInv
<1>1. web' = web
  BY DEF RestoreStep, RestoreTimer, RestoreSnapshot, RestoreEnable, RestoreEnableFails,
         RestoreRemove, RestoreRemoveFails, RecordRestoreFailure, RestoreAlert,
         RestoreAbandon, ExpiryPasses
<1>2. stage' = "idle" => todo' = {}
  BY DEF RestoreStep, RestoreTimer, RestoreSnapshot, RestoreEnable, RestoreEnableFails,
         RestoreRemove, RestoreRemoveFails, RecordRestoreFailure, RestoreAlert,
         RestoreAbandon, ExpiryPasses, Leave, AgreementInv
<1>3. SUFFICES ASSUME NEW u \in Timers, undisturbed'[u]  PROVE Settled(u)'
  BY <1>2 DEF AgreementInv
<1>4. \A v \in Web : Touches(v, u)' <=> Touches(v, u)
  BY <1>1 DEF Touches
\* A timer the step is not about.
<1>5. ASSUME undisturbed[u], armed'[u] = armed[u],
             records'[u].mode = records[u].mode, records'[u].failed = records[u].failed,
             u \in todo' <=> u \in todo,
             (stage = "remove" /\ Current(u))' <=> (stage = "remove" /\ Current(u))
      PROVE  Settled(u)'
  <2>1. Settled(u)
    BY <1>5 DEF AgreementInv
  <2>2. QED
    BY <1>1, <1>4, <1>5, <2>1, SettledFrame
\* A timer that the pass is still at.
<1>6. ASSUME undisturbed[u], u \in todo, records'[u].mode # "none",
             u \in todo' => (armed'[u] <=> (stage = "remove" /\ Current(u))'),
             u \notin todo' => ~armed'[u]
      PROVE  Settled(u)'
  <2>1. \A v \in Web : ~Touches(v, u)'
    BY <1>4, <1>6 DEF AgreementInv, Settled
  <2>2. u \notin todo' => Agrees(u)'
    BY <1>6 DEF Agrees
  <2>3. QED
    BY <1>6, <2>1, <2>2 DEF Settled, Busy
\* The systemd state of a timer that the pass is at.
<1>7. ASSUME undisturbed[u], u \in todo
      PROVE  /\ records[u].mode # "none"
             /\ armed[u] <=> stage = "remove" /\ Current(u)
             /\ \A v \in Web : ~Touches(v, u)
  BY <1>7, Zenon DEF AgreementInv, Settled
<1>8. CASE RestoreSnapshot
  <2>1. /\ stage = "idle" /\ armed' = armed /\ records' = records
        /\ todo' = {t \in Timers : Expired(records[t])}
        /\ todo' # {} => stage' = "enable"
        /\ stage' \in {"idle", "enable"}
    BY <1>8 DEF RestoreSnapshot
  <2>2. undisturbed[u] /\ (u \in todo' => ~Busy(u))
    <3>1. undisturbed'[u] = (undisturbed[u] /\ (u \in todo' => ~Busy(u)))
      BY <1>8 DEF RestoreSnapshot
    <3>2. QED
      BY <1>3, <3>1
  <2>3. CASE u \in todo'
    <3>1. ~Busy(u) /\ Agrees(u)
      BY <2>2, <2>3 DEF AgreementInv, Settled
    <3>2. \A v \in Web : ~Touches(v, u)'
      BY <1>4, <3>1 DEF Busy
    <3>3. Active(records[u]) /\ records[u].mode # "none"
      BY <2>1, <2>3
    <3>4. ~armed'[u] /\ stage' = "enable"
      BY <2>1, <2>3, <3>1, <3>3 DEF Agrees
    <3>5. records'[u].mode # "none"
      BY <2>1, <3>3
    <3>6. QED
      BY <2>3, <3>2, <3>4, <3>5 DEF Settled, Busy
  <2>4. CASE u \notin todo'
    <3>1. u \notin todo
      BY <2>1 DEF AgreementInv
    <3>2. QED
      BY <1>5, <2>1, <2>2, <2>4, <3>1
  <2>5. QED
    BY <2>3, <2>4
<1>9. ASSUME NEW t \in Timers, RestoreTimer(t)
      PROVE  Settled(u)'
  <2>1. Current(t) /\ stage # "idle"
    BY <1>9 DEF RestoreTimer, RestoreEnable, RestoreEnableFails, RestoreRemove,
                RestoreRemoveFails, RecordRestoreFailure, RestoreAlert
  <2>2. t \in todo
    BY <2>1 DEF Current
  <2>3. CASE u # t
    <3>1. ~Current(u)
      BY <2>1, <2>3, OneCurrent
    <3>2. /\ undisturbed[u] /\ armed'[u] = armed[u] /\ records'[u] = records[u]
          /\ u \in todo' <=> u \in todo
      <4>1. undisturbed'[u] = undisturbed[u] /\ armed'[u] = armed[u]
        BY <1>9, <2>3 DEF RestoreTimer, RestoreEnable, RestoreEnableFails,
           RestoreRemove, RestoreRemoveFails, RecordRestoreFailure, RestoreAlert, TypeOK
      <4>2. records'[u] = records[u] /\ (u \in todo' <=> u \in todo)
        BY <1>9, <2>3 DEF RestoreTimer, RestoreEnable, RestoreEnableFails, Leave,
           RestoreRemove, RestoreRemoveFails, RecordRestoreFailure, RestoreAlert, TypeOK
      <4>3. QED
        BY <1>3, <4>1, <4>2
    <3>3. ~(stage = "remove" /\ Current(u))'
      <4>1. stage' # "remove" \/ todo' = todo
        BY <1>9 DEF RestoreTimer, RestoreEnable, RestoreEnableFails, Leave,
           RestoreRemove, RestoreRemoveFails, RecordRestoreFailure, RestoreAlert
      <4>2. QED
        BY <3>1, <4>1 DEF Current
    <3>4. QED
      BY <1>5, <3>1, <3>2, <3>3
  <2>4. CASE u = t
    <3>1. CASE RestoreEnable(t)
      <4>1. /\ undisturbed[u] /\ armed'[u] /\ stage' = "remove"
            /\ todo' = todo /\ records' = records
        BY <1>3, <2>4, <3>1 DEF RestoreEnable, TypeOK
      <4>2. Current(u)'
        BY <2>1, <2>4, <4>1 DEF Current
      <4>3. QED
        BY <1>6, <1>7, <2>2, <2>4, <4>1, <4>2
    <3>2. CASE RestoreEnableFails(t)
      <4>1. PICK on \in {armed[t], TRUE} :
              /\ armed' = [armed EXCEPT ![t] = on]
              /\ undisturbed' = [undisturbed EXCEPT ![t] = @ /\ ~on]
        BY <3>2 DEF RestoreEnableFails
      <4>2. armed'[u] = on /\ undisturbed'[u] = (undisturbed[u] /\ ~on)
        BY <2>4, <4>1 DEF TypeOK
      <4>3. undisturbed[u] /\ ~armed'[u]
        BY <1>3, <4>2
      <4>4. stage' = "fail" /\ records' = records
        BY <3>2 DEF RestoreEnableFails
      <4>5. QED
        BY <1>6, <1>7, <2>2, <2>4, <4>3, <4>4
    <3>3. CASE RestoreRemove(t)
      <4>1. /\ stage = "remove" /\ armed' = armed /\ undisturbed' = undisturbed
            /\ records'[u].mode = "none" /\ u \notin todo'
        BY <2>4, <3>3 DEF RestoreRemove, Leave, TypeOK
      <4>2. undisturbed[u]
        BY <1>3, <4>1
      <4>3. armed[u] /\ \A v \in Web : ~Touches(v, u)'
        BY <1>4, <1>7, <2>1, <2>2, <2>4, <4>1, <4>2
      <4>4. Agrees(u)'
        BY <4>1, <4>3 DEF Agrees
      <4>5. QED
        BY <4>1, <4>3, <4>4 DEF Settled, Busy
    <3>4. CASE RestoreRemoveFails(t)
      <4>1. ~undisturbed'[u]
        BY <2>4, <3>4 DEF RestoreRemoveFails, TypeOK
      <4>2. QED
        BY <1>3, <4>1
    <3>5. CASE RecordRestoreFailure(t)
      <4> DEFINE attempts == seen[t].attempts + 1
                 new      == [records[t] EXCEPT !.attempts = attempts,
                                                !.failed = GivesUp(attempts)]
      <4>1. /\ stage = "fail" /\ armed' = armed /\ undisturbed' = undisturbed
            /\ stage' # "remove"
        BY <3>5 DEF RecordRestoreFailure, Leave
      <4>2. undisturbed[u]
        BY <1>3, <4>1
      <4>3. records[u].mode # "none" /\ ~armed[u]
        BY <1>7, <2>2, <2>4, <4>1, <4>2
      <4>4. records' = [records EXCEPT ![t] = new]
        BY <2>4, <3>5, <4>3 DEF RecordRestoreFailure
      <4>5. records'[u].mode = records[u].mode
        <5>1. records[t] \in Record /\ attempts \in 0..RESTORE_RETRY_LIMIT
              /\ GivesUp(attempts) \in BOOLEAN
          BY TimersAssumption DEF TypeOK, LimitInv
        <5> HIDE DEF attempts
        <5>2. new.mode = records[t].mode
          BY <5>1, Stamped
        <5>3. QED
          BY <2>4, <4>4, <5>2 DEF TypeOK
      <4>6. QED
        BY <1>6, <2>2, <2>4, <4>1, <4>2, <4>3, <4>5
    <3>6. CASE RestoreAlert(t)
      <4>1. /\ stage = "alert" /\ armed' = armed /\ undisturbed' = undisturbed
            /\ stage' # "remove" /\ records' = records
        BY <3>6 DEF RestoreAlert, Leave
      <4>2. undisturbed[u]
        BY <1>3, <4>1
      <4>3. records[u].mode # "none" /\ ~armed[u]
        BY <1>7, <2>2, <2>4, <4>1, <4>2
      <4>4. QED
        BY <1>6, <2>2, <2>4, <4>1, <4>2, <4>3
    <3>7. QED
      BY <1>9, <3>1, <3>2, <3>3, <3>4, <3>5, <3>6 DEF RestoreTimer
  <2>5. QED
    BY <2>3, <2>4
<1>10. CASE RestoreAbandon
  <2>1. /\ todo' = {} /\ stage' = "idle" /\ armed' = armed /\ records' = records
        /\ undisturbed'[u] = (undisturbed[u] /\ ~(stage = "remove" /\ Current(u)))
    BY <1>10 DEF RestoreAbandon
  <2>2. undisturbed[u] /\ ~(stage = "remove" /\ Current(u))
    BY <1>3, <2>1
  <2>3. CASE u \in todo
    BY <1>6, <1>7, <2>1, <2>2, <2>3
  <2>4. CASE u \notin todo
    BY <1>5, <2>1, <2>2, <2>4
  <2>5. QED
    BY <2>3, <2>4
<1>11. ASSUME NEW t \in Timers, ExpiryPasses(t)
       PROVE  Settled(u)'
  <2>1. /\ records' = [records EXCEPT ![t] = [records[t] EXCEPT !.due = TRUE]]
        /\ UNCHANGED <<armed, stage, todo>> /\ undisturbed' = undisturbed
    BY <1>11 DEF ExpiryPasses
  <2>2. records'[u].mode = records[u].mode /\ records'[u].failed = records[u].failed
    <3>1. records \in [Timers -> Record]
      BY DEF TypeOK
    <3> HIDE DEF Record
    <3>2. QED
      BY <2>1, <3>1, DueRecord
  <2>3. Current(u)' <=> Current(u)
    BY <2>1 DEF Current
  <2>4. undisturbed[u]
    BY <1>3, <2>1
  <2>5. QED
    BY <1>5, <2>1, <2>2, <2>3, <2>4
<1>12. QED
  BY <1>8, <1>9, <1>10, <1>11 DEF RestoreStep

\* Between operations, an undisturbed timer runs exactly as its record says.
THEOREM RecordsAgreeWithSystemd == Spec => []Agreement
<1>1. Init => AgreementInv
  <2> SUFFICES ASSUME Init, NEW u \in Timers  PROVE Settled(u)
    BY DEF AgreementInv, Init
  <2>1. ~Busy(u) /\ \A w \in Web : ~Touches(w, u)
    BY DEF Init, Busy, Touches
  <2>2. Agrees(u) /\ u \notin todo
    BY DEF Init, Agrees
  <2>3. QED
    BY <2>1, <2>2 DEF Settled
<1>2. TypeInv /\ AgreementInv /\ [Next]_vars => AgreementInv'
  <2> SUFFICES ASSUME TypeInv, AgreementInv, [Next]_vars  PROVE AgreementInv'
    OBVIOUS
  <2>1. CASE Next
    BY <2>1, AgreementWeb, AgreementRestore DEF Next
  <2>2. CASE UNCHANGED vars
    BY <2>2 DEF vars, AgreementInv, Settled, Busy, Touches, Current, Agrees
  <2>3. QED
    BY <2>1, <2>2
<1>3. AgreementInv => Agreement
  BY DEF AgreementInv, Agreement, Settled
<1>4. QED
  BY <1>1, <1>2, <1>3, TypeInvariant, PTL DEF Spec

=============================================================================
