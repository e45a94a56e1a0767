---------------------------- MODULE DisabledTimers ----------------------------
(***************************************************************************)
(* Disable Schedule / Enable Schedule and their recovery.                  *)
(*                                                                         *)
(* Three programs change the same two pieces of state, the systemd timers  *)
(* and disabled_timers.json: the threads of the web service (disable,      *)
(* enable, regeneration of the unit files), the restore helper that        *)
(* systemd starts every five minutes, and systemd itself, whose commands   *)
(* can fail or time out.  Each file update is atomic (locked_json_update,  *)
(* module FilePersistence); a systemd command and the file update that     *)
(* goes with it are two steps, with anything in between.                   *)
(***************************************************************************)
EXTENDS Naturals, Sequences

CONSTANTS
    Timers,      \* the unit names of the managed timers
    Web,         \* the web threads that can run a schedule request
    SortRank,    \* position of a timer in the restore pass (sorted by name)
    RegenOrder,  \* the order in which regeneration visits the timers
    RESTORE_RETRY_LIMIT, \* failed attempts after which the helper gives up (3 in the code)
    MaxCrashes   \* bound: processes killed (or file writes failed) mid-operation

ASSUME TimersAssumption ==
    /\ SortRank \in [Timers -> Nat]
    /\ \A t, u \in Timers : SortRank[t] = SortRank[u] => t = u
    /\ RegenOrder \in Seq(Timers)
    /\ RESTORE_RETRY_LIMIT \in Nat \ {0}
    /\ MaxCrashes \in Nat

VARIABLES
    armed,     \* armed[t]: systemd runs t on its schedule (enabled and started)
    records,   \* disabled_timers.json
    web,       \* what each web thread is in the middle of
    stage,     \* where the restore pass is, for the timer it is at
    todo,      \* the timers this pass has still to restore
    seen,      \* the records this pass read when it began
    crashes,   \* crashes so far
    streak,    \* history: failed restores since the last alert, up to the limit
    undisturbed \* history: see Agreement

vars == <<armed, records, web, stage, todo, seen, crashes, streak, undisturbed>>

-----------------------------------------------------------------------------
(* Records                                                                 *)

Record == [mode : {"none", "temporary", "permanent"}, due : BOOLEAN,
           attempts : 0..RESTORE_RETRY_LIMIT, failed : BOOLEAN]

NoRecord  == [mode |-> "none", due |-> FALSE, attempts |-> 0, failed |-> FALSE]
Fresh(mode) == [mode |-> mode, due |-> FALSE, attempts |-> 0, failed |-> FALSE]

\* A definition named Mutant_... is a plausible bug in the definition after it:
\* it shows that a run would notice that bug.  This one: the helper forgets that
\* it has given up on a record.
Mutant_ExpiredIgnoresFailed(r) == r.mode = "temporary" /\ r.due

\* `due` stands for expires_at <= now.
Active(r)  == r.mode # "none" /\ ~r.failed
Expired(r) == r.mode = "temporary" /\ r.due /\ ~r.failed

-----------------------------------------------------------------------------
(* Who is in the middle of an operation on a timer                         *)

Idle == [op |-> "idle"]

WebState ==
    {Idle}
    \cup [op : {"record"}, timer : Timers, record : {Fresh("temporary"), Fresh("permanent")}]
    \cup [op : {"pop"}, timer : Timers]
    \cup [op : {"regen"}, keep : SUBSET Timers, pos : DOMAIN RegenOrder]

StillToVisit(pos) == {RegenOrder[i] : i \in pos..Len(RegenOrder)}

Touches(w, t) ==
    \/ web[w].op \in {"record", "pop"} /\ web[w].timer = t
    \/ web[w].op = "regen" /\ t \in StillToVisit(web[w].pos)

Busy(t) == t \in todo \/ \E w \in Web : Touches(w, t)

Current(t) == t \in todo /\ \A u \in todo : SortRank[t] <= SortRank[u]

Crash == crashes < MaxCrashes /\ crashes' = crashes + 1

-----------------------------------------------------------------------------
(* The web threads                                                         *)

\* disable(): the systemd command comes first.  A command that fails without
\* having done anything changes no state and is not an action.
DisableSystemd(w, t, mode) ==
    /\ web[w] = Idle
    /\ armed' = [armed EXCEPT ![t] = FALSE]
    /\ web' = [web EXCEPT ![w] = [op |-> "record", timer |-> t, record |-> Fresh(mode)]]
    /\ undisturbed' = [undisturbed EXCEPT ![t] = ~Busy(t)]
    /\ UNCHANGED <<records, stage, todo, seen, crashes, streak>>

\* The command took effect and then raised (a timeout): no record is written.
DisableTimesOut(w, t) ==
    /\ web[w] = Idle
    /\ armed[t]
    /\ armed' = [armed EXCEPT ![t] = FALSE]
    /\ undisturbed' = [undisturbed EXCEPT ![t] = FALSE]
    /\ UNCHANGED <<records, web, stage, todo, seen, crashes, streak>>

WriteRecord(w) ==
    /\ web[w].op = "record"
    /\ records' = [records EXCEPT ![web[w].timer] = web[w].record]
    /\ web' = [web EXCEPT ![w] = Idle]
    /\ UNCHANGED <<armed, stage, todo, seen, crashes, streak, undisturbed>>

\* enable(): the systemd command, then the record is dropped.
EnableSystemd(w, t) ==
    /\ web[w] = Idle
    /\ armed' = [armed EXCEPT ![t] = TRUE]
    /\ web' = [web EXCEPT ![w] = [op |-> "pop", timer |-> t]]
    /\ undisturbed' = [undisturbed EXCEPT ![t] = ~Busy(t)]
    /\ UNCHANGED <<records, stage, todo, seen, crashes, streak>>

\* The command took effect and then raised: the record stays.
EnableTimesOut(w, t) ==
    /\ web[w] = Idle
    /\ ~armed[t]
    /\ armed' = [armed EXCEPT ![t] = TRUE]
    /\ undisturbed' = [undisturbed EXCEPT ![t] = FALSE]
    /\ UNCHANGED <<records, web, stage, todo, seen, crashes, streak>>

PopRecord(w) ==
    /\ web[w].op = "pop"
    /\ records' = [records EXCEPT ![web[w].timer] = NoRecord]
    /\ web' = [web EXCEPT ![w] = Idle]
    /\ UNCHANGED <<armed, stage, todo, seen, crashes, streak, undisturbed>>

\* install_systemd_services_and_timers: the records are read once, without the
\* lock, and every timer is then set by that copy.
RegenSnapshot(w) ==
    /\ web[w] = Idle
    /\ RegenOrder # <<>>
    /\ web' = [web EXCEPT ![w] =
                 [op |-> "regen", keep |-> {t \in Timers : Active(records[t])}, pos |-> 1]]
    /\ undisturbed' = [t \in Timers |->
                         undisturbed[t] /\ (Busy(t) => t \notin StillToVisit(1))]
    /\ UNCHANGED <<armed, records, stage, todo, seen, crashes, streak>>

\* Regeneration arms every timer, whatever the records say.
Mutant_RegenIgnoresRecords(w) ==
    /\ web[w].op = "regen"
    /\ armed' = [armed EXCEPT ![RegenOrder[web[w].pos]] = TRUE]
    /\ web' = [web EXCEPT ![w] = IF web[w].pos = Len(RegenOrder) THEN Idle
                                 ELSE [web[w] EXCEPT !.pos = @ + 1]]
    /\ UNCHANGED <<records, stage, todo, seen, crashes, streak, undisturbed>>

RegenTimer(w) ==
    /\ web[w].op = "regen"
    /\ LET t == RegenOrder[web[w].pos]
       IN  armed' = [armed EXCEPT ![t] = t \notin web[w].keep]
    /\ web' = [web EXCEPT ![w] = IF web[w].pos = Len(RegenOrder) THEN Idle
                                 ELSE [web[w] EXCEPT !.pos = @ + 1]]
    /\ UNCHANGED <<records, stage, todo, seen, crashes, streak, undisturbed>>

\* A systemctl command raised: the loop is left, the later timers keep their state.
RegenFails(w) ==
    /\ web[w].op = "regen"
    /\ web' = [web EXCEPT ![w] = Idle]
    /\ UNCHANGED <<armed, records, stage, todo, seen, crashes, streak, undisturbed>>

\* The web service is restarted, or the locked update raises, between the
\* systemd command and the record.
WebAbandon(w) ==
    /\ web[w].op \in {"record", "pop"}
    /\ Crash
    /\ undisturbed' = [undisturbed EXCEPT ![web[w].timer] = FALSE]
    /\ web' = [web EXCEPT ![w] = Idle]
    /\ UNCHANGED <<armed, records, stage, todo, seen, streak>>

-----------------------------------------------------------------------------
(* The restore helper: one pass at a time, systemd starts a oneshot unit   *)
(* only when the previous run has ended.                                   *)

RestoreSnapshot ==
    /\ stage = "idle"
    /\ todo' = {t \in Timers : Expired(records[t])}
    /\ stage' = IF todo' = {} THEN "idle" ELSE "enable"
    /\ seen' = [t \in Timers |-> IF t \in todo' THEN records[t] ELSE NoRecord]
    /\ undisturbed' = [t \in Timers |-> undisturbed[t] /\ (t \in todo' => ~Busy(t))]
    /\ UNCHANGED <<armed, records, web, crashes, streak>>

\* The pass is done with t and moves to the next timer of its snapshot.
Leave(t) ==
    /\ todo' = todo \ {t}
    /\ seen' = [seen EXCEPT ![t] = NoRecord]
    /\ stage' = IF todo' = {} THEN "idle" ELSE "enable"

FailedOnce(t) ==
    streak' = [streak EXCEPT ![t] = IF @ < RESTORE_RETRY_LIMIT THEN @ + 1 ELSE @]

RestoreEnable(t) ==
    /\ stage = "enable" /\ Current(t)
    /\ armed' = [armed EXCEPT ![t] = TRUE]
    /\ stage' = "remove"
    /\ UNCHANGED <<records, web, todo, seen, crashes, streak, undisturbed>>

\* The command raises, before or after it took effect.
RestoreEnableFails(t) ==
    /\ stage = "enable" /\ Current(t)
    /\ \E on \in {armed[t], TRUE} :
         /\ armed' = [armed EXCEPT ![t] = on]
         /\ undisturbed' = [undisturbed EXCEPT ![t] = @ /\ ~on]
    /\ stage' = "fail"
    /\ FailedOnce(t)
    /\ UNCHANGED <<records, web, todo, seen, crashes>>

\* The timer is switched on and its record forgotten.
Mutant_RestoreKeepsRecord(t) ==
    /\ stage = "remove" /\ Current(t)
    /\ Leave(t)
    /\ UNCHANGED <<armed, records, web, crashes, streak, undisturbed>>

\* _remove_record drops whatever record the timer has now.
RestoreRemove(t) ==
    /\ stage = "remove" /\ Current(t)
    /\ records' = [records EXCEPT ![t] = NoRecord]
    /\ Leave(t)
    /\ UNCHANGED <<armed, web, crashes, streak, undisturbed>>

\* _remove_record is inside the try: a failed write counts as a failed restore.
RestoreRemoveFails(t) ==
    /\ stage = "remove" /\ Current(t)
    /\ Crash
    /\ stage' = "fail"
    /\ FailedOnce(t)
    /\ undisturbed' = [undisturbed EXCEPT ![t] = FALSE]
    /\ UNCHANGED <<armed, records, web, todo, seen>>

\* Off by one: the helper gives up, and alerts, one failure early.
Mutant_GivesUpEarly(attempts) == attempts + 1 >= RESTORE_RETRY_LIMIT

GivesUp(attempts) == attempts >= RESTORE_RETRY_LIMIT

\* _record_restore_failure: the count comes from the snapshot, the rest of the
\* record from the file, or from the snapshot when the file has none any more.
RecordRestoreFailure(t) ==
    /\ stage = "fail" /\ Current(t)
    /\ LET attempts == seen[t].attempts + 1
           current  == IF records[t].mode = "none" THEN seen[t] ELSE records[t]
       IN  /\ records' = [records EXCEPT ![t] =
                            [current EXCEPT !.attempts = attempts,
                                            !.failed = GivesUp(attempts)]]
           /\ IF GivesUp(attempts)
              THEN stage' = "alert" /\ UNCHANGED <<todo, seen>>
              ELSE Leave(t)
    /\ UNCHANGED <<armed, web, crashes, streak, undisturbed>>

RestoreAlert(t) ==
    /\ stage = "alert" /\ Current(t)
    /\ streak' = [streak EXCEPT ![t] = 0]
    /\ Leave(t)
    /\ UNCHANGED <<armed, records, web, crashes, undisturbed>>

\* The helper is killed (its unit is stopped, the machine reboots).
RestoreAbandon ==
    /\ stage # "idle"
    /\ Crash
    /\ undisturbed' = [t \in Timers |->
                         undisturbed[t] /\ ~(stage = "remove" /\ Current(t))]
    /\ stage' = "idle"
    /\ todo' = {}
    /\ seen' = [t \in Timers |-> NoRecord]
    /\ UNCHANGED <<armed, records, web, streak>>

\* Time passes a temporary disable's expires_at.
ExpiryPasses(t) ==
    /\ records[t].mode = "temporary" /\ ~records[t].due
    /\ records' = [records EXCEPT ![t].due = TRUE]
    /\ UNCHANGED <<armed, web, stage, todo, seen, crashes, streak, undisturbed>>

-----------------------------------------------------------------------------

Init ==
    /\ armed = [t \in Timers |-> TRUE]
    /\ records = [t \in Timers |-> NoRecord]
    /\ web = [w \in Web |-> Idle]
    /\ stage = "idle"
    /\ todo = {}
    /\ seen = [t \in Timers |-> NoRecord]
    /\ crashes = 0
    /\ streak = [t \in Timers |-> 0]
    /\ undisturbed = [t \in Timers |-> TRUE]

WebStep(w) ==
    \/ \E t \in Timers : \/ \E mode \in {"temporary", "permanent"} : DisableSystemd(w, t, mode)
                         \/ DisableTimesOut(w, t)
                         \/ EnableSystemd(w, t)
                         \/ EnableTimesOut(w, t)
    \/ WriteRecord(w)
    \/ PopRecord(w)
    \/ RegenSnapshot(w)
    \/ RegenTimer(w)
    \/ RegenFails(w)
    \/ WebAbandon(w)

RestoreTimer(t) ==
    \/ RestoreEnable(t)
    \/ RestoreEnableFails(t)
    \/ RestoreRemove(t)
    \/ RestoreRemoveFails(t)
    \/ RecordRestoreFailure(t)
    \/ RestoreAlert(t)

RestoreStep == RestoreSnapshot \/ \E t \in Timers : RestoreTimer(t)

Next ==
    \/ \E w \in Web : WebStep(w)
    \/ RestoreStep
    \/ RestoreAbandon
    \/ \E t \in Timers : ExpiryPasses(t)

\* simple_safer_server_restore_schedules.timer starts the helper every five
\* minutes (Persistent=true) and every command it runs has a timeout.
Fairness == WF_vars(RestoreStep)

Spec == Init /\ [][Next]_vars /\ Fairness

-----------------------------------------------------------------------------
(* Properties                                                              *)

TypeOK ==
    /\ armed \in [Timers -> BOOLEAN]
    /\ records \in [Timers -> Record]
    /\ web \in [Web -> WebState]
    /\ stage \in {"idle", "enable", "remove", "fail", "alert"}
    /\ todo \in SUBSET Timers
    /\ seen \in [Timers -> Record]
    /\ crashes \in 0..MaxCrashes
    /\ streak \in [Timers -> 0..RESTORE_RETRY_LIMIT]
    /\ undisturbed \in [Timers -> BOOLEAN]

Agrees(t) ==
    /\ records[t].mode = "none" => armed[t]
    /\ Active(records[t]) => ~armed[t]

\* The task page and systemd tell the same story: a timer without a record runs,
\* a timer with an active record does not.  It holds at every moment at which
\* no operation on the timer is half done, as long as the timer is
\* "undisturbed": since the last Disable or Enable Schedule that began while
\* nothing else was under way on it, no operation on it overlapped another, no
\* systemctl command did its work and then reported failure, and no process
\* died between the command and the record.  So whatever state the timer is
\* in, one undisturbed Disable or Enable brings record and systemd together.
Agreement == \A t \in Timers : undisturbed[t] /\ ~Busy(t) => Agrees(t)

\* "Schedule restore failed" is sent only after three failed attempts to switch
\* the timer on again since the last such alert, however disables, enables and
\* crashes interleave with the restore passes.
AlertNotEarly ==
    \A t \in Timers : stage = "alert" /\ Current(t) => streak[t] = RESTORE_RETRY_LIMIT

\* An expired temporary disable does not stay forever: a restore pass removes
\* its record or gives up on it for the admin to see, unless an admin replaces it.
ExpiredIsResolved == \A t \in Timers : Expired(records[t]) ~> ~Expired(records[t])

\* docs/task_detail.md: "Permanent Disable: Leaves automatic runs off until
\* Enable Schedule is used."  A timer with a permanent record is switched on by
\* the Enable Schedule request only.
PermanentStaysOff ==
    [][\A t \in Timers :
         records[t].mode = "permanent" /\ ~armed[t] /\ armed'[t]
           => \E w \in Web : EnableSystemd(w, t) \/ EnableTimesOut(w, t)]_vars

=============================================================================
