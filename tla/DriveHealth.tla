----------------------------- MODULE DriveHealth -----------------------------
(***************************************************************************)
(* Drive health (services/drive_health.py, routes/drive_health.py and      *)
(* scripts/check_health.py).  Threads of the web service probe the drive   *)
(* and publish what they found as the summary of the dashboard, in memory. *)
(* The scheduled check compares HDSentinel's health percentage with the    *)
(* one of the check before, which is in a file, and alerts on a change.    *)
(*                                                                         *)
(* Time counts half seconds: the two callers stamp a check with different  *)
(* precision.  A health is a number, or NoHealth when the drive could not  *)
(* be read.                                                                *)
(***************************************************************************)
EXTENDS Integers, FiniteSetsExt

CONSTANTS HealthThreads,  \* threads of the web service that probe the drive
          Healths,        \* health percentages
          NoHealth,
          MaxTime,        \* bound: the clock
          MaxHealthMoves  \* bound: checks, changes of health or settings, and crashes

ASSUME HealthAssumption ==
  NoHealth \notin Healths /\ MaxTime \in Nat /\ MaxHealthMoves \in Nat

VARIABLES now,        \* the clock
          health,     \* what HDSentinel would report
          settings,   \* [hdsentinel]: whether it is enabled, and alerts on a change
          summary,    \* the published summary
          stamps,     \* history: the stamps of the checks published since the start
          healthWeb,  \* the check of each thread
          saved,      \* the snapshot of the last scheduled check, if there is one
          mon,        \* the scheduled check
          told,       \* history: the last change alerted
          healthMoves

healthVars == <<now, health, settings, summary, stamps, healthWeb, saved, mon, told, healthMoves>>

Settings == [enabled : BOOLEAN, alert : BOOLEAN]

Never == -1

Empty == [at |-> Never, health |-> NoHealth]

HealthIdle == [pc |-> "idle", at |-> Never, health |-> NoHealth]

NoCheck == [pc |-> "idle", previous |-> {}, health |-> NoHealth]

HealthMove == healthMoves < MaxHealthMoves /\ healthMoves' = healthMoves + 1

Readings == IF settings.enabled THEN {health, NoHealth} ELSE {NoHealth}

(* isoformat(timespec="seconds") drops the fraction. *)
Truncated(t) == t - (t % 2)

Tick ==
  /\ now < MaxTime
  /\ now' = now + 1
  /\ UNCHANGED <<health, settings, summary, stamps, healthWeb, saved, mon, told, healthMoves>>

(***************************************************************************)
(* The checks of the web service.                                          *)
(***************************************************************************)
(* build_drive_health_summary stamps a refresh before it probes. *)
StartRefresh(t) ==
  /\ healthWeb[t] = HealthIdle /\ HealthMove
  /\ healthWeb' = [healthWeb EXCEPT ![t] = [pc |-> "refresh", at |-> now, health |-> NoHealth]]
  /\ UNCHANGED <<now, health, settings, summary, stamps, saved, mon, told>>

(* The Drive Health page probes first. *)
StartPage(t) ==
  /\ healthWeb[t] = HealthIdle /\ HealthMove
  /\ healthWeb' = [healthWeb EXCEPT ![t].pc = "page"]
  /\ UNCHANGED <<now, health, settings, summary, stamps, saved, mon, told>>

(* The drive answers, or not: SMART and HDSentinel may time out.  A page   *)
(* check is stamped now, to the second, and so is a refresh that raised.   *)
Probe(t) ==
  /\ \E h \in Readings :
       \/ /\ healthWeb[t].pc = "refresh"
          /\ healthWeb' = [healthWeb EXCEPT ![t].pc = "publish", ![t].health = h]
       \/ /\ healthWeb[t].pc \in {"page", "refresh"}
          /\ healthWeb[t].pc = "refresh" => h = NoHealth
          /\ healthWeb' = [healthWeb EXCEPT ![t] =
                       [pc |-> "publish", at |-> Truncated(now), health |-> h]]
  /\ UNCHANGED <<now, health, settings, summary, stamps, saved, mon, told, healthMoves>>

\* Mutant: what comes last is shown.
AnyOrder(at) == TRUE

(* publish: a check stamped before the one shown is dropped.  Of two with  *)
(* the same stamp, the one that comes later has the higher number.         *)
InOrder(at) == at >= summary.at

HealthPublish(t) ==
  /\ healthWeb[t].pc = "publish"
  /\ summary' = IF InOrder(healthWeb[t].at)
                THEN [at |-> healthWeb[t].at, health |-> healthWeb[t].health]
                ELSE summary
  /\ stamps' = stamps \cup {healthWeb[t].at}
  /\ healthWeb' = [healthWeb EXCEPT ![t] = HealthIdle]
  /\ UNCHANGED <<now, health, settings, saved, mon, told, healthMoves>>

(* The summary lives in the process. *)
WebRestarts ==
  /\ HealthMove
  /\ summary' = Empty /\ stamps' = {}
  /\ healthWeb' = [t \in HealthThreads |-> HealthIdle]
  /\ UNCHANGED <<now, health, settings, saved, mon, told>>

save_hdsentinel_settings ==
  /\ HealthMove
  /\ settings' \in Settings \ {settings}
  /\ UNCHANGED <<now, health, summary, stamps, healthWeb, saved, mon, told>>

(***************************************************************************)
(* run_scheduled_drive_health_check, in check_health.service: one at a     *)
(* time.                                                                   *)
(***************************************************************************)
(* When the drive is not mounted, or not found, the check alerts and ends  *)
(* before this; run_hdsentinel_health_monitor then loads the state.        *)
StartCheck ==
  /\ mon.pc = "idle" /\ HealthMove
  /\ mon' = [NoCheck EXCEPT !.pc = "collect", !.previous = saved]
  /\ UNCHANGED <<now, health, settings, summary, stamps, healthWeb, saved, told>>

Collect ==
  /\ mon.pc = "collect"
  /\ \E h \in Readings : mon' = [mon EXCEPT !.pc = "compare", !.health = h]
  /\ UNCHANGED <<now, health, settings, summary, stamps, healthWeb, saved, told, healthMoves>>

Changed == mon.health # NoHealth /\ mon.previous \notin {{}, {NoHealth}, {mon.health}}

Alerting == settings = [enabled |-> TRUE, alert |-> TRUE]

Advance(pc, alert) ==
  /\ mon' = [mon EXCEPT !.pc = pc]
  /\ told' = IF alert THEN [from |-> mon.previous, to |-> mon.health] ELSE told
  /\ saved' = saved

\* Mutant: the snapshot is saved before the alert.
SaveFirst ==
  /\ mon.pc = "compare"
  /\ saved' = {mon.health}
  /\ mon' = [mon EXCEPT !.pc = "save"]
  /\ UNCHANGED <<now, health, settings, summary, stamps, healthWeb, told, healthMoves>>

(* The settings are read again, after the probe. *)
Compare ==
  /\ mon.pc = "compare"
  /\ Advance(IF Changed /\ ~Alerting THEN "saveSilently" ELSE "save", Changed /\ Alerting)
  /\ UNCHANGED <<now, health, settings, summary, stamps, healthWeb, healthMoves>>

(* save_hdsentinel_state, whatever was read. *)
Save ==
  /\ mon.pc \in {"save", "saveSilently"}
  /\ saved' = {mon.health}
  /\ mon' = NoCheck
  /\ UNCHANGED <<now, health, settings, summary, stamps, healthWeb, told, healthMoves>>

(* A power cut, or the service is stopped: unmounting does that. *)
CheckDies ==
  /\ mon.pc # "idle" /\ HealthMove
  /\ mon' = NoCheck
  /\ UNCHANGED <<now, health, settings, summary, stamps, healthWeb, saved, told>>

DriveChanges ==
  /\ HealthMove
  /\ health' \in Healths \ {health}
  /\ UNCHANGED <<now, settings, summary, stamps, healthWeb, saved, mon, told>>

(***************************************************************************)
(* The specification.                                                      *)
(***************************************************************************)
HealthInit ==
  /\ now = 0 /\ health \in Healths
  /\ settings = [enabled |-> TRUE, alert |-> TRUE]
  /\ summary = Empty /\ stamps = {} /\ healthWeb = [t \in HealthThreads |-> HealthIdle]
  /\ saved = {} /\ mon = NoCheck
  /\ told = [from |-> {}, to |-> NoHealth] /\ healthMoves = 0

HealthNext ==
  \/ Tick
  \/ \E t \in HealthThreads : StartRefresh(t) \/ StartPage(t) \/ Probe(t) \/ HealthPublish(t)
  \/ WebRestarts \/ save_hdsentinel_settings
  \/ StartCheck \/ Collect \/ Compare \/ Save \/ CheckDies
  \/ DriveChanges

HealthSpec == HealthInit /\ [][HealthNext]_healthVars

(***************************************************************************)
(* Properties.                                                             *)
(***************************************************************************)
(* The type of every variable. *)
HealthTypeOK ==
  /\ now \in 0..MaxTime /\ health \in Healths /\ settings \in Settings
  /\ summary \in [at : Never..MaxTime, health : Healths \cup {NoHealth}]
  /\ stamps \in SUBSET (0..MaxTime)
  /\ \A t \in HealthThreads : healthWeb[t].pc \in {"idle", "refresh", "page", "publish"}
  /\ saved \in {{}} \cup {{h} : h \in Healths \cup {NoHealth}}
  /\ mon.pc \in {"idle", "collect", "compare", "save", "saveSilently"}

(* Checks that overlap end in any order: the dashboard shows the one with  *)
(* the latest stamp of all that were published, never an older one and     *)
(* never none.                                                             *)
LatestShown == summary.at = Max(stamps \cup {Never})

(* A change of health is never lost between two checks that could read the *)
(* drive: the snapshot that the next check compares with moves from one    *)
(* health to another only after an alert for that change, wherever a check *)
(* is cut short, as long as alerts are on when the check asks.             *)
NoChangeMissed ==
  [][saved' # saved /\ saved \notin {{}, {NoHealth}} /\ saved' # {NoHealth}
       /\ mon.pc # "saveSilently"
     => told' = [from |-> saved, to |-> CHOOSE h \in saved' : TRUE]]_healthVars
=============================================================================
