------------------------------ MODULE AlertStore ------------------------------
(***************************************************************************)
(* AlertStore: the list of alerts that the web service and the scripts     *)
(* append to and that admins open, mark and clear.  Every operation is one *)
(* locked_json_update (module FilePersistence), hence one step; what spans *)
(* steps is the id by which a browser names the alert it shows.            *)
(***************************************************************************)
EXTENDS Integers, Sequences, FiniteSetsExt

CONSTANTS
    Admins,    \* browsers with the Alerts page open
    Retention, \* alerts kept (1000 in the code)
    MaxEvents  \* bound: alerts ever logged

ASSUME AlertAssumption == Retention \in Nat \ {0} /\ MaxEvents \in Nat

VARIABLES
    alerts, \* alerts.json; event tells apart alerts that get the same id
    opened, \* the alert each admin has on screen
    logged, \* history: events logged so far, numbered from 1
    cleared \* history: the events logged when the list was last cleared

alertVars == <<alerts, opened, logged, cleared>>

Alert   == [id : 1..MaxEvents, event : 1..MaxEvents, read : BOOLEAN]
Nothing == [id |-> 0, event |-> 0]

Ids(list) == {list[i].id : i \in DOMAIN list}

\* Two plausible bugs: the highest id is given out again; alerts are numbered by
\* their place in the list.
Mutant_NextIdRepeats(list) == Max({0} \cup Ids(list))
Mutant_NextId(list) == Len(list) + 1

NextId(list) == 1 + Max({0} \cup Ids(list))

\* The oldest alerts are kept, the new one is dropped.
Mutant_Newest(list) == SubSeq(list, 1, Min({Retention, Len(list)}))

Newest(list) == SubSeq(list, Max({1, Len(list) - Retention + 1}), Len(list))

append_alert ==
    /\ logged < MaxEvents
    /\ logged' = logged + 1
    /\ alerts' = Newest(Append(alerts, [id |-> NextId(alerts), event |-> logged', read |-> FALSE]))
    /\ UNCHANGED <<opened, cleared>>

\* list_alerts, then get_alert of one of them: the detail view.
Open(a) ==
    /\ \E i \in DOMAIN alerts :
         opened' = [opened EXCEPT ![a] = [id |-> alerts[i].id, event |-> alerts[i].event]]
    /\ UNCHANGED <<alerts, logged, cleared>>

\* The first alert with the id is marked, or none.
mark_alert_read(a) ==
    /\ opened[a] # Nothing
    /\ alerts' = [i \in DOMAIN alerts |->
                    IF /\ alerts[i].id = opened[a].id
                       /\ \A j \in 1..(i - 1) : alerts[j].id # opened[a].id
                    THEN [alerts[i] EXCEPT !.read = TRUE] ELSE alerts[i]]
    /\ opened' = [opened EXCEPT ![a] = Nothing]
    /\ UNCHANGED <<logged, cleared>>

mark_all_read ==
    /\ alerts' = [i \in DOMAIN alerts |-> [alerts[i] EXCEPT !.read = TRUE]]
    /\ UNCHANGED <<opened, logged, cleared>>

clear ==
    /\ alerts' = <<>>
    /\ cleared' = logged
    /\ UNCHANGED <<opened, logged>>

AlertInit ==
    /\ alerts = <<>>
    /\ opened = [a \in Admins |-> Nothing]
    /\ logged = 0
    /\ cleared = 0

AlertNext ==
    \/ append_alert
    \/ \E a \in Admins : Open(a) \/ mark_alert_read(a)
    \/ mark_all_read
    \/ clear

AlertSpec == AlertInit /\ [][AlertNext]_alertVars

-----------------------------------------------------------------------------
(* Properties                                                              *)

AlertTypeOK ==
    /\ alerts \in Seq(Alert)
    /\ opened \in [Admins -> {Nothing} \cup [id : 1..MaxEvents, event : 1..MaxEvents]]
    /\ logged \in 0..MaxEvents
    /\ cleared \in 0..logged

\* Retention and clearing lose nothing else: the list is always exactly the
\* newest alerts logged since it was last cleared, as many as are kept, in order.
NewestAreKept ==
    LET kept == Len(alerts)
    IN  /\ kept = Min({logged - cleared, Retention})
        /\ \A i \in DOMAIN alerts : alerts[i].event = logged - kept + i

\* "IDs stay monotonic even after retention trims old alerts": a browser that
\* marks the alert it shows marks that alert or, when it is gone, none, however
\* many alerts arrive and are trimmed in between.  (Not after a clear: numbering
\* then starts again, and the id may name a newer alert.)
MarksWhatWasOpened ==
    [][\A a \in Admins : mark_alert_read(a) /\ opened[a].event > cleared =>
         \A i \in DOMAIN alerts :
           alerts'[i].read = (alerts[i].read \/ alerts[i].event = opened[a].event)]_alertVars

=============================================================================
