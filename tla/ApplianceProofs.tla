---------------------------- MODULE ApplianceProofs ----------------------------
(***************************************************************************)
(* Proofs about the parts that MCAppliance puts together.  The shares and  *)
(* the backup drive have modules of their own; the alert list, drive       *)
(* health, the onboarding, the cloud destination, the server name and the  *)
(* tasks of fake mode follow here, each with its invariant, and at the end *)
(* the composition: every part behaves as it does alone, so that what is   *)
(* proved of the parts holds of all of them together.                      *)
(***************************************************************************)
EXTENDS MCAppliance, SambaSharesProofs, BackupDriveProofs, SequenceTheorems, TLAPS

\* A bounded counter moves on.
LEMMA OneMore ==
  ASSUME NEW n \in Nat, NEW k \in 0..n, k < n
  PROVE  k + 1 \in 0..n
OBVIOUS

USE AlertAssumption

-----------------------------------------------------------------------------
(* Alert list                                                              *)

\* The list is the newest of the events c+1..l, as many as are kept, numbered
\* from 1 since the list was last cleared: an id tells which event it is.
Window(list, l, c) ==
    /\ list \in Seq(Alert)
    /\ Len(list) <= l - c /\ Len(list) <= Retention
    /\ Len(list) = l - c \/ Len(list) = Retention
    /\ \A i \in 1..Len(list) : /\ list[i].event = l - Len(list) + i
                               /\ list[i].id = l - Len(list) + i - c

\* The alert on screen, unless it was cleared, has the id it was opened under.
ScreenIds ==
    \A a \in Admins :
      /\ opened[a].event <= logged
      /\ opened[a].event > cleared => opened[a].id = opened[a].event - cleared

AlertInv == AlertTypeOK /\ Window(alerts, logged, cleared) /\ ScreenIds

LEMMA MinOfTwo ==
  ASSUME NEW m \in Int, NEW n \in Int
  PROVE  Min({m, n}) = IF m <= n THEN m ELSE n
BY DEF Min

LEMMA MaxOfTwo ==
  ASSUME NEW m \in Int, NEW n \in Int
  PROVE  Max({m, n}) = IF m >= n THEN m ELSE n
BY DEF Max

\* The upper bound that a set of integers contains is its maximum.
LEMMA MaxIs ==
  ASSUME NEW S, NEW b \in Int, b \in S, \A x \in S : x \in Int /\ x <= b
  PROVE  Max(S) = b
<1>1. \A x \in S : (\A y \in S : x >= y) <=> x = b
  OBVIOUS
<1>2. QED
  BY <1>1 DEF Max

-----------------------------------------------------------------------------
(* The list, as a function of what was logged                              *)

\* The bounds of Window determine the length of the list.
LEMMA WindowIsNewest ==
  ASSUME logged \in Nat, cleared \in 0..logged, Window(alerts, logged, cleared)
  PROVE  NewestAreKept
<1>1. Min({logged - cleared, Retention})
        = IF logged - cleared <= Retention THEN logged - cleared ELSE Retention
  BY MinOfTwo
<1>2. Len(alerts) \in Nat /\ DOMAIN alerts = 1..Len(alerts)
  BY DEF Window
<1>3. Len(alerts) = Min({logged - cleared, Retention})
  <2>1. /\ Len(alerts) <= logged - cleared /\ Len(alerts) <= Retention
        /\ Len(alerts) = logged - cleared \/ Len(alerts) = Retention
    BY DEF Window
  <2>2. Len(alerts) \in Nat /\ logged - cleared \in Int
    BY <1>2
  <2>3. QED
    BY <1>1, <2>1, <2>2
<1>4. \A i \in DOMAIN alerts : alerts[i].event = logged - Len(alerts) + i
  BY <1>2 DEF Window
<1>5. QED
  BY <1>3, <1>4 DEF NewestAreKept

\* The highest id in the file is that of the newest alert: the next id is one
\* more than the number of alerts since the list was last cleared.
LEMMA NextIdCounts ==
  ASSUME NEW l \in Nat, NEW c \in 0..l, NEW list, Window(list, l, c)
  PROVE  NextId(list) = l - c + 1
<1>1. /\ Len(list) \in Nat /\ DOMAIN list = 1..Len(list)
      /\ Len(list) <= l - c
      /\ Len(list) = 0 => l - c = 0
  BY DEF Window
<1>2. \A i \in 1..Len(list) : list[i].id = l - Len(list) + i - c
  BY DEF Window
<1>3. \A i \in 1..Len(list) : list[i].id \in Int /\ list[i].id <= l - c
  BY <1>1, <1>2
<1>4. \A x \in {0} \cup Ids(list) : x \in Int /\ x <= l - c
  BY <1>1, <1>3 DEF Ids
<1>5. l - c \in {0} \cup Ids(list)
  <2>1. CASE Len(list) = 0
    BY <2>1, <1>1
  <2>2. CASE Len(list) # 0
    <3>1. Len(list) \in 1..Len(list)
      BY <2>2, <1>1
    <3>2. list[Len(list)].id = l - c
      BY <3>1, <1>1, <1>2
    <3>3. QED
      BY <3>1, <3>2, <1>1 DEF Ids
  <2>3. QED
    BY <2>1, <2>2
<1>6. Max({0} \cup Ids(list)) = l - c
  BY <1>4, <1>5, MaxIs
<1>7. QED
  BY <1>6 DEF NextId

\* Logging one more event and trimming moves the window by one event.
LEMMA WindowMoves ==
  ASSUME NEW l \in Nat, NEW c \in 0..l, NEW list, l < MaxEvents,
         Window(list, l, c)
  PROVE  Window(Newest(Append(list, [id |-> l - c + 1, event |-> l + 1, read |-> FALSE])),
                l + 1, c)
<1> DEFINE new  == [id |-> l - c + 1, event |-> l + 1, read |-> FALSE]
           long == Append(list, new)
           from == Max({1, Len(long) - Retention + 1})
<1>1. new \in Alert
  BY DEF Alert
<1>2. list \in Seq(Alert) /\ Len(list) \in Nat
  BY DEF Window
<1>3. /\ long \in Seq(Alert)
      /\ Len(long) = Len(list) + 1
      /\ \A i \in 1..Len(list) : long[i] = list[i]
      /\ long[Len(list) + 1] = new
  BY <1>1, <1>2, AppendProperties
<1>4. \A i \in 1..Len(long) : /\ long[i] \in Alert
                              /\ long[i].event = l - Len(list) + i
                              /\ long[i].id = l - Len(list) + i - c
  <2> SUFFICES ASSUME NEW i \in 1..Len(long)
               PROVE  /\ long[i] \in Alert
                      /\ long[i].event = l - Len(list) + i
                      /\ long[i].id = l - Len(list) + i - c
    OBVIOUS
  <2> HIDE DEF long, new
  <2>1. long[i] \in Alert
    BY <1>3
  <2>2. CASE i \in 1..Len(list)
    BY <2>1, <2>2, <1>2, <1>3 DEF Window
  <2>3. CASE i = Len(list) + 1
    <3>1. new.event = l + 1 /\ new.id = l - c + 1
      BY DEF new
    <3>2. long[i] = new
      BY <2>3, <1>3
    <3>3. long[i].event = l + 1 /\ long[i].id = l - c + 1
      BY <3>1, <3>2
    <3>4. l + 1 = l - Len(list) + i /\ l - c + 1 = l - Len(list) + i - c
      BY <2>3, <1>2
    <3>5. QED
      BY <2>1, <3>3, <3>4, Zenon
  <2>4. QED
    BY <2>2, <2>3, <1>2, <1>3
<1>5. /\ from \in Int
      /\ from = IF 1 >= Len(long) - Retention + 1 THEN 1 ELSE Len(long) - Retention + 1
  <2>1. 1 \in Int /\ Len(long) - Retention + 1 \in Int
    BY <1>2, <1>3
  <2>2. QED
    BY <2>1, MaxOfTwo
<1> DEFINE kept == SubSeq(long, from, Len(long))
<1> HIDE DEF long, new, from
<1>6. from \in Nat /\ from >= 1 /\ from <= Len(long) /\ Len(long) \in Nat
  <2>1. Len(long) \in Nat /\ Len(long) >= 1 /\ Retention \in Nat /\ Retention >= 1
    <3>1. Len(long) = Len(list) + 1
      BY <1>3
    <3>2. QED
      BY <3>1, <1>2
  <2>2. QED
    BY <2>1, <1>5
<1>7. /\ kept \in Seq(Alert)
      /\ Len(kept) = Len(long) - from + 1
      /\ \A i \in 1..Len(kept) : kept[i] = long[from + i - 1]
  <2>1. \A i \in from..Len(long) : long[i] \in Alert
    BY <1>4, <1>6
  <2>2. /\ kept \in Seq(Alert)
        /\ Len(kept) = IF from <= Len(long) THEN Len(long) - from + 1 ELSE 0
        /\ \A i \in 1..(Len(long) - from + 1) : kept[i] = long[from + i - 1]
    BY <2>1, <1>6, SubSeqProperties
  <2>3. QED
    BY <2>2, <1>6
<1> HIDE DEF kept
<1>8. /\ Len(kept) <= (l + 1) - c /\ Len(kept) <= Retention
      /\ Len(kept) = (l + 1) - c \/ Len(kept) = Retention
  <2>1. /\ Len(list) <= l - c /\ Len(list) <= Retention
        /\ Len(list) = l - c \/ Len(list) = Retention
    BY DEF Window
  <2>2. Len(list) \in Nat /\ Len(long) = Len(list) + 1 /\ Len(kept) = Len(long) - from + 1
    BY <1>2, <1>3, <1>7
  <2>3. CASE Len(list) < Retention
    <3>1. from = 1
      BY <2>2, <2>3, <1>5
    <3>2. QED
      BY <2>1, <2>2, <2>3, <3>1
  <2>4. CASE Len(list) = Retention
    <3>1. from = 2
      BY <2>2, <2>4, <1>5
    <3>2. QED
      BY <2>1, <2>2, <2>4, <3>1
  <2>5. QED
    BY <2>1, <2>2, <2>3, <2>4
<1>9. \A i \in 1..Len(kept) : /\ kept[i].event = (l + 1) - Len(kept) + i
                              /\ kept[i].id = (l + 1) - Len(kept) + i - c
  <2> SUFFICES ASSUME NEW i \in 1..Len(kept)
               PROVE  /\ kept[i].event = (l + 1) - Len(kept) + i
                      /\ kept[i].id = (l + 1) - Len(kept) + i - c
    OBVIOUS
  <2>1. from + i - 1 \in 1..Len(long)
    BY <1>6, <1>7
  <2>2. /\ kept[i].event = l - Len(list) + (from + i - 1)
        /\ kept[i].id = l - Len(list) + (from + i - 1) - c
    BY <2>1, <1>4, <1>7
  <2>3. Len(kept) \in Int /\ Len(kept) = Len(list) + 1 - from + 1
    BY <1>2, <1>3, <1>6, <1>7
  <2>4. QED
    BY <2>2, <2>3, <1>2, <1>6
<1>10. Window(kept, l + 1, c)
  BY <1>7, <1>8, <1>9 DEF Window
<1>11. QED
  BY <1>10 DEF Newest, kept, long, new, from

\* Marking alerts as read leaves the window as it is.
LEMMA MarksKeepWindow ==
  ASSUME NEW l \in Nat, NEW c \in 0..l, NEW list, Window(list, l, c),
         NEW mark \in [DOMAIN list -> BOOLEAN]
  PROVE  Window([i \in DOMAIN list |-> IF mark[i] THEN [list[i] EXCEPT !.read = TRUE]
                                                  ELSE list[i]], l, c)
<1> DEFINE marked == [i \in DOMAIN list |-> IF mark[i] THEN [list[i] EXCEPT !.read = TRUE]
                                                       ELSE list[i]]
<1>1. list \in Seq(Alert) /\ Len(list) \in Nat /\ DOMAIN list = 1..Len(list)
  BY DEF Window
<1>2. \A i \in DOMAIN list : list[i] \in Alert
  BY <1>1
<1>3. \A i \in DOMAIN list : /\ marked[i] \in Alert
                             /\ marked[i].event = list[i].event /\ marked[i].id = list[i].id
  BY <1>2 DEF Alert
<1>4. marked \in [1..Len(list) -> Alert]
  BY <1>1, <1>3
<1> HIDE DEF marked
<1>5. marked \in Seq(Alert) /\ Len(marked) = Len(list)
  BY <1>1, <1>4
<1>6. \A i \in 1..Len(marked) : /\ marked[i].event = l - Len(marked) + i
                                /\ marked[i].id = l - Len(marked) + i - c
  BY <1>1, <1>3, <1>5 DEF Window
<1>7. Window(marked, l, c)
  BY <1>5, <1>6 DEF Window
<1>8. QED
  BY <1>7 DEF marked

-----------------------------------------------------------------------------
(* The invariant                                                           *)

LEMMA AlertInitInv == AlertInit => AlertInv
<1> SUFFICES ASSUME AlertInit PROVE AlertInv
  OBVIOUS
<1>1. AlertTypeOK
  BY DEF AlertInit, AlertTypeOK, Nothing
<1>2. Window(alerts, logged, cleared)
  BY DEF AlertInit, Window
<1>3. ScreenIds
  BY DEF AlertInit, ScreenIds, Nothing
<1>4. QED
  BY <1>1, <1>2, <1>3 DEF AlertInv

LEMMA AlertAppendInv == AlertInv /\ append_alert => AlertInv'
<1> SUFFICES ASSUME AlertInv, append_alert PROVE AlertInv'
  OBVIOUS
<1>1. /\ logged \in Nat /\ cleared \in 0..logged /\ logged < MaxEvents
      /\ logged' = logged + 1 /\ opened' = opened /\ cleared' = cleared
  BY DEF AlertInv, AlertTypeOK, append_alert
<1>2. NextId(alerts) = logged - cleared + 1
  BY <1>1, NextIdCounts DEF AlertInv
<1>3. alerts' = Newest(Append(alerts, [id |-> logged - cleared + 1, event |-> logged + 1,
                                       read |-> FALSE]))
  BY <1>1, <1>2 DEF append_alert
<1>4. Window(alerts', logged + 1, cleared)
  BY <1>1, <1>3, WindowMoves DEF AlertInv
<1>5. Window(alerts, logged, cleared)'
  BY <1>1, <1>4 DEF Window
<1>6. AlertTypeOK'
  BY <1>1, <1>4 DEF AlertInv, AlertTypeOK, Window
<1>7. ScreenIds'
  <2> SUFFICES ASSUME NEW a \in Admins
               PROVE  /\ opened[a].event <= logged + 1
                      /\ opened[a].event > cleared => opened[a].id = opened[a].event - cleared
    BY <1>1 DEF ScreenIds
  <2>1. opened[a].event \in Int
    BY DEF AlertInv, AlertTypeOK, Nothing
  <2>2. QED
    BY <1>1, <2>1 DEF AlertInv, ScreenIds
<1>8. QED
  BY <1>5, <1>6, <1>7 DEF AlertInv

LEMMA AlertOpenInv == ASSUME AlertInv, NEW a \in Admins, Open(a) PROVE AlertInv'
<1>1. PICK i \in DOMAIN alerts :
        opened' = [opened EXCEPT ![a] = [id |-> alerts[i].id, event |-> alerts[i].event]]
  BY DEF Open
<1>2. alerts' = alerts /\ logged' = logged /\ cleared' = cleared
  BY DEF Open
<1>3. Window(alerts, logged, cleared)'
  BY <1>2 DEF AlertInv, Window
<1>4. /\ logged \in Nat /\ cleared \in 0..logged
      /\ Len(alerts) \in Nat /\ i \in 1..Len(alerts) /\ alerts[i] \in Alert
  BY DEF AlertInv, AlertTypeOK
<1>5. /\ alerts[i].event = logged - Len(alerts) + i
      /\ alerts[i].id = logged - Len(alerts) + i - cleared
  BY <1>4 DEF AlertInv, Window
<1>6. alerts[i].event <= logged /\ alerts[i].id = alerts[i].event - cleared
  BY <1>4, <1>5
<1>7. AlertTypeOK'
  BY <1>1, <1>2, <1>4 DEF AlertInv, AlertTypeOK, Alert
<1>8. ScreenIds'
  <2> SUFFICES ASSUME NEW b \in Admins
               PROVE  /\ opened'[b].event <= logged
                      /\ opened'[b].event > cleared => opened'[b].id = opened'[b].event - cleared
    BY <1>2 DEF ScreenIds
  <2>1. opened \in [Admins -> {Nothing} \cup [id : 1..MaxEvents, event : 1..MaxEvents]]
    BY DEF AlertInv, AlertTypeOK
  <2>2. CASE b = a
    BY <2>1, <2>2, <1>1, <1>6
  <2>3. CASE b # a
    <3>1. opened'[b] = opened[b]
      BY <2>1, <2>3, <1>1
    <3>2. QED
      BY <3>1 DEF AlertInv, ScreenIds
  <2>4. QED
    BY <2>2, <2>3
<1>9. QED
  BY <1>3, <1>7, <1>8 DEF AlertInv

\* Which alert of the list an id marks: the first one that has it.
Hit(a, i) == /\ alerts[i].id = opened[a].id
             /\ \A j \in 1..(i - 1) : alerts[j].id # opened[a].id

LEMMA AlertMarkOneInv == ASSUME AlertInv, NEW a \in Admins, mark_alert_read(a) PROVE AlertInv'
<1> DEFINE mark == [i \in DOMAIN alerts |-> Hit(a, i)]
<1>1. alerts' = [i \in DOMAIN alerts |-> IF mark[i] THEN [alerts[i] EXCEPT !.read = TRUE]
                                                    ELSE alerts[i]]
  BY DEF mark_alert_read, Hit
<1>2. mark \in [DOMAIN alerts -> BOOLEAN]
  BY DEF Hit
<1>3. /\ logged \in Nat /\ cleared \in 0..logged
      /\ logged' = logged /\ cleared' = cleared
  BY DEF AlertInv, AlertTypeOK, mark_alert_read
<1> HIDE DEF mark
<1>4. Window(alerts', logged, cleared)
  BY <1>1, <1>2, <1>3, MarksKeepWindow DEF AlertInv
<1>5. Window(alerts, logged, cleared)'
  BY <1>3, <1>4 DEF Window
<1>6. opened \in [Admins -> {Nothing} \cup [id : 1..MaxEvents, event : 1..MaxEvents]]
  BY DEF AlertInv, AlertTypeOK
<1>7. opened' = [opened EXCEPT ![a] = Nothing]
  BY DEF mark_alert_read
<1>8. AlertTypeOK'
  BY <1>3, <1>4, <1>6, <1>7 DEF AlertInv, AlertTypeOK, Window
<1>9. ScreenIds'
  BY <1>3, <1>6, <1>7 DEF AlertInv, ScreenIds, Nothing
<1>10. QED
  BY <1>5, <1>8, <1>9 DEF AlertInv

LEMMA AlertMarkAllInv == AlertInv /\ mark_all_read => AlertInv'
<1> SUFFICES ASSUME AlertInv, mark_all_read PROVE AlertInv'
  OBVIOUS
<1> DEFINE mark == [i \in DOMAIN alerts |-> TRUE]
<1>1. alerts' = [i \in DOMAIN alerts |-> IF mark[i] THEN [alerts[i] EXCEPT !.read = TRUE]
                                                    ELSE alerts[i]]
  BY DEF mark_all_read
<1>2. mark \in [DOMAIN alerts -> BOOLEAN]
  OBVIOUS
<1>3. /\ logged \in Nat /\ cleared \in 0..logged
      /\ logged' = logged /\ cleared' = cleared /\ opened' = opened
  BY DEF AlertInv, AlertTypeOK, mark_all_read
<1> HIDE DEF mark
<1>4. Window(alerts', logged, cleared)
  BY <1>1, <1>2, <1>3, MarksKeepWindow DEF AlertInv
<1>5. Window(alerts, logged, cleared)' /\ AlertTypeOK' /\ ScreenIds'
  BY <1>3, <1>4 DEF AlertInv, AlertTypeOK, Window, ScreenIds
<1>6. QED
  BY <1>5 DEF AlertInv

LEMMA AlertClearInv == AlertInv /\ clear => AlertInv'
<1> SUFFICES ASSUME AlertInv, clear PROVE AlertInv'
  OBVIOUS
<1>1. /\ logged \in Nat /\ alerts' = <<>> /\ cleared' = logged
      /\ logged' = logged /\ opened' = opened
  BY DEF AlertInv, AlertTypeOK, clear
<1>2. Window(alerts, logged, cleared)'
  BY <1>1 DEF Window
<1>3. AlertTypeOK'
  BY <1>1 DEF AlertInv, AlertTypeOK
<1>4. ScreenIds'
  <2> SUFFICES ASSUME NEW a \in Admins
               PROVE  opened[a].event <= logged /\ ~(opened[a].event > logged)
    BY <1>1 DEF ScreenIds
  <2>1. opened[a].event \in Int /\ opened[a].event <= logged
    BY DEF AlertInv, AlertTypeOK, ScreenIds, Nothing
  <2>2. QED
    BY <1>1, <2>1
<1>5. QED
  BY <1>2, <1>3, <1>4 DEF AlertInv

LEMMA AlertNextInv == AlertInv /\ [AlertNext]_alertVars => AlertInv'
<1> SUFFICES ASSUME AlertInv, [AlertNext]_alertVars PROVE AlertInv'
  OBVIOUS
<1>1. CASE append_alert
  BY <1>1, AlertAppendInv
<1>2. ASSUME NEW a \in Admins, Open(a) PROVE AlertInv'
  BY <1>2, AlertOpenInv
<1>3. ASSUME NEW a \in Admins, mark_alert_read(a) PROVE AlertInv'
  BY <1>3, AlertMarkOneInv
<1>4. CASE mark_all_read
  BY <1>4, AlertMarkAllInv
<1>5. CASE clear
  BY <1>5, AlertClearInv
<1>6. CASE UNCHANGED alertVars
  BY <1>6 DEF alertVars, AlertInv, AlertTypeOK, Window, ScreenIds
<1>7. QED
  BY <1>1, <1>2, <1>3, <1>4, <1>5, <1>6 DEF AlertNext

\* The invariant holds in every state that AlertStore can reach.
THEOREM AlertInvariance == AlertSpec => []AlertInv
BY AlertInitInv, AlertNextInv, PTL DEF AlertSpec

\* Of an inductive invariant's parts: the list is the newest alerts.
LEMMA InvGivesNewest == AlertInv => NewestAreKept
<1> SUFFICES ASSUME AlertInv PROVE NewestAreKept
  OBVIOUS
<1>1. logged \in Nat /\ cleared \in 0..logged /\ Window(alerts, logged, cleared)
  BY DEF AlertInv, AlertTypeOK
<1>2. QED
  BY <1>1, WindowIsNewest

-----------------------------------------------------------------------------
(* What an id names                                                        *)

\* Two alerts of the list have one id only when they are one alert, and the id
\* on screen is that of the event on screen: the first alert with the id is it.
LEMMA HitsTheEvent ==
  ASSUME AlertInv, NEW a \in Admins, opened[a].event > cleared, NEW i \in DOMAIN alerts
  PROVE  Hit(a, i) <=> alerts[i].event = opened[a].event
<1>1. /\ logged \in Nat /\ cleared \in Nat /\ Len(alerts) \in Nat
      /\ DOMAIN alerts = 1..Len(alerts)
  BY DEF AlertInv, AlertTypeOK
<1>2. opened[a].id = opened[a].event - cleared
  BY DEF AlertInv, ScreenIds
<1>3. opened[a].event \in Int
  BY DEF AlertInv, AlertTypeOK, Nothing
<1>4. \A j \in 1..Len(alerts) : /\ alerts[j].event = logged - Len(alerts) + j
                                /\ alerts[j].id = logged - Len(alerts) + j - cleared
  BY DEF AlertInv, Window
<1> DEFINE e == opened[a].event
           n == Len(alerts)
<1>5. alerts[i].event = logged - n + i /\ alerts[i].id = logged - n + i - cleared
  BY <1>1, <1>4
<1>6. Hit(a, i) => alerts[i].event = e
  <2>1. Hit(a, i) => alerts[i].id = opened[a].id
    BY DEF Hit
  <2>2. QED
    BY <2>1, <1>1, <1>2, <1>3, <1>5
<1>7. ASSUME alerts[i].event = e PROVE Hit(a, i)
  <2>1. alerts[i].id = opened[a].id
    BY <1>7, <1>1, <1>2, <1>3, <1>5
  <2>2. ASSUME NEW j \in 1..(i - 1) PROVE alerts[j].id # opened[a].id
    <3>1. j \in 1..n /\ j < i /\ i \in Int
      BY <1>1
    <3>2. alerts[j].id = logged - n + j - cleared
      BY <3>1, <1>4
    <3>3. alerts[j].id # alerts[i].id
      BY <3>1, <3>2, <1>1, <1>5
    <3>4. QED
      BY <2>1, <3>3
  <2>3. QED
    BY <2>1, <2>2 DEF Hit
<1>8. QED
  BY <1>6, <1>7

LEMMA StepMarks ==
  ASSUME AlertInv, NEW a \in Admins, mark_alert_read(a), opened[a].event > cleared,
         NEW i \in DOMAIN alerts
  PROVE  alerts'[i].read = (alerts[i].read \/ alerts[i].event = opened[a].event)
<1>1. alerts[i] \in Alert
  BY DEF AlertInv, AlertTypeOK
<1>2. alerts'[i] = IF Hit(a, i) THEN [alerts[i] EXCEPT !.read = TRUE] ELSE alerts[i]
  BY DEF mark_alert_read, Hit
<1>3. CASE alerts[i].event = opened[a].event
  <2>1. alerts'[i] = [alerts[i] EXCEPT !.read = TRUE]
    BY <1>2, <1>3, HitsTheEvent
  <2>2. alerts'[i].read = TRUE
    BY <1>1, <2>1 DEF Alert
  <2>3. QED
    BY <1>3, <2>2
<1>4. CASE alerts[i].event # opened[a].event
  <2>1. alerts'[i] = alerts[i]
    BY <1>2, <1>4, HitsTheEvent
  <2>2. alerts[i].read \in BOOLEAN
    BY <1>1 DEF Alert
  <2>3. QED
    BY <1>4, <2>1, <2>2
<1>5. QED
  BY <1>3, <1>4

-----------------------------------------------------------------------------
(* Theorems                                                                *)

\* Every value that AlertStore keeps has its type, in every reachable state.
THEOREM AlertTypesCorrect == AlertSpec => []AlertTypeOK
<1>1. AlertInv => AlertTypeOK
  BY DEF AlertInv
<1>2. QED
  BY <1>1, AlertInvariance, PTL

\* For every retention and however many alerts are logged, trimmed and cleared,
\* the file holds exactly the newest ones, in order.
THEOREM NewestAlertsAreKept == AlertSpec => []NewestAreKept
BY AlertInvariance, InvGivesNewest, PTL

\* For any number of admins, marking the alert on screen marks that alert and no
\* other, unless the list was cleared after it was opened.
THEOREM MarksTheAlertOnScreen == AlertSpec => MarksWhatWasOpened
<1> DEFINE Marks ==
      \A a \in Admins : mark_alert_read(a) /\ opened[a].event > cleared =>
         \A i \in DOMAIN alerts :
           alerts'[i].read = (alerts[i].read \/ alerts[i].event = opened[a].event)
<1>1. AlertInv => Marks
  BY StepMarks
<1>2. AlertInv /\ [AlertNext]_alertVars => [Marks]_alertVars
  BY <1>1
<1>3. QED
  BY <1>2, AlertInvariance, PTL DEF AlertSpec, MarksWhatWasOpened

HIDE AlertAssumption

-----------------------------------------------------------------------------
(* Drive health                                                            *)

Readable == Healths \cup {NoHealth}

Clock == 0..MaxTime

Stamps == Never..MaxTime

HealthSnapshots == {{}} \cup {{h} : h \in Readable}

WebChecks == [pc : {"idle", "refresh", "page", "publish"}, at : Stamps, health : Readable]

ScheduledChecks == [pc : {"idle", "collect", "compare", "save", "saveSilently"},
                    previous : HealthSnapshots, health : Readable]

HealthTyped ==
  /\ now \in Clock /\ health \in Healths /\ settings \in Settings
  /\ summary \in [at : Stamps, health : Readable]
  /\ stamps \in SUBSET Clock
  /\ healthWeb \in [HealthThreads -> WebChecks]
  /\ saved \in HealthSnapshots
  /\ mon \in ScheduledChecks

\* A check that has been stamped, or will not be published.
Stamped == \A t \in HealthThreads :
             healthWeb[t].pc \in {"refresh", "publish"} => healthWeb[t].at \in Clock

\* The stamp shown is one of those published, and none of them is later.
ShownIsLatest ==
  /\ summary.at \in stamps \cup {Never}
  /\ \A s \in stamps : s <= summary.at

\* A scheduled check compares with the snapshot that it will replace.
Compared == mon.pc # "idle" => mon.previous = saved

\* Before a change is saved it has been alerted, unless nobody is to be told.
Alerted == mon.pc = "save" /\ Changed => told = [from |-> mon.previous, to |-> mon.health]

HealthInv == HealthTyped /\ Stamped /\ ShownIsLatest /\ Compared /\ Alerted

LEMMA TruncatedTime == ASSUME NEW t \in Clock PROVE Truncated(t) \in Clock
BY HealthAssumption DEF Truncated, Clock

LEMMA TimesAreStamps == Never \in Stamps /\ Clock \subseteq Stamps
BY HealthAssumption DEF Stamps, Clock, Never

LEMMA HealthInitInv == ASSUME HealthInit PROVE HealthInv
<1>1. /\ now = 0 /\ health \in Healths /\ stamps = {} /\ saved = {}
      /\ summary = Empty /\ healthWeb = [t \in HealthThreads |-> HealthIdle] /\ mon = NoCheck
      /\ settings \in Settings
  BY DEF HealthInit, Settings
<1>2. now \in Clock
  BY <1>1, HealthAssumption DEF Clock
<1>3. /\ Empty \in [at : Stamps, health : Readable] /\ HealthIdle \in WebChecks
      /\ NoCheck \in ScheduledChecks
  BY TimesAreStamps DEF Empty, HealthIdle, NoCheck, WebChecks, ScheduledChecks, Readable,
                        HealthSnapshots
<1>4. HealthTyped
  BY <1>1, <1>2, <1>3 DEF HealthTyped, HealthSnapshots
<1>5. Stamped
  BY <1>1 DEF Stamped, HealthIdle
<1>6. ShownIsLatest
  BY <1>1 DEF ShownIsLatest, Empty
<1>7. Compared /\ Alerted
  BY <1>1 DEF Compared, Alerted, NoCheck
<1>8. QED
  BY <1>4, <1>5, <1>6, <1>7 DEF HealthInv

\* A step that leaves the scheduled check alone.
LEMMA CheckUnchanged ==
  ASSUME HealthInv, UNCHANGED <<saved, mon, told>>
  PROVE  Compared' /\ Alerted'
BY DEF HealthInv, Compared, Alerted, Changed

\* A step that leaves the checks of the web service alone.
LEMMA WebUnchanged ==
  ASSUME HealthInv, UNCHANGED <<summary, stamps, healthWeb>>
  PROVE  Stamped' /\ ShownIsLatest'
BY DEF HealthInv, Stamped, ShownIsLatest

LEMMA TickInv == ASSUME HealthInv, Tick PROVE HealthInv'
<1>1. /\ now < MaxTime /\ now' = now + 1
      /\ UNCHANGED <<health, settings, summary, stamps, healthWeb, saved, mon, told>>
  BY DEF Tick
<1>2. now \in 0..MaxTime
  BY DEF HealthInv, HealthTyped, Clock
<1>3. now' \in Clock
  BY <1>1, <1>2, HealthAssumption DEF Clock
<1>4. HealthTyped'
  BY <1>1, <1>3 DEF HealthInv, HealthTyped
<1>5. QED
  BY <1>1, <1>4, CheckUnchanged, WebUnchanged DEF HealthInv

\* A step of one web check.
LEMMA WebStep ==
  ASSUME HealthInv, NEW t \in HealthThreads, NEW c \in WebChecks,
         healthWeb' = [healthWeb EXCEPT ![t] = c],
         c.pc \in {"refresh", "publish"} => c.at \in Clock
  PROVE  healthWeb' \in [HealthThreads -> WebChecks] /\ Stamped'
<1>1. healthWeb \in [HealthThreads -> WebChecks] /\ Stamped
  BY DEF HealthInv, HealthTyped
<1>2. healthWeb' \in [HealthThreads -> WebChecks]
  BY <1>1
<1>3. healthWeb'[t] = c /\ \A u \in HealthThreads \ {t} : healthWeb'[u] = healthWeb[u]
  BY <1>1
<1>4. Stamped'
  BY <1>1, <1>3 DEF Stamped
<1>5. QED
  BY <1>2, <1>4

\* A thread begins a check, or ends its probe: the summary is as it was.
LEMMA ProbingInv ==
  ASSUME HealthInv, NEW t \in HealthThreads, NEW c \in WebChecks,
         healthWeb' = [healthWeb EXCEPT ![t] = c],
         c.pc \in {"refresh", "publish"} => c.at \in Clock,
         UNCHANGED <<now, health, settings, summary, stamps, saved, mon, told>>
  PROVE  HealthInv'
<1>1. healthWeb' \in [HealthThreads -> WebChecks] /\ Stamped'
  BY WebStep
<1>2. HealthTyped'
  BY <1>1 DEF HealthInv, HealthTyped
<1>3. ShownIsLatest'
  BY DEF HealthInv, ShownIsLatest
<1>4. QED
  BY <1>1, <1>2, <1>3, CheckUnchanged DEF HealthInv

LEMMA StartRefreshInv == ASSUME HealthInv, NEW t \in HealthThreads, StartRefresh(t) PROVE HealthInv'
<1> DEFINE c == [pc |-> "refresh", at |-> now, health |-> NoHealth]
<1>1. now \in Clock
  BY DEF HealthInv, HealthTyped
<1>2. c \in WebChecks
  BY <1>1, TimesAreStamps DEF WebChecks, Readable
<1>3. c.at \in Clock
  BY <1>1
<1>4. /\ healthWeb' = [healthWeb EXCEPT ![t] = c]
      /\ UNCHANGED <<now, health, settings, summary, stamps, saved, mon, told>>
  BY DEF StartRefresh
<1> HIDE DEF c
<1>5. QED
  BY <1>2, <1>3, <1>4, ProbingInv

LEMMA StartPageInv == ASSUME HealthInv, NEW t \in HealthThreads, StartPage(t) PROVE HealthInv'
<1> DEFINE c == [healthWeb[t] EXCEPT !.pc = "page"]
<1>1. healthWeb[t] \in WebChecks
  BY DEF HealthInv, HealthTyped
<1>2. c \in WebChecks /\ c.pc = "page"
  BY <1>1 DEF WebChecks
<1>3. /\ healthWeb' = [healthWeb EXCEPT ![t] = c]
      /\ UNCHANGED <<now, health, settings, summary, stamps, saved, mon, told>>
  BY DEF StartPage
<1> HIDE DEF c
<1>4. QED
  BY <1>2, <1>3, ProbingInv

LEMMA ReadingsAreReadable == ASSUME HealthInv PROVE Readings \subseteq Readable
BY DEF HealthInv, HealthTyped, Readings, Readable

LEMMA ProbeInv == ASSUME HealthInv, NEW t \in HealthThreads, Probe(t) PROVE HealthInv'
<1>1. healthWeb[t] \in WebChecks /\ now \in Clock /\ Stamped
  BY DEF HealthInv, HealthTyped
<1>2. UNCHANGED <<now, health, settings, summary, stamps, saved, mon, told>>
  BY DEF Probe
<1>3. PICK h \in Readings :
        \/ /\ healthWeb[t].pc = "refresh"
           /\ healthWeb' = [healthWeb EXCEPT ![t].pc = "publish", ![t].health = h]
        \/ healthWeb' = [healthWeb EXCEPT ![t] =
                      [pc |-> "publish", at |-> Truncated(now), health |-> h]]
  BY DEF Probe
<1>4. h \in Readable
  BY ReadingsAreReadable
<1>5. CASE /\ healthWeb[t].pc = "refresh"
           /\ healthWeb' = [healthWeb EXCEPT ![t].pc = "publish", ![t].health = h]
  <2> DEFINE c == [healthWeb[t] EXCEPT !.pc = "publish", !.health = h]
  <2>1. c \in WebChecks /\ c.at = healthWeb[t].at
    BY <1>1, <1>4 DEF WebChecks
  <2>2. c.at \in Clock
    BY <1>1, <1>5, <2>1 DEF Stamped
  <2>3. healthWeb' = [healthWeb EXCEPT ![t] = c]
    BY <1>5
  <2> HIDE DEF c
  <2>4. QED
    BY <1>2, <2>1, <2>2, <2>3, ProbingInv
<1>6. CASE healthWeb' = [healthWeb EXCEPT ![t] =
                      [pc |-> "publish", at |-> Truncated(now), health |-> h]]
  <2> DEFINE c == [pc |-> "publish", at |-> Truncated(now), health |-> h]
  <2>1. Truncated(now) \in Clock
    BY <1>1, TruncatedTime
  <2>2. c \in WebChecks /\ c.at \in Clock
    BY <1>4, <2>1, TimesAreStamps DEF WebChecks
  <2>3. healthWeb' = [healthWeb EXCEPT ![t] = c]
    BY <1>6
  <2> HIDE DEF c
  <2>4. QED
    BY <1>2, <2>2, <2>3, ProbingInv
<1>7. QED
  BY <1>3, <1>5, <1>6

\* Whichever of two checks comes last, the later one is shown.
LEMMA HealthPublishInv ==
  ASSUME HealthInv, NEW t \in HealthThreads, HealthPublish(t)
  PROVE  HealthInv'
<1> DEFINE at == healthWeb[t].at
           h == healthWeb[t].health
<1>1. /\ summary' = IF at >= summary.at THEN [at |-> at, health |-> h] ELSE summary
      /\ stamps' = stamps \cup {at}
      /\ healthWeb' = [healthWeb EXCEPT ![t] = HealthIdle]
      /\ UNCHANGED <<now, health, settings, saved, mon, told>>
  BY DEF HealthPublish, InOrder
<1>2. at \in Clock
  BY DEF HealthPublish, HealthInv, Stamped
<1>3. h \in Readable
  BY DEF HealthInv, HealthTyped, WebChecks
<1>4. HealthIdle \in WebChecks /\ HealthIdle.pc = "idle"
  BY TimesAreStamps DEF HealthIdle, WebChecks, Readable
<1>5. healthWeb' \in [HealthThreads -> WebChecks] /\ Stamped'
  BY <1>1, <1>4, WebStep
<1> HIDE DEF at, h
<1>6. summary' \in [at : Stamps, health : Readable] /\ stamps' \in SUBSET Clock
  BY <1>1, <1>2, <1>3, TimesAreStamps DEF HealthInv, HealthTyped
<1>7. HealthTyped'
  BY <1>1, <1>5, <1>6 DEF HealthInv, HealthTyped
<1>8. ShownIsLatest'
  <2>1. at \in Int /\ summary.at \in Int /\ \A s \in stamps : s \in Int
    BY <1>2 DEF HealthInv, HealthTyped, Clock, Stamps, Never
  <2>2. summary.at \in stamps \cup {Never} /\ \A s \in stamps : s <= summary.at
    BY DEF HealthInv, ShownIsLatest
  <2>3. CASE at >= summary.at
    <3>1. summary'.at = at
      BY <1>1, <2>3
    <3>2. QED
      BY <1>1, <2>1, <2>2, <2>3, <3>1 DEF ShownIsLatest
  <2>4. CASE ~(at >= summary.at)
    <3>1. summary'.at = summary.at
      BY <1>1, <2>4
    <3>2. QED
      BY <1>1, <2>1, <2>2, <2>4, <3>1 DEF ShownIsLatest
  <2>5. QED
    BY <2>3, <2>4
<1>9. QED
  BY <1>1, <1>5, <1>7, <1>8, CheckUnchanged DEF HealthInv

LEMMA WebRestartsInv == ASSUME HealthInv, WebRestarts PROVE HealthInv'
<1>1. /\ summary' = Empty /\ stamps' = {}
      /\ healthWeb' = [t \in HealthThreads |-> HealthIdle]
      /\ UNCHANGED <<now, health, settings, saved, mon, told>>
  BY DEF WebRestarts
<1>2. Empty \in [at : Stamps, health : Readable] /\ HealthIdle \in WebChecks
  BY TimesAreStamps DEF Empty, HealthIdle, WebChecks, Readable
<1>3. HealthTyped'
  BY <1>1, <1>2 DEF HealthInv, HealthTyped
<1>4. Stamped' /\ ShownIsLatest'
  BY <1>1 DEF Stamped, ShownIsLatest, HealthIdle, Empty
<1>5. QED
  BY <1>1, <1>3, <1>4, CheckUnchanged DEF HealthInv

LEMMA SettingsInv ==
  ASSUME HealthInv, save_hdsentinel_settings \/ DriveChanges
  PROVE  HealthInv'
<1>1. /\ settings' \in Settings /\ health' \in Healths
      /\ UNCHANGED <<now, summary, stamps, healthWeb, saved, mon, told>>
  BY DEF save_hdsentinel_settings, DriveChanges, HealthInv, HealthTyped
<1>2. HealthTyped'
  BY <1>1 DEF HealthInv, HealthTyped
<1>3. QED
  BY <1>1, <1>2, CheckUnchanged, WebUnchanged DEF HealthInv

\* A step of the scheduled check.
LEMMA ScheduledStep ==
  ASSUME HealthInv, mon' \in ScheduledChecks, saved' \in HealthSnapshots,
         UNCHANGED <<now, health, settings, summary, stamps, healthWeb>>,
         Compared', Alerted'
  PROVE  HealthInv'
<1>1. HealthTyped'
  BY DEF HealthInv, HealthTyped
<1>2. QED
  BY <1>1, WebUnchanged DEF HealthInv

LEMMA NoCheckTyped == NoCheck \in ScheduledChecks /\ NoCheck.pc = "idle"
BY DEF NoCheck, ScheduledChecks, HealthSnapshots, Readable

LEMMA StartCheckInv == ASSUME HealthInv, StartCheck PROVE HealthInv'
<1>1. /\ mon' = [NoCheck EXCEPT !.pc = "collect", !.previous = saved]
      /\ UNCHANGED <<now, health, settings, summary, stamps, healthWeb, saved, told>>
  BY DEF StartCheck
<1>2. saved \in HealthSnapshots
  BY DEF HealthInv, HealthTyped
<1>3. mon' \in ScheduledChecks /\ mon'.pc = "collect" /\ mon'.previous = saved
  BY <1>1, <1>2, NoCheckTyped DEF ScheduledChecks
<1>4. Compared' /\ Alerted'
  BY <1>1, <1>3 DEF Compared, Alerted
<1>5. QED
  BY <1>1, <1>2, <1>3, <1>4, ScheduledStep

LEMMA CollectInv == ASSUME HealthInv, Collect PROVE HealthInv'
<1>1. /\ mon.pc = "collect"
      /\ UNCHANGED <<now, health, settings, summary, stamps, healthWeb, saved, told>>
  BY DEF Collect
<1>2. PICK h \in Readings : mon' = [mon EXCEPT !.pc = "compare", !.health = h]
  BY DEF Collect
<1>3. saved \in HealthSnapshots /\ mon \in ScheduledChecks /\ h \in Readable
  BY ReadingsAreReadable DEF HealthInv, HealthTyped
<1>4. mon' \in ScheduledChecks /\ mon'.pc = "compare" /\ mon'.previous = mon.previous
  BY <1>2, <1>3 DEF ScheduledChecks
<1>5. Compared' /\ Alerted'
  BY <1>1, <1>4 DEF HealthInv, Compared, Alerted
<1>6. QED
  BY <1>1, <1>3, <1>4, <1>5, ScheduledStep

LEMMA CompareInv == ASSUME HealthInv, Compare PROVE HealthInv'
<1> DEFINE pc == IF Changed /\ ~Alerting THEN "saveSilently" ELSE "save"
<1>1. /\ mon.pc = "compare" /\ mon' = [mon EXCEPT !.pc = pc]
      /\ told' = IF Changed /\ Alerting THEN [from |-> mon.previous, to |-> mon.health] ELSE told
      /\ saved' = saved
      /\ UNCHANGED <<now, health, settings, summary, stamps, healthWeb>>
  BY DEF Compare, Advance
<1>2. saved \in HealthSnapshots /\ mon \in ScheduledChecks
  BY DEF HealthInv, HealthTyped
<1>3. pc \in {"save", "saveSilently"} /\ (pc = "save" => ~Changed \/ Alerting)
  OBVIOUS
<1> HIDE DEF pc
<1>4. /\ mon' \in ScheduledChecks /\ mon'.pc = pc /\ mon'.previous = mon.previous
      /\ mon'.health = mon.health
  BY <1>1, <1>2, <1>3 DEF ScheduledChecks
<1>5. Changed' = Changed
  BY <1>4 DEF Changed
<1>6. Compared'
  BY <1>1, <1>4 DEF HealthInv, Compared
<1>7. Alerted'
  BY <1>1, <1>3, <1>4, <1>5 DEF Alerted
<1>8. QED
  BY <1>1, <1>2, <1>4, <1>6, <1>7, ScheduledStep

LEMMA EndOfCheck ==
  ASSUME HealthInv, Save \/ CheckDies
  PROVE  HealthInv'
<1>1. /\ mon' = NoCheck /\ saved' \in {saved, {mon.health}}
      /\ UNCHANGED <<now, health, settings, summary, stamps, healthWeb, told>>
  BY DEF Save, CheckDies
<1>2. saved \in HealthSnapshots /\ mon.health \in Readable
  BY DEF HealthInv, HealthTyped, ScheduledChecks
<1>3. saved' \in HealthSnapshots
  BY <1>1, <1>2 DEF HealthSnapshots
<1>4. mon' \in ScheduledChecks /\ mon'.pc = "idle"
  BY <1>1, NoCheckTyped
<1>5. Compared' /\ Alerted'
  BY <1>4 DEF Compared, Alerted
<1>6. QED
  BY <1>1, <1>3, <1>4, <1>5, ScheduledStep

LEMMA HealthNextInv == ASSUME HealthInv, [HealthNext]_healthVars PROVE HealthInv'
<1>1. CASE UNCHANGED healthVars
  <2>1. UNCHANGED <<now, health, settings, summary, stamps, healthWeb, saved, mon, told>>
    BY <1>1 DEF healthVars
  <2>2. HealthTyped'
    BY <2>1 DEF HealthInv, HealthTyped
  <2>3. QED
    BY <2>1, <2>2, CheckUnchanged, WebUnchanged DEF HealthInv
<1>2. QED
  BY <1>1, TickInv, StartRefreshInv, StartPageInv, ProbeInv, HealthPublishInv, WebRestartsInv,
     SettingsInv, StartCheckInv, CollectInv, CompareInv, EndOfCheck DEF HealthNext

LEMMA HealthInvariance == HealthSpec => []HealthInv
BY HealthInitInv, HealthNextInv, PTL DEF HealthSpec

\* Every value of the drive health part has its type, in every reachable state.
THEOREM HealthTypesCorrect == HealthSpec => []HealthTypeOK
<1>1. HealthInv => HealthTypeOK
  BY DEF HealthInv, HealthTyped, HealthTypeOK, Clock, Stamps, WebChecks, HealthSnapshots, Readable,
         ScheduledChecks
<1>2. QED
  BY <1>1, HealthInvariance, PTL

\* However many threads probe the drive, and in whatever order they publish, the
\* dashboard shows the check with the latest stamp of all that were published.
THEOREM LatestCheckShown == HealthSpec => []LatestShown
<1>1. HealthInv => LatestShown
  <2>1. SUFFICES ASSUME HealthInv PROVE LatestShown
    OBVIOUS
  <2> DEFINE S == stamps \cup {Never}
             m == summary.at
  <2>2. /\ S \in SUBSET Int /\ m \in Int /\ m \in S /\ m \in Stamps
        /\ \A s \in stamps : s <= m
    BY <2>1 DEF HealthInv, HealthTyped, ShownIsLatest, Clock, Stamps, Never
  <2>3. Never <= m
    BY <2>2 DEF Stamps, Never
  <2> HIDE DEF m
  <2>4. \A s \in S : s <= m
    BY <2>2, <2>3
  <2> HIDE DEF S
  <2>5. Max(S) = m
    BY <2>2, <2>4, MaxIs
  <2>6. QED
    BY <2>5 DEF LatestShown, S, m
<1>2. QED
  BY <1>1, HealthInvariance, PTL

\* For every step and every history of checks, crashes and changed settings: the
\* snapshot that the next check compares with moves from one health to another
\* only after an alert for that change, unless alerts were off when it was asked.
THEOREM ChangesAreAlerted == HealthSpec => NoChangeMissed
<1> DEFINE Told == saved' # saved /\ saved \notin {{}, {NoHealth}} /\ saved' # {NoHealth}
                     /\ mon.pc # "saveSilently"
                   => told' = [from |-> saved, to |-> CHOOSE h \in saved' : TRUE]
<1>1. ASSUME HealthInv, Save PROVE Told
  <2>1. SUFFICES ASSUME saved' # saved, saved \notin {{}, {NoHealth}}, saved' # {NoHealth},
                        mon.pc # "saveSilently"
                 PROVE  told' = [from |-> saved, to |-> CHOOSE h \in saved' : TRUE]
    OBVIOUS
  <2>2. /\ mon.pc = "save" /\ saved' = {mon.health} /\ told' = told
    BY <1>1, <2>1 DEF Save
  <2>3. mon.previous = saved
    BY <1>1, <2>2 DEF HealthInv, Compared
  <2>4. Changed
    BY <2>1, <2>2, <2>3 DEF Changed
  <2>5. told = [from |-> saved, to |-> mon.health]
    BY <1>1, <2>2, <2>3, <2>4 DEF HealthInv, Alerted
  <2>6. (CHOOSE h \in saved' : TRUE) = mon.health
    BY <2>2
  <2>7. QED
    BY <2>2, <2>5, <2>6
<1>2. ASSUME HealthInv, [HealthNext]_healthVars PROVE [Told]_healthVars
  <2>1. CASE UNCHANGED healthVars
    BY <2>1
  <2>2. CASE Save
    BY <1>1, <1>2, <2>2
  <2>3. CASE HealthNext /\ ~Save
    <3>1. saved' = saved
      BY <2>3 DEF HealthNext, Tick, StartRefresh, StartPage, Probe, HealthPublish, WebRestarts,
                  save_hdsentinel_settings, StartCheck, Collect, Compare, Advance, CheckDies,
                  DriveChanges
    <3>2. QED
      BY <3>1
  <2>4. QED
    BY <1>2, <2>1, <2>2, <2>3
<1>3. QED
  BY <1>2, HealthInvariance, PTL DEF HealthSpec, NoChangeMissed

-----------------------------------------------------------------------------
(* Onboarding                                                              *)

SetupWork ==
  [kind : {"none", "user", "complete", "schedule", "import"},
   pc : {"idle", "username", "admin", "config", "units", "time", "share", "mark"},
   snap : Config]

SetupTyped ==
  /\ setupConf \in Config /\ users \in SUBSET SetupNames /\ samba \in SUBSET SetupNames
  /\ timers \in SUBSET Times /\ sharedPath \in SUBSET SetupMountPoints
  /\ work \in [Processes -> SetupWork]
  /\ overlapped \in BOOLEAN /\ setupMoves \in 0..MaxSetupMoves

Writes(p) == work[p].kind \in {"complete", "schedule", "import"}

Completes(p) == work[p].kind \in {"complete", "import"}

CanLogIn(names) == names \subseteq users /\ names \subseteq samba

Installed == timers # {} /\ sharedPath # {}

\* Which steps belong to which request.
StepsOf(w) ==
  /\ w.pc = "idle" <=> w.kind = "none"
  /\ w.pc = "username" <=> w.kind = "user"
  /\ w.pc = "admin" => w.kind = "import"
  /\ w.pc = "time" => w.kind = "schedule"
  /\ w.pc \in {"share", "mark"} => w.kind \in {"complete", "import"}

\* What a process carries: a new user is known everywhere by the time it is
\* named, and a completion or an import has all that is required.
Carries(p) ==
  /\ StepsOf(work[p])
  /\ work[p].kind = "user" => work[p].snap.username # {} /\ CanLogIn(work[p].snap.username)
  /\ Completes(p) => HasRequired(work[p].snap)
  /\ work[p].pc \in {"share", "mark"} => timers # {}

\* What a process has made of the configuration, as long as no other writes it:
\* its copy of a complete setup was right and stays so, and what it has written
\* has all that is required, whatever the wizard changes meanwhile.
Written(p) ==
  /\ Writes(p) /\ work[p].snap.complete =>
       HasRequired(work[p].snap) /\ CanLogIn(work[p].snap.username) /\ Installed
  /\ Completes(p) /\ work[p].pc \in {"units", "share", "mark"} =>
       /\ HasRequired(setupConf)
       /\ setupConf.username = work[p].snap.username \/ CanLogIn(setupConf.username)
  /\ work[p].pc = "mark" => sharedPath # {} /\ CanLogIn(setupConf.username)

ReadyNow ==
  setupConf.complete => HasRequired(setupConf) /\ CanLogIn(setupConf.username) /\ Installed

OneWriter == \A p, q \in Processes : Writes(p) /\ Writes(q) => p = q

SetupInv ==
  /\ SetupTyped
  /\ \A p \in Processes : Carries(p)
  /\ ~overlapped => ReadyNow /\ OneWriter /\ \A p \in Processes : Written(p)

LEMMA SetupMovesOn ==
  ASSUME SetupTyped, SetupMove
  PROVE  setupMoves' \in 0..MaxSetupMoves
<1>1. setupMoves \in 0..MaxSetupMoves /\ setupMoves < MaxSetupMoves /\ setupMoves' = setupMoves + 1
  BY DEF SetupTyped, SetupMove
<1>2. QED
  BY <1>1, SetupAssumption, OneMore

LEMMA DefaultTypes == DefaultConfig \in Config /\ SetupIdle \in SetupWork
BY SetupAssumption DEF DefaultConfig, Config, SetupIdle, SetupWork

\* A step replaces what one process is doing.
LEMMA SetupGotoIs ==
  ASSUME SetupTyped, NEW p \in Processes,
         NEW pc \in {"config", "units", "time", "share", "mark"}, SetupGoto(p, pc)
  PROVE  \E w \in SetupWork :
           /\ work' = [work EXCEPT ![p] = w]
           /\ w.pc = pc /\ w.kind = work[p].kind /\ w.snap = work[p].snap
<1> DEFINE w == [work[p] EXCEPT !.pc = pc]
<1>1. work[p] \in SetupWork
  BY DEF SetupTyped
<1>2. w \in SetupWork /\ w.pc = pc /\ w.kind = work[p].kind /\ w.snap = work[p].snap
  BY <1>1 DEF SetupWork
<1>3. work' = [work EXCEPT ![p] = w]
  BY DEF SetupGoto
<1> HIDE DEF w
<1>4. QED
  BY <1>2, <1>3

\* What a step of one process owes to the invariant; the last two conjuncts are
\* for the others, which may be writing the configuration.
LEMMA SetupFrame ==
  ASSUME SetupInv, NEW p \in Processes, NEW w \in SetupWork, work' = [work EXCEPT ![p] = w],
         setupConf' \in Config, users' \in SUBSET SetupNames, samba' \in SUBSET SetupNames,
         timers' \in SUBSET Times, sharedPath' \in SUBSET SetupMountPoints,
         overlapped' \in BOOLEAN, setupMoves' \in 0..MaxSetupMoves,
         users \subseteq users', samba \subseteq samba',
         timers # {} => timers' # {}, sharedPath # {} => sharedPath' # {},
         Carries(p)',
         overlapped => overlapped',
         ~overlapped' =>
           /\ ReadyNow' /\ Written(p)'
           /\ Writes(p)' => Writes(p) \/ \A q \in Processes : ~Writes(q)
           /\ \A q \in Processes \ {p} : Writes(q) =>
                /\ HasRequired(setupConf) => HasRequired(setupConf')
                /\ setupConf'.username = setupConf.username \/ CanLogIn(setupConf.username)'
  PROVE  SetupInv'
<1>1. work \in [Processes -> SetupWork]
  BY DEF SetupInv, SetupTyped
<1>2. SetupTyped'
  BY <1>1 DEF SetupTyped
<1>3. \A q \in Processes \ {p} : work'[q] = work[q]
  BY <1>1
<1>4. ASSUME NEW names, CanLogIn(names) PROVE CanLogIn(names)'
  BY <1>4 DEF CanLogIn
<1>5. ASSUME NEW q \in Processes \ {p} PROVE Carries(q)'
  BY <1>3, <1>4, <1>5 DEF SetupInv, Carries, Completes
<1>6. ASSUME ~overlapped', NEW q \in Processes \ {p} PROVE Written(q)'
  <2>1. Written(q) /\ Carries(q)
    BY <1>6 DEF SetupInv
  <2>2. Writes(q)' <=> Writes(q)
    BY <1>3, <1>6 DEF Writes
  <2>3. Completes(q)' <=> Completes(q)
    BY <1>3, <1>6 DEF Completes
  <2>4. Completes(q) \/ work[q].pc = "mark" => Writes(q)
    BY <2>1 DEF Completes, Writes, Carries, StepsOf
  <2>5. Installed => Installed'
    BY DEF Installed
  <2>6. Writes(q) =>
          /\ HasRequired(setupConf) => HasRequired(setupConf')
          /\ setupConf'.username = setupConf.username \/ CanLogIn(setupConf.username)'
    BY <1>6
  <2>7. work'[q] = work[q]
    BY <1>3, <1>6
  <2>8. QED
    <3>1. Writes(q)' /\ work'[q].snap.complete =>
            HasRequired(work'[q].snap) /\ CanLogIn(work[q].snap.username)' /\ Installed'
      BY <2>1, <2>2, <2>5, <2>7 DEF Written, CanLogIn, HasRequired
    <3>2. Completes(q)' /\ work'[q].pc \in {"units", "share", "mark"} =>
            /\ HasRequired(setupConf')
            /\ \/ setupConf'.username = work'[q].snap.username
               \/ CanLogIn(setupConf.username)'
      BY <2>1, <2>3, <2>4, <2>6, <2>7 DEF Written, CanLogIn, HasRequired
    <3>3. work'[q].pc = "mark" => sharedPath' # {} /\ CanLogIn(setupConf.username)'
      BY <2>1, <2>4, <2>6, <2>7 DEF Written, CanLogIn, HasRequired
    <3>4. QED
      BY <3>1, <3>2, <3>3 DEF Written, CanLogIn, HasRequired
<1>7. ASSUME ~overlapped' PROVE OneWriter'
  <2>1. OneWriter /\ (Writes(p)' => Writes(p) \/ \A q \in Processes : ~Writes(q))
    BY <1>7 DEF SetupInv
  <2>2. \A q \in Processes \ {p} : Writes(q)' <=> Writes(q)
    BY <1>3 DEF Writes
  <2>3. QED
    BY <2>1, <2>2 DEF OneWriter
<1>8. QED
  BY <1>2, <1>5, <1>6, <1>7 DEF SetupInv

\* The answer to a request, or the end of one.
LEMMA SetupAnswered ==
  ASSUME SetupInv, NEW p \in Processes, SetupAnswer(p)
  PROVE  /\ SetupIdle \in SetupWork /\ work' = [work EXCEPT ![p] = SetupIdle]
         /\ Carries(p)' /\ Written(p)' /\ ~Writes(p)'
<1>1. SetupIdle \in SetupWork /\ work' = [work EXCEPT ![p] = SetupIdle]
  BY DefaultTypes DEF SetupAnswer
<1>2. work'[p] = SetupIdle
  BY <1>1 DEF SetupInv, SetupTyped
<1>3. QED
  BY <1>1, <1>2 DEF Carries, Written, Writes, Completes, StepsOf, SetupIdle


\* A step that leaves the shared state alone and only takes a process on.
LEMMA SetupConfTypes ==
  ASSUME SetupTyped
  PROVE  /\ setupConf \in Config
         /\ \A p \in Processes : work[p] \in SetupWork /\ work[p].snap \in Config
         /\ users \in SUBSET SetupNames /\ samba \in SUBSET SetupNames
         /\ timers \in SUBSET Times /\ sharedPath \in SUBSET SetupMountPoints
         /\ overlapped \in BOOLEAN /\ setupMoves \in 0..MaxSetupMoves
BY DEF SetupTyped, SetupWork

(* The wizard. *)
LEMMA CreateUserInv ==
  ASSUME SetupInv, NEW t \in SetupThreads, NEW n \in SetupNames, create_user(t, n)
  PROVE  SetupInv'
<1> DEFINE w == [SetupIdle EXCEPT !.kind = "user", !.pc = "username", !.snap.username = {n}]
<1>1. /\ work' = [work EXCEPT ![t] = w] /\ users' = users \cup {n} /\ samba' = samba \cup {n}
      /\ UNCHANGED <<setupConf, timers, sharedPath, overlapped, setupMoves>>
  BY DEF create_user
<1>2. /\ w \in SetupWork /\ w.kind = "user" /\ w.pc = "username" /\ w.snap.username = {n}
  BY SetupAssumption DEF SetupIdle, DefaultConfig, SetupWork, Config
<1> HIDE DEF w
<1>3. t \in Processes /\ work'[t] = w
  BY <1>1 DEF Processes, SetupInv, SetupTyped
<1>4. Carries(t)' /\ Written(t)' /\ ~Writes(t)'
  BY <1>1, <1>2, <1>3 DEF Carries, Written, Writes, Completes, StepsOf, CanLogIn
<1>5. ReadyNow => ReadyNow'
  BY <1>1 DEF ReadyNow, CanLogIn, Installed
<1>6. QED
  BY <1>1, <1>2, <1>3, <1>4, <1>5, SetupFrame, SetupConfTypes DEF SetupInv

LEMMA SaveUsernameInv ==
  ASSUME SetupInv, NEW t \in SetupThreads, SaveUsername(t)
  PROVE  SetupInv'
<1>1. t \in Processes
  BY DEF Processes
<1>2. /\ work[t].pc = "username" /\ SetupAnswer(t)
      /\ setupConf' = [setupConf EXCEPT !.username = work[t].snap.username]
      /\ UNCHANGED <<users, samba, timers, sharedPath, overlapped, setupMoves>>
  BY DEF SaveUsername, SetupAt
<1>3. work[t].snap.username # {} /\ CanLogIn(work[t].snap.username)
  BY <1>1, <1>2 DEF SetupInv, Carries, StepsOf
<1>4. /\ setupConf' \in Config /\ setupConf'.username = work[t].snap.username
      /\ setupConf'.complete = setupConf.complete
      /\ HasRequired(setupConf) => HasRequired(setupConf')
  BY <1>1, <1>2, <1>3, SetupConfTypes DEF SetupInv, Config, HasRequired
<1>5. CanLogIn(setupConf.username)'
  BY <1>2, <1>3, <1>4 DEF CanLogIn
<1>6. ReadyNow => ReadyNow'
  BY <1>2, <1>4, <1>5 DEF ReadyNow, Installed
<1>7. QED
  BY <1>1, <1>2, <1>4, <1>5, <1>6, SetupAnswered, SetupFrame, SetupConfTypes DEF SetupInv

\* The steps of the wizard that set one value.
LEMMA WizardSets ==
  ASSUME SetupInv, NEW t \in SetupThreads, NEW c \in Config, SetupSet(t, c),
         sharedPath' \in SUBSET SetupMountPoints, sharedPath # {} => sharedPath' # {},
         c.username = setupConf.username, c.complete = setupConf.complete,
         HasRequired(setupConf) => HasRequired(c)
  PROVE  SetupInv'
<1>1. t \in Processes
  BY DEF Processes
<1>2. /\ setupConf' = c /\ work[t].pc = "idle"
      /\ UNCHANGED <<users, samba, timers, work, overlapped, setupMoves>>
  BY DEF SetupSet, Free, SetupAt
<1>3. work' = [work EXCEPT ![t] = work[t]] /\ work'[t] = work[t]
  BY <1>1, <1>2 DEF SetupInv, SetupTyped
<1>4. Carries(t)' /\ ~Writes(t)' /\ Written(t)'
  BY <1>1, <1>2, <1>3 DEF SetupInv, Carries, StepsOf, Writes, Written, Completes, CanLogIn
<1>5. ReadyNow => ReadyNow'
  BY <1>2 DEF ReadyNow, Installed, CanLogIn
<1>6. work[t] \in SetupWork
  BY <1>1, SetupConfTypes DEF SetupInv
<1>7. QED
  BY <1>1, <1>2, <1>3, <1>4, <1>5, <1>6, SetupFrame, SetupConfTypes DEF SetupInv

LEMMA WizardInv ==
  ASSUME SetupInv, NEW t \in SetupThreads,
         \/ setup_email(t) \/ setup_system_info(t) \/ SaveTime(t)
         \/ \E time \in Times : save_schedule(t, time)
         \/ \E m \in SetupMountPoints : mount_drive(t, m)
  PROVE  SetupInv'
<1>1. setupConf \in Config /\ sharedPath \in SUBSET SetupMountPoints
  BY SetupConfTypes DEF SetupInv
<1>2. CASE setup_email(t)
  BY <1>1, <1>2, WizardSets DEF setup_email, Config, HasRequired
<1>3. CASE setup_system_info(t)
  BY <1>1, <1>3, WizardSets DEF setup_system_info, Config, HasRequired
<1>4. ASSUME NEW time \in Times, save_schedule(t, time) PROVE SetupInv'
  BY <1>1, <1>4, WizardSets DEF save_schedule, Config, HasRequired
<1>5. ASSUME NEW m \in SetupMountPoints, mount_drive(t, m) PROVE SetupInv'
  BY <1>1, <1>5, WizardSets DEF mount_drive, Config, HasRequired
<1>6. CASE SaveTime(t)
  <2>1. t \in Processes
    BY DEF Processes
  <2>2. /\ SetupAnswer(t) /\ setupConf' = [setupConf EXCEPT !.time = work[t].snap.time]
        /\ UNCHANGED <<users, samba, timers, sharedPath, overlapped, setupMoves>>
    BY <1>6 DEF SaveTime
  <2>3. work[t].snap \in Config
    BY <2>1, SetupConfTypes DEF SetupInv
  <2>4. /\ setupConf' \in Config /\ setupConf'.username = setupConf.username
        /\ setupConf'.complete = setupConf.complete
        /\ HasRequired(setupConf) => HasRequired(setupConf')
    BY <1>1, <2>2, <2>3 DEF Config, HasRequired
  <2>5. ReadyNow => ReadyNow'
    BY <2>2, <2>4 DEF ReadyNow, Installed, CanLogIn
  <2>6. QED
    BY <2>1, <2>2, <2>4, <2>5, SetupAnswered, SetupFrame, SetupConfTypes DEF SetupInv
<1>7. QED
  BY <1>2, <1>3, <1>4, <1>5, <1>6

\* The requests that write the whole configuration.
LEMMA BeginInv ==
  ASSUME SetupInv, NEW t \in SetupThreads,
         complete_setup(t) \/ \E time \in Times : ChangeSchedule(t, time)
  PROVE  SetupInv'
<1>1. t \in Processes /\ setupConf \in Config
  BY SetupConfTypes DEF Processes, SetupInv
<1>2. PICK w \in SetupWork :
        /\ work' = [work EXCEPT ![t] = w] /\ w.pc = "config"
        /\ w.kind \in {"complete", "schedule"}
        /\ w.kind = "complete" => HasRequired(setupConf)
        /\ w.snap.complete = setupConf.complete /\ w.snap.username = setupConf.username
        /\ HasRequired(w.snap) <=> HasRequired(setupConf)
  <2>1. CASE complete_setup(t)
    <3> DEFINE w == [kind |-> "complete", pc |-> "config", snap |-> setupConf]
    <3>1. w \in SetupWork /\ w.pc = "config" /\ w.kind = "complete" /\ w.snap = setupConf
      BY <1>1 DEF SetupWork
    <3>2. work' = [work EXCEPT ![t] = w] /\ HasRequired(setupConf)
      BY <2>1 DEF complete_setup
    <3> HIDE DEF w
    <3>3. QED
      BY <3>1, <3>2
  <2>2. ASSUME NEW time \in Times, ChangeSchedule(t, time)
        PROVE  \E w \in SetupWork :
                 /\ work' = [work EXCEPT ![t] = w] /\ w.pc = "config"
                 /\ w.kind \in {"complete", "schedule"}
                 /\ w.kind = "complete" => HasRequired(setupConf)
                 /\ w.snap.complete = setupConf.complete
                 /\ w.snap.username = setupConf.username
                 /\ HasRequired(w.snap) <=> HasRequired(setupConf)
    <3> DEFINE c == [setupConf EXCEPT !.time = time]
               w == [kind |-> "schedule", pc |-> "config", snap |-> c]
    <3>1. /\ c \in Config /\ c.complete = setupConf.complete /\ c.username = setupConf.username
          /\ HasRequired(c) <=> HasRequired(setupConf)
      BY <1>1 DEF Config, HasRequired
    <3> HIDE DEF c
    <3>2. /\ w \in SetupWork /\ w.pc = "config" /\ w.kind = "schedule" /\ w.snap = c
      BY <3>1 DEF SetupWork
    <3>3. work' = [work EXCEPT ![t] = w]
      BY <2>2 DEF ChangeSchedule, c
    <3> HIDE DEF w
    <3>4. QED
      BY <3>1, <3>2, <3>3
  <2>3. QED
    BY <2>1, <2>2
<1>3. /\ overlapped' = (overlapped \/ Writing)
      /\ UNCHANGED <<setupConf, users, samba, timers, sharedPath>> /\ SetupMove
  BY DEF complete_setup, ChangeSchedule
<1>4. work'[t] = w
  BY <1>1, <1>2 DEF SetupInv, SetupTyped
<1>5. Carries(t)'
  BY <1>2, <1>4 DEF Carries, StepsOf, Completes
<1>6. ASSUME ~overlapped' PROVE ReadyNow' /\ Written(t)' /\ \A q \in Processes : ~Writes(q)
  <2>1. ReadyNow /\ ~Writing
    BY <1>3, <1>6 DEF SetupInv
  <2>2. ReadyNow'
    BY <1>3, <2>1 DEF ReadyNow, CanLogIn, Installed
  <2>3. Written(t)'
    BY <1>2, <1>3, <1>4, <2>1 DEF Written, ReadyNow, CanLogIn, Installed
  <2>4. QED
    BY <2>1, <2>2, <2>3 DEF Writing, Writes
<1>7. setupMoves' \in 0..MaxSetupMoves
  BY <1>3, SetupMovesOn DEF SetupInv
<1>8. overlapped' \in BOOLEAN /\ (overlapped => overlapped')
  BY <1>3, SetupConfTypes DEF SetupInv
<1>9. QED
  BY <1>1, <1>2, <1>3, <1>5, <1>6, <1>7, <1>8, SetupFrame, SetupConfTypes DEF SetupInv

LEMMA ReplaceConfigInv ==
  ASSUME SetupInv, NEW n \in SetupNames, NEW m \in SetupMountPoints, NEW time \in Times,
         ReplaceConfig(n, m, time)
  PROVE  SetupInv'
<1> DEFINE c == Imported(n, m, time)
           w == [kind |-> "import", pc |-> "admin", snap |-> c]
<1>1. c \in Config /\ HasRequired(c) /\ ~c.complete
  BY DEF Imported, Config, HasRequired
<1>2. /\ setupConf' = c /\ work' = [work EXCEPT ![Importer] = w]
      /\ UNCHANGED <<users, samba, timers, sharedPath, overlapped>> /\ SetupMove
      /\ \A p \in Processes : work[p].pc = "idle"
  BY DEF ReplaceConfig, SetupAt
<1> HIDE DEF c
<1>3. w \in SetupWork /\ w.kind = "import" /\ w.pc = "admin" /\ w.snap = c
  BY <1>1 DEF SetupWork
<1> HIDE DEF w
<1>4. Importer \in Processes /\ work'[Importer] = w
  BY <1>2 DEF Processes, SetupInv, SetupTyped
<1>5. Carries(Importer)' /\ Written(Importer)'
  BY <1>1, <1>3, <1>4 DEF Carries, Written, StepsOf, Completes
<1>6. ReadyNow' /\ \A q \in Processes : ~Writes(q)
  BY <1>1, <1>2 DEF ReadyNow, SetupInv, Carries, StepsOf, Writes
<1>7. setupMoves' \in 0..MaxSetupMoves
  BY <1>2, SetupMovesOn DEF SetupInv
<1>8. QED
  BY <1>1, <1>2, <1>3, <1>4, <1>5, <1>6, <1>7, SetupFrame, SetupConfTypes DEF SetupInv

LEMMA EnsureAdminInv ==
  ASSUME SetupInv, EnsureAdmin
  PROVE  SetupInv'
<1>1. /\ Importer \in Processes /\ work[Importer].pc = "admin"
      /\ UNCHANGED <<setupConf, timers, sharedPath, overlapped, setupMoves>>
  BY DEF EnsureAdmin, SetupAt, Processes
<1> DEFINE admin == work[Importer].snap.username
<1>2. CASE /\ users \subseteq admin /\ users' = admin /\ samba' = samba \cup admin
           /\ SetupGoto(Importer, "config")
  <2>1. PICK w \in SetupWork : /\ work' = [work EXCEPT ![Importer] = w] /\ w.pc = "config"
                               /\ w.kind = work[Importer].kind /\ w.snap = work[Importer].snap
    BY <1>1, <1>2, SetupGotoIs DEF SetupInv
  <2>2. work'[Importer] = w
    BY <1>1, <2>1 DEF SetupInv, SetupTyped
  <2>3. admin \in SUBSET SetupNames /\ users \subseteq users' /\ samba \subseteq samba'
    BY <1>1, <1>2, SetupConfTypes DEF SetupInv, Config
  <2>4. /\ Carries(Importer)' /\ (Writes(Importer)' => Writes(Importer))
        /\ Written(Importer) => Written(Importer)'
    BY <1>1, <2>1, <2>2, <2>3 DEF SetupInv, Carries, StepsOf, Completes, Writes, Written,
       CanLogIn, Installed
  <2>5. ReadyNow => ReadyNow'
    BY <1>1, <2>3 DEF ReadyNow, CanLogIn, Installed
  <2>6. QED
    BY <1>1, <1>2, <2>1, <2>3, <2>4, <2>5, SetupFrame, SetupConfTypes DEF SetupInv
<1>3. CASE SetupAnswer(Importer) /\ UNCHANGED <<users, samba>>
  <2>1. ReadyNow => ReadyNow'
    BY <1>1, <1>3 DEF ReadyNow, CanLogIn, Installed
  <2>2. QED
    BY <1>1, <1>3, <2>1, SetupAnswered, SetupFrame, SetupConfTypes DEF SetupInv
<1>4. QED
  BY <1>2, <1>3 DEF EnsureAdmin

LEMMA CreateConfigInv ==
  ASSUME SetupInv, NEW p \in Processes, CreateConfig(p)
  PROVE  SetupInv'
<1>1. /\ work[p].pc = "config" /\ setupConf' = work[p].snap /\ SetupGoto(p, "units")
      /\ UNCHANGED <<users, samba, timers, sharedPath, overlapped, setupMoves>>
  BY DEF CreateConfig, SetupAt
<1>2. PICK w \in SetupWork : /\ work' = [work EXCEPT ![p] = w] /\ w.pc = "units"
                             /\ w.kind = work[p].kind /\ w.snap = work[p].snap
  BY <1>1, SetupGotoIs DEF SetupInv
<1>3. work'[p] = w
  BY <1>2 DEF SetupInv, SetupTyped
<1>4. Writes(p)
  BY <1>1, SetupConfTypes DEF SetupInv, Carries, StepsOf, Writes, SetupWork
<1>5. Carries(p)'
  BY <1>1, <1>2, <1>3, <1>4 DEF SetupInv, Carries, StepsOf, Completes, Writes
<1>6. ASSUME ~overlapped'
      PROVE  ReadyNow' /\ Written(p)' /\ \A q \in Processes \ {p} : ~Writes(q)
  <2>1. Written(p) /\ Carries(p) /\ OneWriter
    BY <1>1, <1>6 DEF SetupInv
  <2>2. ReadyNow'
    BY <1>1, <1>4, <2>1 DEF Written, ReadyNow, CanLogIn, Installed
  <2>3. Written(p)'
    BY <1>1, <1>2, <1>3, <1>4, <2>1 DEF Written, Carries, Completes, Writes, CanLogIn, Installed
  <2>4. QED
    BY <1>4, <2>1, <2>2, <2>3 DEF OneWriter
<1>7. work[p].snap \in Config
  BY SetupConfTypes DEF SetupInv
<1>8. QED
  BY <1>1, <1>2, <1>4, <1>5, <1>6, <1>7, SetupFrame, SetupConfTypes DEF SetupInv

LEMMA InstallUnitsInv ==
  ASSUME SetupInv, NEW p \in Processes, InstallUnits(p)
  PROVE  SetupInv'
<1>1. /\ work[p].pc = "units" /\ timers' = {work[p].snap.time}
      /\ UNCHANGED <<setupConf, users, samba, sharedPath, overlapped, setupMoves>>
  BY DEF InstallUnits, SetupAt
<1>2. PICK w \in SetupWork :
        /\ work' = [work EXCEPT ![p] = w]
        /\ w.pc = IF work[p].kind = "schedule" THEN "time" ELSE "share"
        /\ w.kind = work[p].kind /\ w.snap = work[p].snap
  BY SetupGotoIs DEF SetupInv, InstallUnits
<1>3. work'[p] = w /\ work[p].snap \in Config /\ work[p] \in SetupWork
  BY <1>2, SetupConfTypes DEF SetupInv, SetupTyped
<1>4. Carries(p)' /\ (Writes(p)' => Writes(p)) /\ (Written(p) => Written(p)')
  <2>1. Carries(p) /\ work[p].kind \in {"complete", "schedule", "import"}
    BY <1>1, <1>3 DEF SetupInv, Carries, StepsOf, SetupWork
  <2>2. QED
    BY <1>1, <1>2, <1>3, <2>1 DEF Carries, StepsOf, Completes, Writes, Written, CanLogIn,
       Installed
<1>5. ReadyNow => ReadyNow'
  BY <1>1 DEF ReadyNow, CanLogIn, Installed
<1>6. timers' \in SUBSET Times /\ timers' # {}
  BY <1>1, <1>3 DEF Config
<1>7. QED
  BY <1>1, <1>2, <1>4, <1>5, <1>6, SetupFrame, SetupConfTypes DEF SetupInv

LEMMA SetupShareInv ==
  ASSUME SetupInv, NEW p \in Processes, SetupShare(p)
  PROVE  SetupInv'
<1>1. /\ work[p].pc = "share"
      /\ UNCHANGED <<setupConf, users, samba, timers, overlapped, setupMoves>>
  BY DEF SetupShare, SetupAt
<1>2. CASE /\ work[p].snap.username \subseteq users \cap samba
           /\ sharedPath' = work[p].snap.drive /\ SetupGoto(p, "mark")
  <2>1. PICK w \in SetupWork : /\ work' = [work EXCEPT ![p] = w] /\ w.pc = "mark"
                               /\ w.kind = work[p].kind /\ w.snap = work[p].snap
    BY <1>2, SetupGotoIs DEF SetupInv
  <2>2. work'[p] = w /\ work[p].snap \in Config
    BY <2>1, SetupConfTypes DEF SetupInv, SetupTyped
  <2>3. Carries(p) /\ Completes(p)
    BY <1>1 DEF SetupInv, Carries, StepsOf, Completes
  <2>4. sharedPath' # {} /\ sharedPath' \in SUBSET SetupMountPoints
    BY <1>2, <2>2, <2>3 DEF Carries, HasRequired, Config
  <2>5. CanLogIn(work[p].snap.username)
    BY <1>2 DEF CanLogIn
  <2>6. Carries(p)' /\ (Writes(p)' => Writes(p)) /\ (Written(p) => Written(p)')
    BY <1>1, <2>1, <2>2, <2>3, <2>4, <2>5 DEF Carries, StepsOf, Completes, Writes, Written,
       CanLogIn, Installed
  <2>7. ReadyNow => ReadyNow'
    BY <1>1, <2>4 DEF ReadyNow, CanLogIn, Installed
  <2>8. QED
    BY <1>1, <2>1, <2>4, <2>6, <2>7, SetupFrame, SetupConfTypes DEF SetupInv
<1>3. CASE SetupAnswer(p) /\ UNCHANGED sharedPath
  <2>1. ReadyNow => ReadyNow'
    BY <1>1, <1>3 DEF ReadyNow, CanLogIn, Installed
  <2>2. QED
    BY <1>1, <1>3, <2>1, SetupAnswered, SetupFrame, SetupConfTypes DEF SetupInv
<1>4. QED
  BY <1>2, <1>3 DEF SetupShare

LEMMA MarkInv ==
  ASSUME SetupInv, NEW p \in Processes, mark_setup_complete(p)
  PROVE  SetupInv'
<1>1. /\ work[p].pc = "mark" /\ setupConf' = [setupConf EXCEPT !.complete = TRUE]
      /\ SetupAnswer(p)
      /\ UNCHANGED <<users, samba, timers, sharedPath, overlapped, setupMoves>>
  BY DEF mark_setup_complete, SetupAt
<1>2. /\ setupConf' \in Config /\ setupConf'.username = setupConf.username
      /\ HasRequired(setupConf) <=> HasRequired(setupConf')
  BY <1>1, SetupConfTypes DEF SetupInv, Config, HasRequired
<1>3. Carries(p) /\ Completes(p)
  BY <1>1 DEF SetupInv, Carries, StepsOf, Completes
<1>4. Written(p) => ReadyNow'
  BY <1>1, <1>2, <1>3 DEF Carries, Written, ReadyNow, CanLogIn, Installed
<1>5. QED
  BY <1>1, <1>2, <1>4, SetupAnswered, SetupFrame, SetupConfTypes DEF SetupInv

LEMMA StepFailsInv ==
  ASSUME SetupInv, NEW p \in Processes, StepFails(p)
  PROVE  SetupInv'
<1>1. /\ SetupAnswer(p)
      /\ UNCHANGED <<setupConf, users, samba, timers, sharedPath, overlapped, setupMoves>>
  BY DEF StepFails
<1>2. ReadyNow => ReadyNow'
  BY <1>1 DEF ReadyNow, CanLogIn, Installed
<1>3. QED
  BY <1>1, <1>2, SetupAnswered, SetupFrame, SetupConfTypes DEF SetupInv

LEMMA SetupInitInv == ASSUME SetupInit PROVE SetupInv
<1>1. /\ setupConf = DefaultConfig /\ users = {} /\ samba = {} /\ timers = {}
      /\ sharedPath = {} /\ overlapped = FALSE /\ setupMoves = 0
      /\ work = [p \in Processes |-> SetupIdle]
  BY DEF SetupInit
<1>2. setupMoves \in 0..MaxSetupMoves
  BY <1>1, SetupAssumption
<1>3. SetupTyped /\ \A p \in Processes : work[p] = SetupIdle
  BY <1>1, <1>2, DefaultTypes DEF SetupTyped
<1>4. \A p \in Processes : Carries(p) /\ Written(p) /\ ~Writes(p)
  BY <1>3 DEF Carries, Written, Writes, Completes, StepsOf, SetupIdle
<1>5. ReadyNow
  BY <1>1 DEF ReadyNow, DefaultConfig
<1>6. QED
  BY <1>3, <1>4, <1>5 DEF SetupInv, OneWriter

LEMMA SetupStepInv == ASSUME SetupInv, [SetupNext]_setupVars PROVE SetupInv'
<1>1. CASE SetupNext
  BY <1>1, CreateUserInv, SaveUsernameInv, WizardInv, BeginInv, ReplaceConfigInv, EnsureAdminInv,
     CreateConfigInv, InstallUnitsInv, SetupShareInv, MarkInv, StepFailsInv
     DEF SetupNext, Wizard, Import
<1>2. CASE UNCHANGED setupVars
  BY <1>2 DEF setupVars, SetupInv, SetupTyped, Carries, Written, Writes, Completes, ReadyNow,
     OneWriter, CanLogIn, Installed
<1>3. QED
  BY <1>1, <1>2

LEMMA SetupInvariance == SetupSpec => []SetupInv
BY SetupInitInv, SetupStepInv, PTL DEF SetupSpec

\* Every value of the onboarding has its type, in every reachable state.
THEOREM SetupTypesCorrect == SetupSpec => []SetupTypeOK
<1>1. SetupInv => SetupTypeOK
  BY SetupConfTypes DEF SetupInv, SetupTypeOK, SetupWork
<1>2. QED
  BY <1>1, SetupInvariance, PTL

\* For any number of admins and of tabs of the wizard, a setup that is marked as
\* complete has all that it requires, unless two completions have overlapped.
THEOREM CompleteSetupIsReady == SetupSpec => []Ready
<1>1. SetupInv => Ready
  BY DEF SetupInv, ReadyNow, Ready, CanLogIn, Installed
<1>2. QED
  BY <1>1, SetupInvariance, PTL

-----------------------------------------------------------------------------
(* Cloud destination                                                       *)

Accounts == Emails \cup {Blank}

Secrets == Passwords \cup {Blank}

Configured == [remote : {"mega"} \cup Remotes \cup {Blank}, user : Accounts, pass : Secrets]

Dirs == {<<>>} \cup {<<r>> : r \in Remotes} \cup {<<"mega", f>> : f \in Folders}

CloudConf == [mode : {Blank, "mega", "advanced"}, email : Accounts, pass : Secrets,
              folder : Folders \cup {Blank}, dir : Dirs]

\* The writes that a request consists of.
CloudWrites == {Write(c) : c \in Configured} \cup {Put("mode", m) : m \in {"mega", "advanced"}}
            \cup {Put("email", e) : e \in Emails} \cup {Put("pass", p) : p \in Passwords}
            \cup {Put("folder", f) : f \in Folders} \cup {Put("dir", d) : d \in Dirs}

CloudTyped ==
  /\ rclone \in Configured /\ cloud \in CloudConf
  /\ todo \in Seq(CloudWrites) /\ Len(todo) <= 6
  /\ kind \in {"save", "validate"} /\ cloudTorn \in BOOLEAN
  /\ requests \in 0..MaxCloudRequests

\* What a request means to write, in any order: it writes nothing twice.
MegaSave(e, p, f) == {Write(Mega(e, p)), Put("email", e), Put("pass", p), Put("mode", "mega"),
                      Put("folder", f), Put("dir", <<"mega", f>>)}

OwnSave(r) == {Write(Own(r)), Put("mode", "advanced"), Put("dir", <<r>>)}

Validation(e, p) == {Write(Mega(e, p)), Put("email", e), Put("pass", p), Put("mode", "mega")}

Saves == {MegaSave(e, p, f) : e \in Emails, p \in Passwords, f \in Folders}
           \cup {OwnSave(r) : r \in Remotes}

Validations == {Validation(e, p) : e \in Emails, p \in Passwords}

Meant == IF kind = "save" THEN Saves ELSE Validations

\* The write has been made, or the value was there before.
Done(s) == IF s.file = "rclone.conf" THEN rclone = s.value ELSE cloud[s.key] = s.value

\* The writes that a request has still to make are among those it means to make,
\* and it has made all the others.
Underway(all) ==
  /\ \A i \in DOMAIN todo : todo[i] \in all
  /\ \A s \in all : Done(s) \/ \E i \in DOMAIN todo : todo[i] = s

CloudInv ==
  /\ CloudTyped
  /\ todo # <<>> => cloudTorn /\ \E all \in Meant : Underway(all)
  /\ ~cloudTorn => cloud.mode = Blank \/ \E all \in Meant : \A s \in all : Done(s)

Distinct(all) ==
  \A s, t \in all :
    s.file = t.file /\ (s.file = "config.conf" => s.key = t.key) => s = t

LEMMA MeantDistinct == \A all \in Saves \cup Validations : Distinct(all)
<1>1. ASSUME NEW e \in Emails, NEW p \in Passwords, NEW f \in Folders
      PROVE  Distinct(MegaSave(e, p, f))
  BY DEF Distinct, MegaSave, Write, Put
<1>2. ASSUME NEW r \in Remotes PROVE Distinct(OwnSave(r))
  BY DEF Distinct, OwnSave, Write, Put
<1>3. ASSUME NEW e \in Emails, NEW p \in Passwords PROVE Distinct(Validation(e, p))
  BY DEF Distinct, Validation, Write, Put
<1>4. QED
  BY <1>1, <1>2, <1>3 DEF Saves, Validations

Keys == {"mode", "email", "pass", "folder", "dir"}

LEMMA WriteKinds ==
  ASSUME NEW s \in CloudWrites
  PROVE  \/ s.file = "rclone.conf" /\ s.value \in Configured
         \/ /\ s.file = "config.conf" /\ s.key \in Keys
            /\ \/ s.key = "mode" /\ s.value \in {"mega", "advanced"}
               \/ s.key = "email" /\ s.value \in Emails
               \/ s.key = "pass" /\ s.value \in Passwords
               \/ s.key = "folder" /\ s.value \in Folders
               \/ s.key = "dir" /\ s.value \in Dirs
BY DEF CloudWrites, Write, Put, Keys

LEMMA SettingChanges ==
  ASSUME NEW c \in CloudConf, NEW k \in Keys, NEW v, NEW d, d = [c EXCEPT ![k] = v]
  PROVE  d[k] = v /\ \A j \in Keys \ {k} : d[j] = c[j]
BY DEF CloudConf, Keys

LEMMA StepTyped ==
  ASSUME CloudTyped, CloudStep
  PROVE  rclone' \in Configured /\ cloud' \in CloudConf
<1>1. todo[1] \in CloudWrites /\ Head(todo) = todo[1]
  BY DEF CloudTyped, CloudStep
<1> DEFINE s == todo[1]
<1>2. IF s.file = "rclone.conf" THEN rclone' = s.value /\ UNCHANGED cloud
      ELSE cloud' = [cloud EXCEPT ![s.key] = s.value] /\ UNCHANGED rclone
  BY <1>1 DEF CloudStep
<1> HIDE DEF s
<1>3. s \in CloudWrites
  BY <1>1 DEF s
<1>4. CASE s.file = "rclone.conf"
  BY <1>2, <1>3, <1>4, WriteKinds DEF CloudTyped
<1>5. CASE s.file # "rclone.conf"
  <2>1. /\ cloud \in CloudConf /\ cloud' = [cloud EXCEPT ![s.key] = s.value]
        /\ rclone' \in Configured
    BY <1>2, <1>5 DEF CloudTyped
  <2>2. CASE s.key = "mode" /\ s.value \in {"mega", "advanced"}
    BY <2>1, <2>2 DEF CloudConf
  <2>3. CASE s.key = "email" /\ s.value \in Emails
    BY <2>1, <2>3 DEF CloudConf, Accounts
  <2>4. CASE s.key = "pass" /\ s.value \in Passwords
    BY <2>1, <2>4 DEF CloudConf, Secrets
  <2>5. CASE s.key = "folder" /\ s.value \in Folders
    BY <2>1, <2>5 DEF CloudConf
  <2>6. CASE s.key = "dir" /\ s.value \in Dirs
    BY <2>1, <2>6 DEF CloudConf
  <2>7. QED
    BY <1>3, <1>5, <2>2, <2>3, <2>4, <2>5, <2>6, WriteKinds
<1>6. QED
  BY <1>4, <1>5

\* A write is made, and the others stay made.
LEMMA StepDone ==
  ASSUME CloudTyped, CloudStep, NEW all, Distinct(all), NEW t \in all,
         t \in CloudWrites, todo[1] \in all
  PROVE  /\ Done(t) => Done(t)'
         /\ t = todo[1] => Done(t)'
<1>1. todo[1] \in CloudWrites /\ Head(todo) = todo[1]
  BY DEF CloudTyped, CloudStep
<1> DEFINE s == todo[1]
<1>2. IF s.file = "rclone.conf" THEN rclone' = s.value /\ UNCHANGED cloud
      ELSE cloud' = [cloud EXCEPT ![s.key] = s.value] /\ UNCHANGED rclone
  BY <1>1 DEF CloudStep
<1> HIDE DEF s
<1>3. s \in CloudWrites /\ s \in all
  BY <1>1 DEF s
<1>4. CASE s.file = "rclone.conf"
  BY <1>2, <1>3, <1>4, WriteKinds DEF Distinct, Done, s
<1>5. CASE s.file # "rclone.conf"
  <2>1. s.file = "config.conf" /\ s.key \in Keys
    BY <1>3, <1>5, WriteKinds
  <2>2. cloud'[s.key] = s.value /\ \A j \in Keys \ {s.key} : cloud'[j] = cloud[j]
    <3>1. cloud \in CloudConf /\ cloud' = [cloud EXCEPT ![s.key] = s.value]
      BY <1>2, <1>5 DEF CloudTyped
    <3> DEFINE k == s.key
               v == s.value
    <3>2. k \in Keys /\ cloud' = [cloud EXCEPT ![k] = v]
      BY <2>1, <3>1
    <3> HIDE DEF k, v
    <3>3. cloud'[k] = v /\ \A j \in Keys \ {k} : cloud'[j] = cloud[j]
      BY <3>1, <3>2, SettingChanges
    <3>4. QED
      BY <3>3 DEF k, v
  <2>3. t.file = "rclone.conf" \/ (t.file = "config.conf" /\ t.key \in Keys)
    BY WriteKinds
  <2>4. t.key = s.key /\ t.file = "config.conf" => t = s
    BY <1>3, <2>1 DEF Distinct
  <2>5. QED
    BY <1>2, <1>5, <2>1, <2>2, <2>3, <2>4 DEF Done, s
<1>6. QED
  BY <1>4, <1>5

LEMMA MeantWrites == \A all \in Saves \cup Validations : all \subseteq CloudWrites
<1>1. ASSUME NEW e \in Emails, NEW p \in Passwords
      PROVE  /\ Mega(e, p) \in Configured
             /\ {Write(Mega(e, p)), Put("email", e), Put("pass", p), Put("mode", "mega")}
                  \subseteq CloudWrites
  BY DEF CloudWrites, Mega, Configured, Accounts, Secrets
<1>2. ASSUME NEW e \in Emails, NEW p \in Passwords, NEW f \in Folders
      PROVE  MegaSave(e, p, f) \subseteq CloudWrites
  BY <1>1 DEF CloudWrites, MegaSave, Dirs
<1>3. ASSUME NEW r \in Remotes PROVE OwnSave(r) \subseteq CloudWrites
  <2>1. Own(r) \in Configured /\ <<r>> \in Dirs
    BY DEF Own, Configured, Accounts, Secrets, Dirs
  <2>2. QED
    BY <2>1 DEF CloudWrites, OwnSave
<1>4. QED
  BY <1>1, <1>2, <1>3 DEF Saves, Validations, Validation

\* The next write of a request.
LEMMA CloudStepInv ==
  ASSUME CloudInv, CloudStep
  PROVE  CloudInv'
<1>1. /\ todo \in Seq(CloudWrites) /\ todo # <<>> /\ Len(todo) <= 6 /\ cloudTorn
      /\ todo' = Tail(todo) /\ cloudTorn' = (todo' # <<>>) /\ UNCHANGED <<kind, requests>>
  BY DEF CloudInv, CloudTyped, CloudStep
<1>2. PICK all \in Meant : Underway(all)
  BY <1>1 DEF CloudInv
<1>3. Distinct(all) /\ all \subseteq CloudWrites /\ all \in Meant'
  BY <1>1, <1>2, MeantDistinct, MeantWrites DEF Meant
<1>4. /\ todo' \in Seq(CloudWrites) /\ Len(todo') = Len(todo) - 1 /\ Len(todo) \in Nat \ {0}
      /\ \A i \in 1..Len(todo') : todo'[i] = todo[i + 1]
  BY <1>1, HeadTailProperties
<1>5. CloudTyped'
  <2>1. Len(todo') <= 6
    BY <1>1, <1>4
  <2>2. cloudTorn' \in BOOLEAN
    BY <1>1
  <2>3. QED
    BY <1>1, <1>4, <2>1, <2>2, StepTyped DEF CloudInv, CloudTyped
<1>6. todo[1] \in all /\ \A i \in DOMAIN todo' : todo'[i] \in all
  BY <1>1, <1>2, <1>4 DEF Underway
<1>7. ASSUME NEW s \in all PROVE Done(s)' \/ \E i \in DOMAIN todo' : todo'[i] = s
  <2>1. (Done(s) => Done(s)') /\ (s = todo[1] => Done(s)')
    BY <1>3, <1>6, <1>7, StepDone DEF CloudInv
  <2>2. CASE Done(s)
    BY <2>1, <2>2
  <2>3. ASSUME NEW i \in DOMAIN todo, todo[i] = s
        PROVE  Done(s)' \/ \E j \in DOMAIN todo' : todo'[j] = s
    <3>1. i \in 1..Len(todo) /\ DOMAIN todo' = 1..Len(todo')
      BY <1>1, <1>4
    <3>2. CASE i = 1
      BY <2>1, <2>3, <3>2
    <3>3. CASE i # 1
      <4>1. i - 1 \in 1..Len(todo')
        BY <1>4, <3>1, <3>3
      <4>2. todo'[i - 1] = s
        BY <1>4, <2>3, <3>1, <4>1
      <4>3. QED
        BY <3>1, <4>1, <4>2
    <3>4. QED
      BY <3>2, <3>3
  <2>4. QED
    BY <1>2, <2>2, <2>3 DEF Underway
<1>8. Underway(all)'
  BY <1>6, <1>7 DEF Underway
<1>9. ASSUME ~cloudTorn' PROVE \A s \in all : Done(s)'
  <2>1. todo' = <<>>
    BY <1>1, <1>9
  <2>2. DOMAIN todo' = {}
    BY <2>1
  <2>3. QED
    BY <1>7, <2>2
<1>10. QED
  BY <1>1, <1>3, <1>5, <1>8, <1>9 DEF CloudInv

\* A request begins: what it will not write is as it means it to be already.
LEMMA CloudAskInv ==
  ASSUME CloudInv, NEW k \in {"save", "validate"}, NEW steps \in Seq(CloudWrites), Ask(k, steps),
         Len(steps) <= 6, NEW all \in IF k = "save" THEN Saves ELSE Validations,
         \A i \in DOMAIN steps : steps[i] \in all,
         \A s \in all : Done(s) \/ \E i \in DOMAIN steps : steps[i] = s
  PROVE  CloudInv'
<1>1. /\ todo' = steps /\ kind' = k /\ cloudTorn' = TRUE /\ UNCHANGED <<rclone, cloud>>
      /\ requests < MaxCloudRequests /\ requests' = requests + 1
  BY DEF Ask
<1>2. requests \in 0..MaxCloudRequests
  BY DEF CloudInv, CloudTyped
<1>3. requests' \in 0..MaxCloudRequests
  BY <1>1, <1>2, OneMore, CloudAssumption
<1>4. CloudTyped'
  BY <1>1, <1>3 DEF CloudInv, CloudTyped
<1>5. all \in Meant'
  BY <1>1 DEF Meant
<1>6. \A s \in all : Done(s) => Done(s)'
  BY <1>1 DEF Done
<1>7. Underway(all)'
  BY <1>1, <1>6 DEF Underway
<1>8. QED
  BY <1>1, <1>4, <1>5, <1>7 DEF CloudInv

Elements(s) == {s[i] : i \in DOMAIN s}

\* Short rows of writes.
LEMMA NoRow == Elements(<<>>) = {} /\ <<>> \in Seq(CloudWrites) /\ Len(<<>>) = 0
BY DEF Elements

LEMMA RowOfOne ==
  ASSUME NEW a \in CloudWrites, NEW row, row = <<a>>
  PROVE  row \in Seq(CloudWrites) /\ Len(row) = 1 /\ Elements(row) = {a}
<1>1. DOMAIN row = {1} /\ row[1] = a
  OBVIOUS
<1>2. Elements(row) = {a}
  BY <1>1, Zenon DEF Elements
<1>3. QED
  BY <1>2

LEMMA RowOfThree ==
  ASSUME NEW a \in CloudWrites, NEW b \in CloudWrites, NEW c \in CloudWrites,
         NEW row, row = <<a, b, c>>
  PROVE  row \in Seq(CloudWrites) /\ Len(row) = 3 /\ Elements(row) = {a, b, c}
<1>1. DOMAIN row = {1, 2, 3} /\ row[1] = a /\ row[2] = b /\ row[3] = c
  OBVIOUS
<1>2. Elements(row) = {a, b, c}
  BY <1>1, Zenon DEF Elements
<1>3. QED
  BY <1>2

LEMMA RowOfFour ==
  ASSUME NEW a \in CloudWrites, NEW b \in CloudWrites, NEW c \in CloudWrites,
         NEW d \in CloudWrites, NEW row, row = <<a, b, c, d>>
  PROVE  row \in Seq(CloudWrites) /\ Len(row) = 4 /\ Elements(row) = {a, b, c, d}
<1>1. DOMAIN row = {1, 2, 3, 4} /\ row[1] = a /\ row[2] = b /\ row[3] = c /\ row[4] = d
  OBVIOUS
<1>2. Elements(row) = {a, b, c, d}
  BY <1>1, Zenon DEF Elements
<1>3. QED
  BY <1>2

\* The writes of two sequences in a row.
LEMMA InARow ==
  ASSUME NEW a \in Seq(CloudWrites), NEW b \in Seq(CloudWrites)
  PROVE  /\ a \o b \in Seq(CloudWrites) /\ Len(a \o b) = Len(a) + Len(b)
         /\ Elements(a \o b) = Elements(a) \cup Elements(b)
<1> DEFINE ab == a \o b
<1>1. /\ ab \in Seq(CloudWrites) /\ Len(ab) = Len(a) + Len(b)
      /\ \A i \in 1..Len(a) : ab[i] = a[i]
      /\ \A i \in (Len(a) + 1)..Len(ab) : ab[i] = b[i - Len(a)]
  BY ConcatProperties
<1>2. /\ Len(a) \in Nat /\ Len(b) \in Nat /\ DOMAIN a = 1..Len(a) /\ DOMAIN b = 1..Len(b)
      /\ DOMAIN ab = 1..Len(ab)
  BY <1>1
<1> HIDE DEF ab
<1>3. \A i \in DOMAIN a : i \in DOMAIN ab /\ ab[i] = a[i]
  BY <1>1, <1>2
<1>4. \A i \in DOMAIN b : i + Len(a) \in DOMAIN ab /\ ab[i + Len(a)] = b[i]
  BY <1>1, <1>2
<1>5. \A j \in DOMAIN ab :
        \/ j \in DOMAIN a /\ ab[j] = a[j]
        \/ j - Len(a) \in DOMAIN b /\ ab[j] = b[j - Len(a)]
  BY <1>1, <1>2
<1>6. Elements(ab) = Elements(a) \cup Elements(b)
  BY <1>3, <1>4, <1>5 DEF Elements
<1>7. QED
  BY <1>1, <1>6 DEF ab

LEMMA DestinationWrites ==
  ASSUME NEW f \in Folders
  PROVE  /\ Destination(f) \in Seq(CloudWrites) /\ Len(Destination(f)) = 3
         /\ Elements(Destination(f)) =
              {Put("mode", "mega"), Put("folder", f), Put("dir", <<"mega", f>>)}
<1> DEFINE a == Put("mode", "mega")
           b == Put("folder", f)
           c == Put("dir", <<"mega", f>>)
<1>1. a \in CloudWrites /\ b \in CloudWrites /\ c \in CloudWrites
  BY DEF CloudWrites, Dirs
<1>2. Destination(f) = <<a, b, c>>
  BY DEF Destination
<1> HIDE DEF a, b, c
<1>3. Destination(f) \in Seq(CloudWrites) /\ Len(Destination(f)) = 3
  BY <1>1, <1>2
<1>4. Elements(Destination(f)) = {a, b, c}
  BY <1>2 DEF Elements
<1>5. QED
  BY <1>3, <1>4 DEF a, b, c

\* The same of what is among the writes.
LEMMA SaveBegins ==
  ASSUME CloudInv, NEW steps \in Seq(CloudWrites), Ask("save", steps), Len(steps) <= 6,
         NEW all \in Saves, Elements(steps) \subseteq all,
         \A s \in all : Done(s) \/ s \in Elements(steps)
  PROVE  CloudInv'
<1>1. \A i \in DOMAIN steps : steps[i] \in all
  BY DEF Elements
<1>2. \A s \in all : Done(s) \/ \E i \in DOMAIN steps : steps[i] = s
  BY DEF Elements
<1>3. QED
  BY <1>1, <1>2, CloudAskInv

LEMMA ValidationBegins ==
  ASSUME CloudInv, NEW steps \in Seq(CloudWrites), Ask("validate", steps), Len(steps) <= 6,
         NEW all \in Validations, Elements(steps) = all
  PROVE  CloudInv'
<1>1. \A i \in DOMAIN steps : steps[i] \in all
  BY DEF Elements
<1>2. \A s \in all : Done(s) \/ \E i \in DOMAIN steps : steps[i] = s
  BY DEF Elements
<1>3. QED
  BY <1>1, <1>2, CloudAskInv

LEMMA SaveMegaInv ==
  ASSUME CloudInv, NEW e \in Emails, NEW p \in Passwords, NEW f \in Folders, SaveMega(e, p, f)
  PROVE  CloudInv'
<1> DEFINE a == Write(Mega(e, p))
           b == Put("email", e)
           c == Put("pass", p)
           account == <<a, b, c>>
           steps == account \o Destination(f)
           all == MegaSave(e, p, f)
<1>1. Ask("save", steps) /\ all \in Saves
  BY DEF SaveMega, Saves
<1>2. all \subseteq CloudWrites
  BY <1>1, MeantWrites
<1>3. all = {a, b, c} \cup {Put("mode", "mega"), Put("folder", f), Put("dir", <<"mega", f>>)}
  BY DEF MegaSave
<1> HIDE DEF a, b, c, all
<1>4. a \in CloudWrites /\ b \in CloudWrites /\ c \in CloudWrites
  BY <1>2, <1>3
<1>5. account \in Seq(CloudWrites) /\ Len(account) = 3 /\ Elements(account) = {a, b, c}
  BY <1>4, RowOfThree
<1> HIDE DEF account
<1>6. /\ steps \in Seq(CloudWrites) /\ Len(steps) = Len(account) + Len(Destination(f))
      /\ Elements(steps) = Elements(account) \cup Elements(Destination(f))
  BY <1>5, DestinationWrites, InARow
<1> HIDE DEF steps
<1>7. /\ Len(Destination(f)) = 3
      /\ Elements(Destination(f)) =
           {Put("mode", "mega"), Put("folder", f), Put("dir", <<"mega", f>>)}
  BY DestinationWrites
<1>8. Len(steps) <= 6
  BY <1>5, <1>6, <1>7
<1>9. Elements(steps) = all
  BY <1>3, <1>5, <1>6, <1>7, Zenon
<1>10. QED
  BY <1>1, <1>6, <1>8, <1>9, SaveBegins

LEMMA SaveFolderInv ==
  ASSUME CloudInv, NEW e \in Emails, NEW f \in Folders, SaveFolder(e, f)
  PROVE  CloudInv'
<1> DEFINE p == cloud.pass
           a == Write(Mega(e, p))
           b == Put("email", e)
           c == Put("pass", p)
           first == <<a>>
           second == IF cloud.email = e THEN <<>> ELSE <<b>>
           steps == (first \o second) \o Destination(f)
           all == MegaSave(e, p, f)
<1>1. p \in Passwords /\ Ask("save", steps)
  BY DEF SaveFolder, CloudInv, CloudTyped, CloudConf, Secrets
<1>2. Done(c) /\ (cloud.email = e => Done(b))
  BY DEF Done, Put
<1> HIDE DEF p
<1>3. all \in Saves
  BY <1>1 DEF Saves
<1>4. all \subseteq CloudWrites
  BY <1>3, MeantWrites
<1>5. all = {a, b, c} \cup {Put("mode", "mega"), Put("folder", f), Put("dir", <<"mega", f>>)}
  BY DEF MegaSave
<1> HIDE DEF a, b, c, all
<1>6. a \in CloudWrites /\ b \in CloudWrites /\ c \in CloudWrites
  BY <1>4, <1>5
<1>7. first \in Seq(CloudWrites) /\ Len(first) = 1 /\ Elements(first) = {a}
  BY <1>6, RowOfOne
<1>8. CASE cloud.email = e
  <2>1. second \in Seq(CloudWrites) /\ Len(second) = 0 /\ Elements(second) = {}
    BY <1>8, NoRow
  <2> HIDE DEF first, second
  <2>2. /\ first \o second \in Seq(CloudWrites) /\ Len(first \o second) = 1
        /\ Elements(first \o second) = {a}
    BY <1>7, <2>1, InARow
  <2> DEFINE account == first \o second
  <2> HIDE DEF account
  <2>3. account \in Seq(CloudWrites) /\ Len(account) = 1 /\ Elements(account) = {a}
    BY <2>2 DEF account
  <2>4. steps = account \o Destination(f)
    BY DEF account
  <2> HIDE DEF steps
  <2>5. /\ steps \in Seq(CloudWrites) /\ Len(steps) = Len(account) + Len(Destination(f))
        /\ Elements(steps) = Elements(account) \cup Elements(Destination(f))
    BY <2>3, <2>4, DestinationWrites, InARow
  <2>6. /\ Len(Destination(f)) = 3
        /\ Elements(Destination(f)) =
             {Put("mode", "mega"), Put("folder", f), Put("dir", <<"mega", f>>)}
    BY DestinationWrites
  <2>7. Len(steps) <= 6
    BY <2>3, <2>5, <2>6
  <2>8. Elements(steps) \subseteq all /\ \A s \in all : Done(s) \/ s \in Elements(steps)
    BY <1>2, <1>5, <1>8, <2>3, <2>5, <2>6, Zenon
  <2>9. QED
    BY <1>1, <1>3, <2>5, <2>7, <2>8, SaveBegins
<1>9. CASE cloud.email # e
  <2>1. second \in Seq(CloudWrites) /\ Len(second) = 1 /\ Elements(second) = {b}
    BY <1>6, <1>9, RowOfOne
  <2> HIDE DEF first, second
  <2>2. /\ first \o second \in Seq(CloudWrites)
        /\ Len(first \o second) = Len(first) + Len(second)
        /\ Elements(first \o second) = Elements(first) \cup Elements(second)
    BY <1>7, <2>1, InARow
  <2> DEFINE account == first \o second
  <2> HIDE DEF account
  <2>3. account \in Seq(CloudWrites) /\ Len(account) = 2 /\ Elements(account) = {a, b}
    <3>1. Len(account) = 2
      BY <1>7, <2>1, <2>2 DEF account
    <3>2. Elements(account) = {a, b}
      BY <1>7, <2>1, <2>2, Zenon DEF account
    <3>3. QED
      BY <2>2, <3>1, <3>2 DEF account
  <2>4. steps = account \o Destination(f)
    BY DEF account
  <2> HIDE DEF steps
  <2>5. /\ steps \in Seq(CloudWrites) /\ Len(steps) = Len(account) + Len(Destination(f))
        /\ Elements(steps) = Elements(account) \cup Elements(Destination(f))
    BY <2>3, <2>4, DestinationWrites, InARow
  <2>6. /\ Len(Destination(f)) = 3
        /\ Elements(Destination(f)) =
             {Put("mode", "mega"), Put("folder", f), Put("dir", <<"mega", f>>)}
    BY DestinationWrites
  <2>7. Len(steps) <= 6
    BY <2>3, <2>5, <2>6
  <2>8. Elements(steps) \subseteq all /\ \A s \in all : Done(s) \/ s \in Elements(steps)
    BY <1>2, <1>5, <2>3, <2>5, <2>6, Zenon
  <2>9. QED
    BY <1>1, <1>3, <2>5, <2>7, <2>8, SaveBegins
<1>10. QED
  BY <1>8, <1>9

LEMMA AdvancedInv ==
  ASSUME CloudInv, NEW r \in Remotes, _save_advanced_config(r)
  PROVE  CloudInv'
<1> DEFINE a == Write(Own(r))
           b == Put("mode", "advanced")
           c == Put("dir", <<r>>)
           steps == <<a, b, c>>
           all == OwnSave(r)
<1>1. Ask("save", steps) /\ all \in Saves /\ all = {a, b, c}
  BY DEF _save_advanced_config, Saves, OwnSave
<1>2. all \subseteq CloudWrites
  BY <1>1, MeantWrites
<1> HIDE DEF a, b, c, all
<1>3. steps \in Seq(CloudWrites) /\ Len(steps) = 3 /\ Elements(steps) = all
  BY <1>1, <1>2, RowOfThree
<1> HIDE DEF steps
<1>4. Len(steps) <= 6
  BY <1>3
<1>5. Elements(steps) \subseteq all /\ \A s \in all : Done(s) \/ s \in Elements(steps)
  BY <1>3, Zenon
<1>6. QED
  BY <1>1, <1>3, <1>4, <1>5, SaveBegins

LEMMA ValidateInv ==
  ASSUME CloudInv, NEW e \in Emails, NEW p \in Passwords, validate_mega(e, p)
  PROVE  CloudInv'
<1> DEFINE a == Write(Mega(e, p))
           b == Put("mode", "mega")
           c == Put("email", e)
           d == Put("pass", p)
           steps == <<a, b, c, d>>
           all == Validation(e, p)
<1>1. Ask("validate", steps) /\ all \in Validations /\ all = {a, b, c, d}
  BY DEF validate_mega, Validations, Validation
<1>2. all \subseteq CloudWrites
  BY <1>1, MeantWrites
<1> HIDE DEF a, b, c, d, all
<1>3. steps \in Seq(CloudWrites) /\ Len(steps) = 4 /\ Elements(steps) = all
  BY <1>1, <1>2, RowOfFour
<1> HIDE DEF steps
<1>4. Len(steps) <= 6
  BY <1>3
<1>5. QED
  BY <1>1, <1>3, <1>4, ValidationBegins

LEMMA CloudInitInv == ASSUME CloudInit PROVE CloudInv
<1>1. /\ rclone = Own(Blank) /\ todo = <<>> /\ kind = "save" /\ cloudTorn = FALSE
      /\ requests = 0
      /\ cloud = [mode |-> Blank, email |-> Blank, pass |-> Blank, folder |-> Blank,
                  dir |-> <<>>]
  BY DEF CloudInit
<1>2. rclone \in Configured /\ cloud \in CloudConf
  BY <1>1 DEF Own, Configured, CloudConf, Accounts, Secrets, Dirs
<1>3. requests \in 0..MaxCloudRequests
  BY <1>1, CloudAssumption
<1>4. todo \in Seq(CloudWrites) /\ Len(todo) = 0
  BY <1>1, NoRow
<1>5. CloudTyped
  <2>1. kind \in {"save", "validate"} /\ cloudTorn \in BOOLEAN
    BY <1>1
  <2>2. Len(todo) <= 6
    BY <1>4
  <2>3. QED
    BY <1>2, <1>3, <1>4, <2>1, <2>2 DEF CloudTyped
<1>6. cloud.mode = Blank
  BY <1>1
<1>7. QED
  BY <1>1, <1>5, <1>6, Zenon DEF CloudInv

LEMMA CloudNextInv == ASSUME CloudInv, [CloudNext]_cloudVars PROVE CloudInv'
<1>1. CASE CloudCutShort
  BY <1>1 DEF CloudCutShort, CloudInv, CloudTyped
<1>2. CASE UNCHANGED cloudVars
  BY <1>2 DEF cloudVars, CloudInv, CloudTyped, Meant, Underway, Done
<1>3. QED
  BY <1>1, <1>2, SaveMegaInv, SaveFolderInv, AdvancedInv, ValidateInv, CloudStepInv DEF CloudNext

LEMMA CloudInvariance == CloudSpec => []CloudInv
BY CloudInitInv, CloudNextInv, PTL DEF CloudSpec

\* Every value of the cloud destination has its type, in every reachable state.
THEOREM CloudTypesCorrect == CloudSpec => []CloudTypeOK
<1>1. CloudInv => CloudTypeOK
  BY DEF CloudInv, CloudTyped, CloudTypeOK, Configured, CloudConf, Accounts, Secrets
<1>2. QED
  BY <1>1, CloudInvariance, PTL

LEMMA WhatASaveLeaves ==
  ASSUME NEW all \in Saves, \A s \in all : Done(s)
  PROVE  \/ /\ cloud.mode = "mega" /\ rclone = Mega(cloud.email, cloud.pass)
            /\ cloud.dir = <<"mega", cloud.folder>>
         \/ cloud.mode = "advanced" /\ cloud.dir = <<rclone.remote>>
<1>1. ASSUME NEW e \in Emails, NEW p \in Passwords, NEW f \in Folders, all = MegaSave(e, p, f)
      PROVE  /\ cloud.mode = "mega" /\ rclone = Mega(cloud.email, cloud.pass)
             /\ cloud.dir = <<"mega", cloud.folder>>
  <2>1. /\ Done(Write(Mega(e, p))) /\ Done(Put("email", e)) /\ Done(Put("pass", p))
        /\ Done(Put("mode", "mega")) /\ Done(Put("folder", f)) /\ Done(Put("dir", <<"mega", f>>))
    BY <1>1 DEF MegaSave
  <2>2. QED
    BY <2>1 DEF Done, Write, Put
<1>2. ASSUME NEW r \in Remotes, all = OwnSave(r)
      PROVE  cloud.mode = "advanced" /\ cloud.dir = <<rclone.remote>>
  <2>1. /\ Done(Write(Own(r))) /\ Done(Put("mode", "advanced")) /\ Done(Put("dir", <<r>>))
    BY <1>2 DEF OwnSave
  <2>2. QED
    BY <2>1 DEF Done, Write, Put, Own
<1>3. QED
  BY <1>1, <1>2 DEF Saves

LEMMA WhatAValidationLeaves ==
  ASSUME NEW all \in Validations, \A s \in all : Done(s)
  PROVE  cloud.mode = "mega" /\ rclone = Mega(cloud.email, cloud.pass)
<1>1. PICK e \in Emails, p \in Passwords : all = Validation(e, p)
  BY DEF Validations
<1>2. /\ Done(Write(Mega(e, p))) /\ Done(Put("email", e)) /\ Done(Put("pass", p))
      /\ Done(Put("mode", "mega"))
  BY <1>1 DEF Validation
<1>3. QED
  BY <1>2 DEF Done, Write, Put

\* For all accounts, folders and remotes, a request that was not cut short leaves
\* rclone.conf and the settings telling the same story, whatever requests that
\* were cut short have left behind.
THEOREM SettingsMatchRclone == CloudSpec => []BackupUsesSettings
<1>1. CloudInv => BackupUsesSettings
  <2>1. SUFFICES ASSUME CloudInv, ~cloudTorn PROVE BackupUsesSettings
    BY DEF BackupUsesSettings
  <2>2. CASE cloud.mode = Blank
    BY <2>2, CloudAssumption DEF BackupUsesSettings
  <2>3. CASE kind = "save" /\ \E all \in Saves : \A s \in all : Done(s)
    BY <2>3, WhatASaveLeaves DEF BackupUsesSettings
  <2>4. CASE kind = "validate" /\ \E all \in Validations : \A s \in all : Done(s)
    BY <2>4, WhatAValidationLeaves DEF BackupUsesSettings
  <2>5. QED
    BY <2>1, <2>2, <2>3, <2>4 DEF CloudInv, CloudTyped, Meant
<1>2. QED
  BY <1>1, CloudInvariance, PTL

-----------------------------------------------------------------------------
(* Server name                                                             *)

Change == [pc : {"hosts", "hostname", "restore", "original", "server", "managed", "applied"},
           new : Hosts, old : Hosts, content : SUBSET Hosts]

NameTyped == NameTypeOK /\ req \in {NameIdle} \cup Change

\* The server resolves its name, and the settings, when they manage it, name it.
Resolves(names) == /\ hostname \in names
                   /\ meta.managed => meta.server = hostname /\ meta.applied = hostname

\* Until the host name has changed the old names are in the file or in the
\* request; afterwards the file has the new one, and the settings follow it.
NameProgress ==
  /\ req.pc = "idle" /\ ~nameTorn => Resolves(hosts)
  /\ req.pc = "hosts" => req.content = hosts
  /\ req.pc \in {"hosts", "hostname", "restore"} /\ ~nameTorn => Resolves(req.content)
  /\ req.pc \in {"hostname", "original", "server", "managed", "applied"} => req.new \in hosts
  /\ req.pc \in {"original", "server", "managed", "applied"} => hostname = req.new
  /\ req.pc \in {"managed", "applied"} => meta.server = req.new

NameInv == NameTyped /\ NameProgress

LEMMA NameMoves ==
  ASSUME NameTypeOK, NameMove
  PROVE  nameMoves' \in 0..MaxNameMoves
<1>1. nameMoves \in 0..MaxNameMoves /\ nameMoves < MaxNameMoves /\ nameMoves' = nameMoves + 1
  BY DEF NameTypeOK, NameMove
<1>2. QED
  BY <1>1, NameAssumption, OneMore

LEMMA NameInitInv == ASSUME NameInit PROVE NameInv
<1>1. NameTypeOK
  <2>1. nameMoves = 0
    BY DEF NameInit
  <2>2. nameMoves \in 0..MaxNameMoves
    BY <2>1, NameAssumption
  <2>3. QED
    BY <2>2 DEF NameInit, NameTypeOK, NameIdle
<1>2. NameProgress
  BY DEF NameInit, NameProgress, NameIdle, Resolves
<1>3. QED
  BY <1>1, <1>2 DEF NameInv, NameTyped, NameInit

LEMMA NameStepInv == ASSUME NameInv, [NameNext]_nameVars PROVE NameInv'
<1>0. NameMove => nameMoves' \in 0..MaxNameMoves
  BY NameMoves DEF NameInv, NameTyped
<1> USE DEF NameInv, NameTyped, NameTypeOK, NameProgress, NameAt
<1>1. CASE req.pc = "idle"
  <2>1. ASSUME NEW n \in Hosts, update_server_name(n) PROVE NameInv'
    <3>1. /\ req' = [pc |-> "hosts", new |-> n, old |-> hostname, content |-> hosts]
          /\ nameMoves' \in 0..MaxNameMoves /\ UNCHANGED <<hostname, hosts, meta, nameTorn>>
      BY <1>0, <2>1 DEF update_server_name
    <3>2. req' \in Change
      BY <3>1 DEF Change
    <3>3. QED
      BY <1>1, <3>1, <3>2 DEF Resolves
  <2>2. ASSUME NEW n \in Hosts, Operator(n) PROVE NameInv'
    <3>1. nameMoves' \in 0..MaxNameMoves
      BY <1>0, <2>2 DEF Operator
    <3>2. hosts' \in SUBSET Hosts
      BY <2>2 DEF Operator
    <3>3. QED
      BY <1>1, <2>2, <3>1, <3>2 DEF Operator
  <2>3. CASE RewriteConfig
    <3>1. /\ meta' \in [server : Hosts \cup {NoName}, managed : BOOLEAN,
                        original : Hosts \cup {NoName}, applied : Hosts \cup {NoName}]
          /\ meta'.managed = FALSE
      BY <2>3 DEF RewriteConfig
    <3>2. QED
      BY <1>0, <1>1, <2>3, <3>1 DEF RewriteConfig, Resolves
  <2>4. CASE UNCHANGED nameVars
    BY <2>4 DEF nameVars, Resolves
  <2>5. QED
    BY <1>1, <2>1, <2>2, <2>3, <2>4 DEF NameNext, UpdateHosts, SetHostname, RestoreHosts,
       SaveMetadata, SaveApplied, NameCutShort, NameSet
<1>2. CASE req.pc # "idle"
  <2>1. req \in Change
    BY <1>2 DEF NameIdle
  <2>2. ASSUME NEW pc \in {"hostname", "restore", "original", "server", "managed", "applied"},
               NameGoto(pc)
        PROVE  /\ req' \in Change /\ req'.pc = pc /\ req'.new = req.new
               /\ req'.content = req.content /\ req'.old = req.old
    BY <2>1, <2>2 DEF NameGoto, Change
  <2>3. CASE UpdateHosts
    <3>1. req.pc = "hosts" /\ NameGoto("hostname") /\ hosts' = Renamed(hosts, req.old, req.new)
          /\ UNCHANGED <<hostname, meta, nameTorn, nameMoves>>
      BY <2>3 DEF UpdateHosts
    <3>2. hosts' \in SUBSET Hosts /\ req.new \in hosts'
      BY <2>1, <3>1 DEF Renamed, Change
    <3>3. QED
      BY <2>2, <3>1, <3>2 DEF Resolves
  <2>4. CASE SetHostname
    <3>1. req.pc = "hostname" /\ hostname' \in {hostname, req.new}
          /\ UNCHANGED <<hosts, meta, nameMoves>> /\ nameTorn' \in BOOLEAN
      BY <2>4 DEF SetHostname
    <3>2. hostname' \in Hosts
      BY <2>1, <3>1 DEF Change
    <3>3. CASE hostname' = req.new /\ NameGoto("original") /\ UNCHANGED nameTorn
      BY <2>2, <3>1, <3>2, <3>3
    <3>4. CASE UNCHANGED hostname /\ NameGoto("restore") /\ UNCHANGED nameTorn
      BY <2>2, <3>1, <3>2, <3>4 DEF Resolves
    <3>5. CASE NameGoto("restore") /\ nameTorn' = TRUE
      BY <2>2, <3>1, <3>2, <3>5
    <3>6. QED
      BY <2>4, <3>3, <3>4, <3>5 DEF SetHostname
  <2>5. CASE RestoreHosts
    BY <2>1, <2>5 DEF RestoreHosts, Resolves, NameIdle, Change
  <2>6. CASE SaveMetadata
    <3>1. /\ UNCHANGED <<hostname, hosts, nameTorn, nameMoves>>
          /\ meta' \in [server : Hosts \cup {NoName}, managed : BOOLEAN,
               original : Hosts \cup {NoName}, applied : Hosts \cup {NoName}]
      BY <2>1, <2>6 DEF SaveMetadata, NameSet, Change
    <3>2. PICK pc \in {"server", "managed", "applied"} :
            /\ req.pc \in {"original", "server", "managed"} /\ NameGoto(pc)
            /\ pc \in {"managed", "applied"} => meta'.server = req.new
      BY <2>1, <2>6 DEF SaveMetadata, NameSet, Change
    <3>3. QED
      BY <2>1, <2>2, <3>1, <3>2
  <2>7. CASE SaveApplied
    BY <2>1, <2>7 DEF SaveApplied, Resolves, NameIdle, Change
  <2>8. CASE NameCutShort
    BY <2>8 DEF NameCutShort, NameIdle
  <2>9. CASE UNCHANGED nameVars
    BY <2>9 DEF nameVars, Resolves
  <2>10. QED
    BY <1>2, <2>3, <2>4, <2>5, <2>6, <2>7, <2>8, <2>9 DEF NameNext, update_server_name,
       Operator, RewriteConfig
<1>3. QED
  BY <1>1, <1>2

LEMMA NameInvariance == NameSpec => []NameInv
BY NameInitInv, NameStepInv, PTL DEF NameSpec

\* Every value of the server name has its type, in every reachable state.
THEOREM NameTypesCorrect == NameSpec => []NameTypeOK
<1>1. NameInv => NameTypeOK
  BY DEF NameInv, NameTyped
<1>2. QED
  BY <1>1, NameInvariance, PTL

\* After a change that succeeded, or failed and was undone, the server resolves
\* its own name and the settings name it, whatever was there before.
THEOREM ServerAnswersToItsName == NameSpec => []NamesAgree
<1>1. NameInv => NamesAgree
  BY DEF NameInv, NameProgress, NamesAgree, NameAt, Resolves
<1>2. QED
  BY <1>1, NameInvariance, PTL

-----------------------------------------------------------------------------
(* Tasks of fake mode                                                      *)

TaskInv ==
  /\ TaskTypeOK
  /\ Live \subseteq active
  /\ \A p, q \in active : p = q
  /\ \A r \in Runs : run[r] = "leaves" /\ ~stale => status # "Running"
  /\ Live = {} /\ ~stale => status # "Running"

LEMMA TaskStops ==
  ASSUME TaskTypeOK, NEW q, Stop(q)
  PROVE  stops' \in 0..MaxStops
<1>1. stops \in 0..MaxStops /\ stops < MaxStops /\ stops' = stops + 1
  BY DEF TaskTypeOK, Stop
<1>2. QED
  BY <1>1, TaskAssumption, OneMore

LEMMA TaskInitInv == ASSUME TaskInit PROVE TaskInv
<1>1. TaskTypeOK
  <2>1. stops = 0
    BY DEF TaskInit
  <2>2. stops \in 0..MaxStops
    BY <2>1, TaskAssumption
  <2>3. QED
    BY <2>2 DEF TaskInit, TaskTypeOK
<1>2. Live = {} /\ \A r \in Runs : run[r] = "none"
  BY DEF TaskInit, Live
<1>3. QED
  BY <1>1, <1>2 DEF TaskInit, TaskInv

LEMMA TaskStepInv == ASSUME TaskInv, [TaskNext]_taskVars PROVE TaskInv'
<1> USE TaskAssumption DEF TaskInv, TaskTypeOK
<1>1. ASSUME NEW r \in Runs, Start(r) PROVE TaskInv'
  <2>1. Live = {}
    BY <1>1 DEF Start
  <2>2. Live' = {r}
    BY <1>1, <2>1 DEF Start, Live
  <2>3. run' \in [Runs -> {"none", "works", "reports", "leaves", "ended"}]
    BY <1>1 DEF Start
  <2>4. \A q \in Runs : run'[q] # "leaves"
    BY <1>1, <2>1 DEF Start, Live
  <2>5. QED
    BY <1>1, <2>2, <2>3, <2>4 DEF Start
<1>2. ASSUME NEW r \in Runs, Work(r) \/ StartFails(r) \/ ReportFails(r) PROVE TaskInv'
  <2>1. Live' = Live
    BY <1>2 DEF Work, StartFails, ReportFails, Live
  <2>2. CASE Work(r)
    BY <2>1, <2>2 DEF Work
  <2>3. CASE StartFails(r)
    BY <2>1, <2>3 DEF StartFails
  <2>4. CASE ReportFails(r)
    BY <2>1, <2>4 DEF ReportFails
  <2>5. QED
    BY <1>2, <2>2, <2>3, <2>4
<1>3. ASSUME NEW r \in Runs, Report(r) PROVE TaskInv'
  <2>1. Live' = Live
    BY <1>3 DEF Report, Live
  <2>2. status' \in {"Stopped", "Success", "Failure"}
    BY <1>3 DEF Report
  <2>3. QED
    BY <1>3, <2>1, <2>2 DEF Report
<1>4. ASSUME NEW r \in Runs, Leave(r) PROVE TaskInv'
  <2>1. Live' = Live \ {r} /\ (~stale => status # "Running")
    BY <1>4 DEF Leave, Live
  <2>2. QED
    BY <1>4, <2>1 DEF Leave
<1>5. ASSUME NEW q \in Requests, Stop(q) \/ ReadStatus(q) \/ WriteStopped(q) PROVE TaskInv'
  <2>1. UNCHANGED <<run, active, stale>> /\ status' \in {status, "Stopped"} /\ Live' = Live
    BY <1>5 DEF Stop, ReadStatus, WriteStopped, Live
  <2>2. /\ cancel' \subseteq Runs /\ stops' \in 0..MaxStops
        /\ stop' \in [Requests -> {"none", "running", "idle", "write"}]
    <3>1. CASE Stop(q)
      <4>1. stops' \in 0..MaxStops
        BY <3>1, TaskStops
      <4>2. QED
        BY <1>5, <3>1, <4>1 DEF Stop, Live
    <3>2. CASE ReadStatus(q) \/ WriteStopped(q)
      BY <1>5, <3>2 DEF ReadStatus, WriteStopped
    <3>3. QED
      BY <1>5, <3>1, <3>2
  <2>3. QED
    BY <2>1, <2>2
<1>6. CASE Restart
  <2>1. /\ Live' = {} /\ \A r \in Runs : run'[r] # "leaves"
        /\ run' \in [Runs -> {"none", "works", "reports", "leaves", "ended"}]
    BY <1>6 DEF Restart, Live
  <2>2. QED
    BY <1>6, <2>1 DEF Restart
<1>7. CASE UNCHANGED taskVars
  BY <1>7 DEF taskVars, Live
<1>8. QED
  BY <1>1, <1>2, <1>3, <1>4, <1>5, <1>6, <1>7 DEF TaskNext

LEMMA TaskInvariance == TaskSpec => []TaskInv
BY TaskInitInv, TaskStepInv, PTL DEF TaskSpec

\* Every value of the tasks of fake mode has its type, in every reachable state.
THEOREM TaskTypesCorrect == TaskSpec => []TaskTypeOK
<1>1. TaskInv => TaskTypeOK
  BY DEF TaskInv
<1>2. QED
  BY <1>1, TaskInvariance, PTL

\* For any number of starts and stops of a task, it runs once at a time, and when
\* it does not run the status does not say so, unless a restart or a failed write
\* of state.json has left it so.
THEOREM TaskRunsAlone == TaskSpec => []RunsAlone
<1>1. TaskInv => RunsAlone
  BY DEF TaskInv, RunsAlone
<1>2. QED
  BY <1>1, TaskInvariance, PTL

-----------------------------------------------------------------------------
(* All the parts together                                                  *)

\* A step of one part is a step of that part, and a stutter of every other.
LEMMA EachPartSteps ==
  ASSUME [MCNext]_MCVars
  PROVE  /\ [AlertNext]_alertVars
         /\ [Next]_vars
         /\ [DriveNext]_driveVars
         /\ [HealthNext]_healthVars
         /\ [SetupNext]_setupVars
         /\ [CloudNext]_cloudVars
         /\ [NameNext]_nameVars
         /\ [TaskNext]_taskVars
<1>1. [AlertNext]_alertVars
  BY DEF MCNext, MCVars, Only
<1>2. [Next]_vars
  BY DEF MCNext, MCVars, Only
<1>3. [DriveNext]_driveVars
  BY DEF MCNext, MCVars, Only
<1>4. [HealthNext]_healthVars
  BY DEF MCNext, MCVars, Only
<1>5. [SetupNext]_setupVars
  BY DEF MCNext, MCVars, Only
<1>6. [CloudNext]_cloudVars
  BY DEF MCNext, MCVars, Only
<1>7. [NameNext]_nameVars
  BY DEF MCNext, MCVars, Only
<1>8. [TaskNext]_taskVars
  BY DEF MCNext, MCVars, Only
<1>9. QED
  BY <1>1, <1>2, <1>3, <1>4, <1>5, <1>6, <1>7, <1>8

\* Together, every part behaves as its own specification says.
THEOREM PartsBehave ==
  MCSpec => /\ AlertSpec
            /\ Spec
            /\ DriveSpec
            /\ HealthSpec
            /\ SetupSpec
            /\ CloudSpec
            /\ NameSpec
            /\ TaskSpec
<1>1. MCInit =>
        /\ AlertInit
        /\ Init
        /\ DriveInit
        /\ HealthInit
        /\ SetupInit
        /\ CloudInit
        /\ NameInit
        /\ TaskInit
  BY DEF MCInit
<1>2. [MCNext]_MCVars =>
        /\ [AlertNext]_alertVars
        /\ [Next]_vars
        /\ [DriveNext]_driveVars
        /\ [HealthNext]_healthVars
        /\ [SetupNext]_setupVars
        /\ [CloudNext]_cloudVars
        /\ [NameNext]_nameVars
        /\ [TaskNext]_taskVars
  BY EachPartSteps
<1>3. QED
  BY <1>1, <1>2, PTL DEF MCSpec, AlertSpec, Spec, DriveSpec, HealthSpec, SetupSpec, CloudSpec,
     NameSpec, TaskSpec

\* Every value that any part keeps has its type, in every reachable state.
THEOREM AllTypesCorrect == MCSpec => []PartsTyped
<1>1. MCSpec => [](part \in Parts)
  <2>1. MCInit => part \in Parts
    BY DEF MCInit
  <2>2. part \in Parts /\ [MCNext]_MCVars => (part \in Parts)'
    BY DEF MCNext, MCVars, Only
  <2>3. QED
    BY <2>1, <2>2, PTL DEF MCSpec
<1>2. /\ part \in Parts /\ AlertTypeOK /\ TypeOK /\ DriveTypeOK /\ HealthTypeOK
      /\ SetupTypeOK /\ CloudTypeOK /\ NameTypeOK /\ TaskTypeOK
      => PartsTyped
  BY DEF PartsTyped
<1>3. QED
  BY <1>1, <1>2, PartsBehave, AlertTypesCorrect, TypeCorrect, DriveTypesCorrect,
     HealthTypesCorrect, SetupTypesCorrect, CloudTypesCorrect, NameTypesCorrect,
     TaskTypesCorrect, PTL

\* All the safety properties of the parts hold of them together: what the run of
\* MCAppliance checks on a small instance holds for every value of the constants.
THEOREM PartsStaySafe ==
  MCSpec => /\ [](/\ NewestAreKept /\ IncludesExist /\ Served
                 /\ Agree /\ AllOrNothing /\ SharingReturns
                 /\ LatestShown /\ Ready /\ BackupUsesSettings
                 /\ NamesAgree /\ RunsAlone)
            /\ MarksWhatWasOpened /\ AtomicShares /\ RightDrive /\ NoChangeMissed
BY PartsBehave, NewestAlertsAreKept, IncludesAlwaysExist, PublishedIsServed, StoresAgree,
   SetupIsAllOrNothing, SharingIsRestored, LatestCheckShown, CompleteSetupIsReady,
   SettingsMatchRclone, ServerAnswersToItsName, TaskRunsAlone, MarksTheAlertOnScreen,
   ImplementsShareStore, ConfiguredDriveMounted, ChangesAreAlerted, PTL
================================================================================
