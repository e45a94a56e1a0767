-------------------------- MODULE AppUpdatesProofs --------------------------
(***************************************************************************)
(* Proofs about AppUpdates: a click on "clean up and update" throws local  *)
(* changes away at most once, and no commit is ever lost, for any number   *)
(* of admins, branches, requests and failures.                             *)
(*                                                                         *)
(* The first is not inductive: what counts is that a cleanup that may      *)
(* still happen has been paid for by a click.  Such a cleanup is one in    *)
(* the request file, or one that the service has read and not begun; while *)
(* the service has read the file and not removed it, the two are one,      *)
(* because the file is removed whatever it holds by then.                  *)
(***************************************************************************)
EXTENDS AppUpdates, FiniteSetTheorems, TLAPS

-----------------------------------------------------------------------------
(* The invariant                                                           *)

Count(condition) == IF condition THEN 1 ELSE 0

\* The cleanups that may still happen without another click.
Outstanding ==
  IF service = "unlink"
  THEN Count(request = Cleanup \/ run = Cleanup)
  ELSE Count(request = Cleanup) + Count(run = Cleanup /\ service \in {"status", "cleanup"})

RunInv ==
  /\ service \in {"idle", "read"} => run = Normal
  /\ service = "cleanup" => run = Cleanup

IInv ==
  /\ asked \in Nat /\ cleanups \in Nat
  /\ request \in Request /\ run \in Request
  /\ web \in [Admins -> [at : {"idle", "queue", "start", "clear"}, want : Request]]
  /\ RunInv
  /\ cleanups + Outstanding <= asked

-----------------------------------------------------------------------------
(* Lemmas                                                                  *)

\* The three kinds of request differ, and the mode tells them apart.
LEMMA RequestModes ==
  /\ Normal # Cleanup /\ Normal \in Request /\ Cleanup \in Request
  /\ \A r \in Request : r.mode = "cleanup" <=> r = Cleanup
  /\ \A b \in Branches : Switch(b) # Cleanup /\ Switch(b) \in Request
<1>1. Normal.mode = "normal" /\ Cleanup.mode = "cleanup"
  BY DEF Normal, Cleanup
<1>2. \A b \in Branches : Switch(b).mode = "switch_branch"
  BY DEF Switch
<1>3. QED
  BY <1>1, <1>2 DEF Request

LEMMA CountIs == Count(TRUE) = 1 /\ Count(FALSE) = 0
BY DEF Count

LEMMA LessToPay ==
  ASSUME NEW c \in Nat, NEW o \in Nat, NEW o2 \in Nat, NEW a \in Nat, c + o <= a, o2 <= o
  PROVE  c + o2 <= a
OBVIOUS

LEMMA MorePaid ==
  ASSUME NEW c \in Nat, NEW o \in Nat, NEW o2 \in Nat, NEW a \in Nat, NEW n \in Nat,
         c + o <= a, o2 <= o + n
  PROVE  c + o2 <= a + n /\ a + n \in Nat
OBVIOUS

LEMMA OneBegins ==
  ASSUME NEW c \in Nat, NEW o \in Nat, NEW o2 \in Nat, NEW a \in Nat, c + o <= a, o = o2 + 1
  PROVE  (c + 1) + o2 <= a /\ c + 1 \in Nat
OBVIOUS

\* An end of a run leaves the request file, which was paid for, and nothing else.
LEMMA EndRunKeeps ==
  ASSUME IInv, EndRun, request' = request, asked' = asked, cleanups' = cleanups,
         web' = web \/ web' = [a \in Admins |-> Idle]
  PROVE  IInv'
<1>1. run' = Normal /\ service' = "idle"
  BY DEF EndRun
<1>2. Outstanding' = Count(request = Cleanup)
  BY <1>1, RequestModes, CountIs DEF Outstanding, Count
<1>3. Outstanding >= Count(request = Cleanup) /\ Outstanding \in Nat
  BY DEF Outstanding, Count
<1>4. Count(request = Cleanup) \in Nat
  BY DEF Count
<1>5. web' \in [Admins -> [at : {"idle", "queue", "start", "clear"}, want : Request]]
  <2>1. Idle \in [at : {"idle", "queue", "start", "clear"}, want : Request]
    BY RequestModes DEF Idle
  <2>2. QED
    BY <2>1 DEF IInv
<1>6. RunInv'
  BY <1>1 DEF RunInv
<1>7. QED
  BY <1>1, <1>2, <1>3, <1>4, <1>5, <1>6, RequestModes DEF IInv

\* A step that touches neither the request file nor the run.
LEMMA NotConcerned ==
  ASSUME IInv, request' = request, run' = run, asked' = asked, cleanups' = cleanups,
         web' \in [Admins -> [at : {"idle", "queue", "start", "clear"}, want : Request]],
         \/ service' = service
         \/ service = "idle" /\ service' = "read"
         \/ service \notin {"unlink", "status", "cleanup", "idle", "read"}
            /\ service' \notin {"unlink", "status", "cleanup", "idle", "read"}
  PROVE  IInv'
<1>1. RunInv'
  BY DEF RunInv, IInv
<1>2. Outstanding' = Outstanding
  BY DEF Outstanding
<1>3. QED
  BY <1>1, <1>2 DEF IInv

\* The record of one request thread changes.
LEMMA WebTypes ==
  ASSUME IInv, NEW a \in Admins, NEW r \in [at : {"idle", "queue", "start", "clear"}, want : Request],
         web' = [web EXCEPT ![a] = r]
  PROVE  web' \in [Admins -> [at : {"idle", "queue", "start", "clear"}, want : Request]]
BY DEF IInv

LEMMA GotoTypes ==
  ASSUME IInv, NEW a \in Admins, NEW stage \in {"idle", "queue", "start", "clear"},
         NEW want \in Request, Goto(a, stage, want)
  PROVE  web' \in [Admins -> [at : {"idle", "queue", "start", "clear"}, want : Request]]
BY WebTypes DEF Goto

LEMMA IdleTypes ==
  /\ Idle \in [at : {"idle", "queue", "start", "clear"}, want : Request]
  /\ [a \in Admins |-> Idle]
       \in [Admins -> [at : {"idle", "queue", "start", "clear"}, want : Request]]
BY RequestModes DEF Idle

-----------------------------------------------------------------------------
(* The steps                                                               *)

LEMMA AskKeeps ==
  ASSUME IInv, NEW a \in Admins,
         AskUpdate(a) \/ AskCleanup(a) \/ \E b \in Branches : AskSwitch(a, b)
  PROVE  IInv'
<1>1. /\ request' = request /\ run' = run /\ asked' = asked /\ cleanups' = cleanups
      /\ service' = service
  BY DEF AskUpdate, AskCleanup, AskSwitch, Ask
<1>2. \E want \in Request : Goto(a, "start", want) \/ Goto(a, "queue", want)
  BY RequestModes DEF AskUpdate, AskCleanup, AskSwitch
<1>3. web' \in [Admins -> [at : {"idle", "queue", "start", "clear"}, want : Request]]
  BY <1>2, GotoTypes
<1>4. QED
  BY <1>1, <1>3, NotConcerned

\* The one step that makes a cleanup possible is the click that pays for it.
LEMMA QueueKeeps == ASSUME IInv, NEW a \in Admins, QueueRequest(a) PROVE IInv'
<1>1. web[a].want \in Request
  BY DEF IInv
<1>2. /\ request' = web[a].want /\ run' = run /\ service' = service /\ cleanups' = cleanups
      /\ asked' = IF web[a].want = Cleanup THEN asked + 1 ELSE asked
  BY DEF QueueRequest
<1>3. web' \in [Admins -> [at : {"idle", "queue", "start", "clear"}, want : Request]]
  BY <1>1, GotoTypes DEF QueueRequest
<1>4. RunInv'
  BY <1>2 DEF RunInv, IInv
<1>5. Outstanding \in Nat /\ Outstanding' \in Nat
  BY DEF Outstanding, Count
<1>6. Outstanding' <= Outstanding + Count(web[a].want = Cleanup)
  BY <1>2 DEF Outstanding, Count
<1>7. asked' = asked + Count(web[a].want = Cleanup) /\ Count(web[a].want = Cleanup) \in Nat
  BY <1>2 DEF Count, IInv
<1>8. cleanups' + Outstanding' <= asked' /\ asked' \in Nat
  <2> DEFINE n == Count(web[a].want = Cleanup)
  <2>1. asked \in Nat /\ cleanups \in Nat /\ cleanups + Outstanding <= asked
    BY DEF IInv
  <2>2. n \in Nat /\ Outstanding' <= Outstanding + n /\ asked' = asked + n /\ cleanups' = cleanups
    BY <1>2, <1>6, <1>7
  <2> HIDE DEF n
  <2>3. cleanups + Outstanding' <= asked + n /\ asked + n \in Nat
    BY <1>5, <2>1, <2>2, MorePaid
  <2>4. QED
    BY <2>2, <2>3
<1>9. QED
  BY <1>1, <1>2, <1>3, <1>4, <1>8 DEF IInv

LEMMA StartKeeps ==
  ASSUME IInv, NEW a \in Admins, StartTask(a) \/ StartTaskFails(a) PROVE IInv'
<1>1. request' = request /\ run' = run /\ asked' = asked /\ cleanups' = cleanups
  BY DEF StartTask, StartTaskFails, history
<1>2. service' = service \/ (service = "idle" /\ service' = "read")
  BY DEF StartTask, StartTaskFails, StartUnit
<1>3. web[a].want \in Request
  BY DEF IInv
<1>4. web' = [web EXCEPT ![a] = Idle] \/ Goto(a, "clear", web[a].want)
  BY DEF StartTask, StartTaskFails
<1>5. web' \in [Admins -> [at : {"idle", "queue", "start", "clear"}, want : Request]]
  BY <1>3, <1>4, GotoTypes, WebTypes, IdleTypes
<1>6. QED
  BY <1>1, <1>2, <1>5, NotConcerned

LEMMA ClearKeeps == ASSUME IInv, NEW a \in Admins, ClearRequest(a) PROVE IInv'
<1>1. /\ request' = Normal /\ run' = run /\ asked' = asked /\ cleanups' = cleanups
      /\ service' = service /\ web' = [web EXCEPT ![a] = Idle]
  BY DEF ClearRequest, history
<1>2. web' \in [Admins -> [at : {"idle", "queue", "start", "clear"}, want : Request]]
  BY <1>1, WebTypes, IdleTypes
<1>3. Outstanding' <= Outstanding /\ Outstanding' \in Nat /\ Outstanding \in Nat
  BY <1>1, RequestModes DEF Outstanding, Count
<1>4. RunInv'
  BY <1>1 DEF RunInv, IInv
<1>5. cleanups' + Outstanding' <= asked'
  BY <1>1, <1>3, LessToPay DEF IInv
<1>6. QED
  BY <1>1, <1>2, <1>4, <1>5, RequestModes DEF IInv

\* Until the file is removed, the cleanup in it and the one read from it are one.
LEMMA ConsumeKeeps == ASSUME IInv, Consume PROVE IInv'
<1>1. asked' = asked /\ cleanups' = cleanups /\ web' = web
  BY DEF Consume, ReadRequest, UnlinkRequest, history
<1>2. request' \in Request /\ run' \in Request
  BY RequestModes DEF Consume, ReadRequest, UnlinkRequest, IInv
<1>3. Outstanding' <= Outstanding /\ Outstanding' \in Nat /\ Outstanding \in Nat
  <2>1. CASE ReadRequest
    BY <2>1, RequestModes DEF ReadRequest, Outstanding, Count, IInv, RunInv
  <2>2. CASE UnlinkRequest
    BY <2>2, RequestModes DEF UnlinkRequest, Outstanding, Count
  <2>3. QED
    BY <2>1, <2>2 DEF Consume
<1>4. RunInv'
  BY DEF Consume, ReadRequest, UnlinkRequest, RunInv
<1>5. cleanups' + Outstanding' <= asked'
  BY <1>1, <1>3, LessToPay DEF IInv
<1>6. QED
  BY <1>1, <1>2, <1>4, <1>5 DEF IInv

LEMMA CheckKeeps == ASSUME IInv, CheckStatus PROVE IInv'
<1>1. /\ request' = request /\ asked' = asked /\ cleanups' = cleanups /\ web' = web
      /\ service = "status"
  BY DEF CheckStatus
<1>2. CASE EndRun
  BY <1>1, <1>2, EndRunKeeps
<1>3. CASE service' = run.mode /\ run' = run
  <2>1. run \in Request /\ run' \in Request
    BY <1>3 DEF IInv
  <2>2. service' \in {"normal", "cleanup", "switch_branch"}
    BY <1>3, <2>1 DEF Request, Normal, Cleanup, Switch
  <2>3. service' = "cleanup" <=> run = Cleanup
    BY <1>3, <2>1, RequestModes
  <2>4. Outstanding' = Outstanding
    BY <1>1, <1>3, <2>2, <2>3 DEF Outstanding
  <2>5. RunInv'
    BY <1>3, <2>2, <2>3 DEF RunInv
  <2>6. QED
    BY <1>1, <2>1, <2>4, <2>5 DEF IInv
<1>4. QED
  BY <1>2, <1>3 DEF CheckStatus

\* A cleanup begins: it is no longer outstanding.
LEMMA ForceKeeps == ASSUME IInv, ForceUpdateNow PROVE IInv'
<1>1. request' = request /\ asked' = asked /\ web' = web /\ service = "cleanup" /\ run = Cleanup
  BY DEF ForceUpdateNow, IInv, RunInv
<1>2. CASE EndRun /\ cleanups' = cleanups
  BY <1>1, <1>2, EndRunKeeps
<1>3. CASE service' = "reset" /\ cleanups' = cleanups + 1 /\ run' = run
  <2>1. Outstanding = Outstanding' + 1 /\ Outstanding' \in Nat
    BY <1>1, <1>3 DEF Outstanding, Count
  <2>2. RunInv'
    BY <1>3 DEF RunInv
  <2>3. cleanups' + Outstanding' <= asked' /\ cleanups' \in Nat
    <3>1. asked \in Nat /\ cleanups \in Nat /\ cleanups + Outstanding <= asked
      BY DEF IInv
    <3>2. (cleanups + 1) + Outstanding' <= asked /\ cleanups + 1 \in Nat
      <4>1. Outstanding \in Nat
        BY DEF Outstanding, Count
      <4>2. QED
        BY <2>1, <3>1, <4>1, OneBegins
    <3>3. QED
      BY <1>1, <1>3, <3>2
  <2>4. asked' \in Nat /\ request' \in Request /\ run' \in Request
        /\ web' \in [Admins -> [at : {"idle", "queue", "start", "clear"}, want : Request]]
    BY <1>1, <1>3 DEF IInv
  <2>5. QED
    BY <2>2, <2>3, <2>4 DEF IInv
<1>4. QED
  BY <1>2, <1>3 DEF ForceUpdateNow

LEMMA ServiceKeeps == ASSUME IInv, Service PROVE IInv'
<1>1. CASE Consume \/ CheckStatus \/ ForceUpdateNow
  BY <1>1, ConsumeKeeps, CheckKeeps, ForceKeeps
<1>2. CASE UpdateNow \/ Reset \/ Clean \/ FetchForCleanup \/ SwitchBranchNow \/ CreateBranch
             \/ TrackBranch \/ Checkout \/ Pull
  <2>1. request' = request /\ asked' = asked /\ cleanups' = cleanups /\ web' = web
    BY <1>2 DEF UpdateNow, Reset, Clean, FetchForCleanup, SwitchBranchNow, CreateBranch,
       TrackBranch, Checkout, Pull, history
  <2>2. CASE EndRun
    BY <2>1, <2>2, EndRunKeeps
  <2>3. CASE ~EndRun
    <3>1. run' = run
      BY <1>2, <2>3 DEF UpdateNow, Reset, Clean, FetchForCleanup, SwitchBranchNow, CreateBranch,
         TrackBranch, Checkout, Pull
    <3>2. service \in {"normal", "reset", "clean", "fetch", "switch_branch", "create", "track",
                       "checkout", "pull"}
      BY <1>2 DEF UpdateNow, Reset, Clean, FetchForCleanup, SwitchBranchNow, CreateBranch,
         TrackBranch, Checkout, Pull
    <3>3. service' \in {"pull", "clean", "fetch", "create", "track", "checkout", "install"}
      BY <1>2, <2>3 DEF UpdateNow, Reset, Clean, FetchForCleanup, SwitchBranchNow, CreateBranch,
         TrackBranch, Checkout, Pull
    <3>4. web' \in [Admins -> [at : {"idle", "queue", "start", "clear"}, want : Request]]
      BY <2>1 DEF IInv
    <3>5. QED
      BY <2>1, <3>1, <3>2, <3>3, <3>4, NotConcerned
  <2>4. QED
    BY <2>2, <2>3
<1>3. CASE Install
  <2>1. EndRun /\ request' = request /\ asked' = asked /\ cleanups' = cleanups
        /\ web' = [a \in Admins |-> Idle]
    BY <1>3 DEF Install, history
  <2>2. QED
    BY <2>1, EndRunKeeps
<1>4. QED
  BY <1>1, <1>2, <1>3 DEF Service

\* A restart of the machine forgets what was asked for.
LEMMA RebootKeeps == ASSUME IInv, Reboot PROVE IInv'
<1>1. /\ request' = Normal /\ run' = Normal /\ service' = "idle" /\ asked' = asked
      /\ cleanups' = cleanups /\ web' = [a \in Admins |-> Idle]
  BY DEF Reboot, EndRun
<1>2. Outstanding' = 0 /\ Outstanding >= 0 /\ Outstanding \in Nat
  BY <1>1, RequestModes DEF Outstanding, Count
<1>3. RunInv'
  BY <1>1 DEF RunInv
<1>4. QED
  BY <1>1, <1>2, <1>3, IdleTypes, RequestModes DEF IInv

LEMMA OthersKeep ==
  ASSUME IInv, \/ Refresh \/ Summary \/ list_remote_branches \/ WebRestarts \/ TimerElapses
               \/ World \/ UNCHANGED vars
  PROVE  IInv'
<1>1. request' = request /\ run' = run /\ asked' = asked /\ cleanups' = cleanups
  BY DEF Refresh, Summary, list_remote_branches, WebRestarts, TimerElapses, World, DeleteBranch,
     Push, Edit, Commit, history, vars
<1>2. service' = service \/ (service = "idle" /\ service' = "read")
  BY DEF Refresh, Summary, list_remote_branches, WebRestarts, TimerElapses, StartUnit, World,
     DeleteBranch, Push, Edit, Commit, vars
<1>3. web' = web \/ web' = [a \in Admins |-> Idle]
  BY DEF Refresh, Summary, list_remote_branches, WebRestarts, TimerElapses, World, DeleteBranch,
     Push, Edit, Commit, vars
<1>4. web' \in [Admins -> [at : {"idle", "queue", "start", "clear"}, want : Request]]
  BY <1>3, IdleTypes DEF IInv
<1>5. QED
  BY <1>1, <1>2, <1>4, NotConcerned

LEMMA StepKeeps == ASSUME IInv, [Next]_vars PROVE IInv'
<1>1. ASSUME NEW a \in Admins, Page(a) PROVE IInv'
  BY <1>1, AskKeeps, QueueKeeps, StartKeeps, ClearKeeps DEF Page
<1>2. CASE RunFails
  <2>1. EndRun /\ request' = request /\ asked' = asked /\ cleanups' = cleanups /\ web' = web
    BY <1>2 DEF RunFails
  <2>2. QED
    BY <2>1, EndRunKeeps
<1>3. QED
  BY <1>1, <1>2, ServiceKeeps, RebootKeeps, OthersKeep DEF Next

LEMMA InitInv == ASSUME Init PROVE IInv
<1>1. request = Normal /\ run = Normal /\ service = "idle" /\ asked = 0 /\ cleanups = 0
      /\ web = [a \in Admins |-> Idle]
  BY DEF Init
<1>2. Outstanding = 0
  BY <1>1, RequestModes DEF Outstanding, Count
<1>3. RunInv
  BY <1>1 DEF RunInv
<1>4. QED
  BY <1>1, <1>2, <1>3, IdleTypes, RequestModes DEF IInv

LEMMA Invariant == Spec => []IInv
BY InitInv, StepKeeps, PTL DEF Spec

-----------------------------------------------------------------------------
(* The checkout: its types, and what it holds                              *)

SwitchStages == {"switch_branch", "create", "track", "checkout"}

Refs == [Branches -> Ref]

\* A branch is only made where there is none, and only taken where there is one.
CheckoutInv ==
  /\ remote \in Refs /\ origin \in Refs /\ local \in Refs
  /\ upstream \subseteq Branches /\ head \in Branches \cup {Pinned}
  /\ head # Pinned => local[head] # Gone
  /\ run \in Request
  /\ service \in SwitchStages => run.mode = "switch_branch"
  /\ service = "create" => local[run.branch] = Gone
  /\ service \in {"track", "checkout"} => local[run.branch] # Gone

LEMMA Refs1 ==
  /\ Gone \notin Commits /\ Ref = {Gone} \cup Commits /\ {} \in Commits
  /\ \A A, B \in Commits : A \cup B \in Commits
  /\ \A A \in Commits : \A c \in Changes \cup Own : A \cup {c} \in Commits
  /\ Pinned \notin Branches /\ Main \in Branches
BY AppUpdatesAssumption DEF Ref, Commits

LEMMA SwitchBranch ==
  ASSUME NEW r \in Request, r.mode = "switch_branch" PROVE r.branch \in Branches
BY DEF Request, Normal, Cleanup, Switch

LEMMA InitCheckout == ASSUME Init PROVE CheckoutInv
<1>1. remote \in Refs /\ origin \in Refs /\ local \in Refs
  BY Refs1 DEF Init, Refs
<1>2. upstream \subseteq Branches /\ head \in Branches \cup {Pinned}
  BY Refs1 DEF Init
<1>3. head # Pinned => local[head] # Gone
  <2>1. SUFFICES ASSUME head # Pinned PROVE local[head] = {}
    BY Refs1
  <2>2. QED
    BY <2>1, <1>2 DEF Init
<1>4. QED
  BY <1>1, <1>2, <1>3, RequestModes DEF CheckoutInv, Init, SwitchStages

\* A step that leaves the checkout alone and comes to no step of a switch.
LEMMA CheckoutFrame ==
  ASSUME CheckoutInv, remote' \in Refs, origin' \in Refs, UNCHANGED <<local, upstream, head>>,
         run' \in Request,
         (service' = service /\ run' = run) \/ service' \notin SwitchStages
  PROVE  CheckoutInv'
BY DEF CheckoutInv, SwitchStages

LEMMA EndRunFrame ==
  ASSUME CheckoutInv, EndRun, remote' \in Refs, origin' \in Refs, UNCHANGED <<local, upstream, head>>
  PROVE  CheckoutInv'
BY CheckoutFrame, RequestModes DEF EndRun, SwitchStages

LEMMA CheckRemoteTypes ==
  ASSUME CheckoutInv, CheckRemote PROVE origin' \in Refs
BY DEF CheckRemote, Fetch, CheckoutInv

LEMMA PageCheckout == ASSUME CheckoutInv, NEW a \in Admins, Page(a) PROVE CheckoutInv'
<1>1. remote' = remote /\ run' = run /\ UNCHANGED <<local, upstream, head>>
  BY DEF Page, AskUpdate, AskCleanup, AskSwitch, QueueRequest, StartTask, StartTaskFails,
     ClearRequest, checkout
<1>2. origin' \in Refs
  BY DEF Page, AskUpdate, AskCleanup, AskSwitch, QueueRequest, StartTask, StartTaskFails,
     ClearRequest, Fetch, CheckoutInv
<1>3. service' = service \/ service' = "read"
  BY DEF Page, AskUpdate, AskCleanup, AskSwitch, QueueRequest, StartTask, StartTaskFails,
     ClearRequest, StartUnit
<1>4. QED
  BY <1>1, <1>2, <1>3, CheckoutFrame DEF CheckoutInv, SwitchStages

LEMMA RunCheckout ==
  ASSUME CheckoutInv, request \in Request,
         \/ Consume \/ CheckStatus \/ UpdateNow \/ ForceUpdateNow \/ Reset \/ Clean
         \/ FetchForCleanup \/ Install
  PROVE  CheckoutInv'
<1>1. remote' = remote /\ UNCHANGED <<local, upstream, head>>
  BY DEF Consume, ReadRequest, UnlinkRequest, CheckStatus, UpdateNow, ForceUpdateNow, Reset,
     Clean, FetchForCleanup, Install, checkout
<1>2. origin' \in Refs
  BY CheckRemoteTypes DEF Consume, ReadRequest, UnlinkRequest, CheckStatus, UpdateNow,
     ForceUpdateNow, Reset, Clean, FetchForCleanup, Install, Fetch, CheckoutInv
<1>3. CASE EndRun
  BY <1>1, <1>2, <1>3, EndRunFrame DEF CheckoutInv
<1>4. CASE service' = run.mode /\ run' = run
  <2>1. run.mode \in {"normal", "cleanup", "switch_branch"}
    BY DEF CheckoutInv, Request, Normal, Cleanup, Switch
  <2>2. QED
    BY <1>1, <1>2, <1>4, <2>1 DEF CheckoutInv, SwitchStages
<1>5. CASE run' \in {run, request} /\ service' \notin SwitchStages
  BY <1>1, <1>2, <1>5, CheckoutFrame DEF CheckoutInv
<1>6. QED
  BY <1>3, <1>4, <1>5 DEF Consume, ReadRequest, UnlinkRequest, CheckStatus, UpdateNow,
     ForceUpdateNow, Reset, Clean, FetchForCleanup, Install, SwitchStages

LEMMA SwitchCheckout ==
  ASSUME CheckoutInv, SwitchBranchNow \/ CreateBranch \/ TrackBranch \/ Checkout
  PROVE  CheckoutInv'
<1> DEFINE b == run.branch
<1>1. service \in SwitchStages
  BY DEF SwitchBranchNow, CreateBranch, TrackBranch, Checkout, SwitchStages
<1>2. run.mode = "switch_branch" /\ b \in Branches
  BY <1>1, SwitchBranch DEF CheckoutInv
<1>3. remote' = remote /\ origin' \in Refs
  BY DEF SwitchBranchNow, CreateBranch, TrackBranch, Checkout, Fetch, CheckoutInv
<1>4. CASE EndRun /\ UNCHANGED <<local, upstream, head>>
  BY <1>3, <1>4, EndRunFrame DEF CheckoutInv
<1>5. CASE SwitchBranchNow /\ ~EndRun
  <2>1. /\ run' = run /\ UNCHANGED <<local, upstream, head>>
        /\ service' = IF local[b] = Gone THEN "create" ELSE "track"
    BY <1>5 DEF SwitchBranchNow, checkout
  <2>2. QED
    BY <1>2, <1>3, <2>1 DEF CheckoutInv, SwitchStages
<1>6. CASE CreateBranch /\ ~EndRun
  <2>1. /\ local' = [local EXCEPT ![b] = origin[b]] /\ upstream' = upstream \cup {b}
        /\ head' = b /\ service' = "pull" /\ run' = run /\ origin[b] # Gone
    BY <1>6 DEF CreateBranch
  <2>2. local' \in Refs /\ local'[b] = origin[b]
    BY <1>2, <2>1 DEF CheckoutInv, Refs
  <2>3. QED
    BY <1>2, <1>3, <2>1, <2>2 DEF CheckoutInv, SwitchStages
<1>7. CASE TrackBranch /\ ~EndRun
  <2>1. /\ UNCHANGED <<local, head>> /\ upstream' = upstream \cup {b}
        /\ service = "track" /\ service' = "checkout" /\ run' = run
    BY <1>7 DEF TrackBranch
  <2>2. QED
    BY <1>2, <1>3, <2>1 DEF CheckoutInv, SwitchStages
<1>8. CASE Checkout
  <2>1. /\ UNCHANGED <<local, upstream>> /\ head' = b
        /\ service = "checkout" /\ service' = "pull" /\ run' = run
    BY <1>8 DEF Checkout
  <2>2. QED
    BY <1>2, <1>3, <2>1 DEF CheckoutInv, SwitchStages
<1>9. CASE (SwitchBranchNow \/ CreateBranch \/ TrackBranch) /\ EndRun
  <2>1. UNCHANGED <<local, upstream, head>>
    BY <1>9 DEF SwitchBranchNow, CreateBranch, TrackBranch, EndRun, checkout
  <2>2. QED
    BY <1>4, <1>9, <2>1
<1>10. QED
  BY <1>5, <1>6, <1>7, <1>8, <1>9

\* What is pulled is added to the branch that is checked out.
LEMMA PullAdds ==
  ASSUME CheckoutInv, Pull, local' # local
  PROVE  /\ head \in Branches /\ local[head] \in Commits /\ remote[head] \in Commits
         /\ local' = [local EXCEPT ![head] = local[head] \cup remote[head]]
<1>1. FastForwards /\ local' = [local EXCEPT ![head] = local[head] \cup remote[head]]
  BY DEF Pull
<1>2. head \in Branches /\ remote[head] # Gone
  BY <1>1 DEF FastForwards, CheckoutInv
<1>3. head # Pinned /\ local[head] # Gone
  BY <1>2, Refs1 DEF CheckoutInv
<1>4. local[head] \in Commits /\ remote[head] \in Commits
  BY <1>2, <1>3, Refs1 DEF CheckoutInv, Refs
<1>5. QED
  BY <1>1, <1>2, <1>4

LEMMA PullCheckout == ASSUME CheckoutInv, Pull PROVE CheckoutInv'
<1>1. /\ remote' = remote /\ origin' \in Refs /\ UNCHANGED <<upstream, head>>
      /\ service' \notin SwitchStages
  BY DEF Pull, Fetch, EndRun, CheckoutInv, SwitchStages
<1>2. run' \in Request
  BY RequestModes DEF Pull, EndRun, CheckoutInv
<1>3. CASE local' = local
  BY <1>1, <1>2, <1>3, CheckoutFrame DEF CheckoutInv
<1>4. CASE local' # local
  <2>1. /\ head \in Branches
        /\ local' = [local EXCEPT ![head] = local[head] \cup remote[head]]
        /\ local[head] \cup remote[head] \in Commits
    BY <1>4, PullAdds, Refs1
  <2>2. local' \in Refs /\ local'[head] # Gone
    BY <2>1, Refs1 DEF CheckoutInv, Refs
  <2>3. QED
    BY <1>1, <1>2, <2>2 DEF CheckoutInv, SwitchStages
<1>5. QED
  BY <1>3, <1>4

LEMMA CommitAdds ==
  ASSUME CheckoutInv, NEW c \in Own, Commit(c)
  PROVE  /\ head \in Branches /\ local[head] \in Commits
         /\ local' = [local EXCEPT ![head] = local[head] \cup {c}]
<1>1. head # Pinned /\ local' = [local EXCEPT ![head] = local[head] \cup {c}]
  BY DEF Commit
<1>2. head \in Branches /\ local[head] # Gone
  BY <1>1 DEF CheckoutInv
<1>3. local[head] \in Commits
  BY <1>2, Refs1 DEF CheckoutInv, Refs
<1>4. QED
  BY <1>1, <1>2, <1>3

LEMMA WorldCheckout == ASSUME CheckoutInv, World PROVE CheckoutInv'
<1>1. origin' = origin /\ run' = run /\ service' = service /\ UNCHANGED <<upstream, head>>
  BY DEF World, DeleteBranch, Push, Edit, Commit, checkout
<1>2. ASSUME NEW b \in Branches, DeleteBranch(b) PROVE CheckoutInv'
  <2>1. remote' \in Refs /\ local' = local
    BY <1>2, Refs1 DEF DeleteBranch, CheckoutInv, Refs, checkout
  <2>2. QED
    BY <1>1, <2>1, CheckoutFrame DEF CheckoutInv
<1>3. ASSUME NEW b \in Branches, NEW c \in Changes, Push(b, c) PROVE CheckoutInv'
  <2>1. remote[b] \in Commits
    BY <1>3, Refs1 DEF Push, CheckoutInv, Refs
  <2>2. remote[b] \cup {c} \in Commits
    BY <2>1, Refs1
  <2>3. remote' \in Refs /\ local' = local
    BY <1>3, <2>2, Refs1 DEF Push, CheckoutInv, Refs, checkout
  <2>4. QED
    BY <1>1, <2>3, CheckoutFrame DEF CheckoutInv
<1>4. ASSUME NEW kind, Edit(kind) PROVE CheckoutInv'
  <2>1. remote' = remote /\ local' = local
    BY <1>4 DEF Edit
  <2>2. QED
    BY <1>1, <2>1, CheckoutFrame DEF CheckoutInv
<1>5. ASSUME NEW c \in Own, Commit(c) PROVE CheckoutInv'
  <2>1. /\ head \in Branches /\ local[head] \cup {c} \in Commits /\ local[head] # Gone
        /\ local' = [local EXCEPT ![head] = local[head] \cup {c}]
    BY <1>5, CommitAdds, Refs1
  <2>2. local' \in Refs /\ local'[head] # Gone /\ \A b \in Branches \ {head} : local'[b] = local[b]
    BY <2>1, Refs1 DEF CheckoutInv, Refs
  <2>3. service \in {"create", "track", "checkout"} => run.branch \in Branches
    BY SwitchBranch DEF CheckoutInv, SwitchStages
  <2>4. /\ service' = "create" => local'[run'.branch] = Gone
        /\ service' \in {"track", "checkout"} => local'[run'.branch] # Gone
    BY <1>1, <2>1, <2>2, <2>3 DEF CheckoutInv
  <2>5. remote' = remote
    BY <1>5 DEF Commit
  <2>6. QED
    BY <1>1, <2>2, <2>4, <2>5 DEF CheckoutInv
<1>6. QED
  BY <1>2, <1>3, <1>4, <1>5 DEF World

LEMMA OtherCheckout ==
  ASSUME CheckoutInv, \/ Refresh \/ Summary \/ list_remote_branches \/ WebRestarts
                      \/ TimerElapses \/ RunFails \/ Reboot \/ UNCHANGED vars
  PROVE  CheckoutInv'
<1>1. remote' = remote /\ UNCHANGED <<local, upstream, head>>
  BY DEF Refresh, Summary, list_remote_branches, WebRestarts, TimerElapses, RunFails, Reboot,
     checkout, vars
<1>2. origin' \in Refs
  BY CheckRemoteTypes DEF Refresh, Summary, list_remote_branches, WebRestarts, TimerElapses,
     RunFails, Reboot, Fetch, CheckoutInv, vars
<1>3. (service' = service /\ run' = run) \/ (service' = "read" /\ run' = run) \/ EndRun
  BY DEF Refresh, Summary, list_remote_branches, WebRestarts, TimerElapses, StartUnit, RunFails,
     Reboot, vars
<1>4. QED
  BY <1>1, <1>2, <1>3, CheckoutFrame, EndRunFrame DEF CheckoutInv, SwitchStages

LEMMA StepCheckout == ASSUME IInv, CheckoutInv, [Next]_vars PROVE CheckoutInv'
<1>1. request \in Request
  BY DEF IInv
<1>2. CASE Service
  BY <1>1, <1>2, RunCheckout, SwitchCheckout, PullCheckout DEF Service
<1>3. ASSUME NEW a \in Admins, Page(a) PROVE CheckoutInv'
  BY <1>3, PageCheckout
<1>4. QED
  BY <1>2, <1>3, WorldCheckout, OtherCheckout DEF Next

-----------------------------------------------------------------------------
(* The cache, the working tree and the bounds                              *)

Stages == {"idle", "read", "unlink", "status", "normal", "cleanup", "reset", "clean", "fetch",
           "switch_branch", "create", "track", "checkout", "pull", "install"}

StatusInv ==
  /\ dirty \subseteq {"changed", "extra"} /\ installed \in Commits
  /\ cache.commit \in Commits /\ cache.status \in Counted \cup {"none"}
  /\ service \in Stages
  /\ faults \in 0..MaxFaults

LEMMA HeadIsCommit == ASSUME CheckoutInv PROVE HeadCommit \in Commits
BY Refs1 DEF CheckoutInv, HeadCommit, Refs

LEMMA NoCacheTypes == NoCache.commit \in Commits /\ NoCache.status \in Counted \cup {"none"}
BY Refs1 DEF NoCache

LEMMA FaultTypes == ASSUME StatusInv, Fault \/ UNCHANGED faults PROVE faults' \in 0..MaxFaults
BY AppUpdatesAssumption DEF StatusInv, Fault

LEMMA ReadTypes ==
  ASSUME StatusInv, ReadStatus
  PROVE  cache'.commit \in Commits /\ cache'.status \in Counted \cup {"none"}
BY NoCacheTypes DEF StatusInv, ReadStatus

LEMMA CheckTypes ==
  ASSUME CheckoutInv, StatusInv, CheckRemote
  PROVE  /\ cache'.commit \in Commits /\ cache'.status \in Counted \cup {"none"}
         /\ faults' \in 0..MaxFaults
<1>1. faults' \in 0..MaxFaults
  BY FaultTypes DEF CheckRemote
<1>2. CASE cache' = NoCache
  BY <1>1, <1>2, NoCacheTypes
<1>3. CASE ~Blocked /\ cache' = Counts(local[head], remote[head])
  <2>1. head # Pinned
    BY <1>3 DEF Blocked, BaseStatus
  <2>2. local[head] \in Commits
    BY <2>1, Refs1 DEF CheckoutInv, Refs
  <2>3. CountedStatus(local[head], remote[head]) \in Counted
    BY DEF CountedStatus, Counted
  <2>4. QED
    BY <1>1, <1>3, <2>2, <2>3 DEF Counts
<1>4. QED
  BY <1>2, <1>3 DEF CheckRemote

LEMMA PageStatus == ASSUME CheckoutInv, StatusInv, NEW a \in Admins, Page(a) PROVE StatusInv'
<1>1. dirty' = dirty /\ installed' = installed
  BY DEF Page, AskUpdate, AskCleanup, AskSwitch, QueueRequest, StartTask, StartTaskFails,
     ClearRequest, checkout
<1>2. ReadStatus \/ cache' = cache
  BY DEF Page, AskUpdate, AskCleanup, AskSwitch, Ask, QueueRequest, StartTask, StartTaskFails,
     ClearRequest
<1>3. Fault \/ UNCHANGED faults
  BY DEF Page, AskUpdate, AskCleanup, AskSwitch, QueueRequest, StartTask, StartTaskFails,
     ClearRequest, history
<1>4. service' = service \/ service' = "read"
  BY DEF Page, AskUpdate, AskCleanup, AskSwitch, QueueRequest, StartTask, StartTaskFails,
     ClearRequest, StartUnit
<1>5. QED
  BY <1>1, <1>2, <1>3, <1>4, ReadTypes, FaultTypes DEF StatusInv, Stages

LEMMA ServiceStatus == ASSUME CheckoutInv, StatusInv, Service PROVE StatusInv'
<1>1. dirty' \subseteq dirty
  BY DEF Service, Consume, ReadRequest, UnlinkRequest, CheckStatus, UpdateNow, ForceUpdateNow,
     Reset, Clean, FetchForCleanup, SwitchBranchNow, CreateBranch, TrackBranch, Checkout, Pull,
     Install, checkout
<1>2. installed' = installed \/ installed' = HeadCommit
  BY DEF Service, Consume, ReadRequest, UnlinkRequest, CheckStatus, UpdateNow, ForceUpdateNow,
     Reset, Clean, FetchForCleanup, SwitchBranchNow, CreateBranch, TrackBranch, Checkout, Pull,
     Install
<1>3. CheckRemote \/ (ReadStatus /\ UNCHANGED faults) \/ UNCHANGED <<cache, faults>>
  BY DEF Service, Consume, ReadRequest, UnlinkRequest, CheckStatus, UpdateNow, ForceUpdateNow,
     Reset, Clean, FetchForCleanup, SwitchBranchNow, CreateBranch, TrackBranch, Checkout, Pull,
     Install, history
<1>4. service' \in Stages \/ service' = run.mode
  BY DEF Service, Consume, ReadRequest, UnlinkRequest, CheckStatus, UpdateNow, ForceUpdateNow,
     Reset, Clean, FetchForCleanup, SwitchBranchNow, CreateBranch, TrackBranch, Checkout, Pull,
     Install, EndRun, Stages
<1>5. run.mode \in Stages
  BY DEF CheckoutInv, Request, Normal, Cleanup, Switch, Stages
<1>6. QED
  BY <1>1, <1>2, <1>3, <1>4, <1>5, HeadIsCommit, CheckTypes, ReadTypes, FaultTypes DEF StatusInv

LEMMA OtherStatus ==
  ASSUME CheckoutInv, StatusInv,
         \/ Refresh \/ Summary \/ list_remote_branches \/ WebRestarts \/ TimerElapses \/ RunFails
         \/ Reboot \/ World \/ UNCHANGED vars
  PROVE  StatusInv'
<1>1. dirty' \subseteq {"changed", "extra"} /\ installed' = installed
  BY DEF Refresh, Summary, list_remote_branches, WebRestarts, TimerElapses, RunFails, Reboot, World,
     DeleteBranch, Push, Edit, Commit, checkout, vars, StatusInv
<1>2. \/ CheckRemote \/ (ReadStatus /\ UNCHANGED faults)
      \/ (cache' = cache \/ cache' = NoCache) /\ (Fault \/ UNCHANGED faults)
  BY DEF Refresh, Summary, list_remote_branches, WebRestarts, TimerElapses, RunFails, Reboot, World,
     DeleteBranch, Push, Edit, Commit, history, vars
<1>3. service' = service \/ service' = "read" \/ service' = "idle"
  BY DEF Refresh, Summary, list_remote_branches, WebRestarts, TimerElapses, StartUnit, RunFails,
     Reboot, EndRun, World, DeleteBranch, Push, Edit, Commit, vars
<1>4. QED
  BY <1>1, <1>2, <1>3, CheckTypes, ReadTypes, NoCacheTypes, FaultTypes DEF StatusInv, Stages

LEMMA StepStatus == ASSUME CheckoutInv, StatusInv, [Next]_vars PROVE StatusInv'
BY PageStatus, ServiceStatus, OtherStatus DEF Next

-----------------------------------------------------------------------------
(* Cleanups are asked for by requests                                      *)

Queued == {a \in Admins : web[a].at = "queue"}

\* A cleanup counts as asked for when it is queued: a request that has been made and
\* is not queued yet is still to be counted.
QueueInv ==
  /\ IsFiniteSet(Queued)
  /\ requests \in 0..MaxRequests
  /\ asked \in Nat /\ asked + Cardinality(Queued) <= requests

LEMMA QueueSize == ASSUME IsFiniteSet(Queued) PROVE Cardinality(Queued) \in Nat
BY FS_CardinalityType

LEMMA QueueFrame ==
  ASSUME QueueInv, asked' = asked, requests' = requests,
         Queued' = Queued \/ Queued' = {}
  PROVE  QueueInv'
<1>1. IsFiniteSet(Queued') /\ Cardinality(Queued') <= Cardinality(Queued)
      /\ Cardinality(Queued') \in Nat
  BY FS_EmptySet, QueueSize DEF QueueInv
<1>2. QED
  BY <1>1, QueueSize DEF QueueInv

LEMMA AskQueue ==
  ASSUME IInv, QueueInv, NEW a \in Admins,
         AskUpdate(a) \/ AskCleanup(a) \/ \E b \in Branches : AskSwitch(a, b)
  PROVE  QueueInv'
<1>1. /\ web[a].at = "idle" /\ requests' = requests + 1 /\ requests < MaxRequests /\ asked' = asked
      /\ \E want \in Request : Goto(a, "start", want) \/ Goto(a, "queue", want)
  BY RequestModes DEF AskUpdate, AskCleanup, AskSwitch, Ask, Idle
<1>2. requests' \in 0..MaxRequests
  BY <1>1, AppUpdatesAssumption DEF QueueInv
<1>3. a \notin Queued
  BY <1>1 DEF Queued
<1>4. Queued' = Queued \/ Queued' = Queued \cup {a}
  BY <1>1 DEF Queued, Goto, IInv
<1>5. /\ IsFiniteSet(Queued \cup {a}) /\ Cardinality(Queued \cup {a}) = Cardinality(Queued) + 1
      /\ Cardinality(Queued) \in Nat
  BY <1>3, FS_AddElement, QueueSize DEF QueueInv
<1>6. IsFiniteSet(Queued') /\ Cardinality(Queued') <= Cardinality(Queued) + 1
      /\ Cardinality(Queued') \in Nat
  <2>1. CASE Queued' = Queued
    BY <1>5, <2>1 DEF QueueInv
  <2>2. CASE Queued' = Queued \cup {a}
    <3>1. Cardinality(Queued \cup {a}) <= Cardinality(Queued) + 1
          /\ Cardinality(Queued \cup {a}) \in Nat
      BY <1>5
    <3>2. QED
      BY <1>5, <2>2, <3>1
  <2>3. QED
    BY <1>4, <2>1, <2>2
<1>7. asked' + Cardinality(Queued') <= requests'
  BY <1>1, <1>5, <1>6 DEF QueueInv
<1>8. QED
  BY <1>1, <1>2, <1>6, <1>7 DEF QueueInv

LEMMA QueueQueue == ASSUME IInv, QueueInv, NEW a \in Admins, QueueRequest(a) PROVE QueueInv'
<1>1. /\ web[a].at = "queue" /\ requests' = requests /\ asked' \in {asked, asked + 1}
      /\ Goto(a, "start", web[a].want)
  BY DEF QueueRequest
<1>2. Queued' = Queued \ {a} /\ a \in Queued
  BY <1>1 DEF Queued, Goto, IInv
<1>3. /\ IsFiniteSet(Queued \ {a}) /\ Cardinality(Queued \ {a}) = Cardinality(Queued) - 1
      /\ Cardinality(Queued \ {a}) \in Nat /\ Cardinality(Queued) \in Nat
  BY <1>2, FS_RemoveElement, QueueSize, FS_CardinalityType DEF QueueInv
<1>4. QED
  BY <1>1, <1>2, <1>3 DEF QueueInv

LEMMA StartQueue ==
  ASSUME IInv, QueueInv, NEW a \in Admins, StartTask(a) \/ StartTaskFails(a) \/ ClearRequest(a)
  PROVE  QueueInv'
<1>1. /\ web[a].at # "queue" /\ requests' = requests /\ asked' = asked
      /\ web' = [web EXCEPT ![a] = Idle] \/ Goto(a, "clear", web[a].want)
  BY DEF StartTask, StartTaskFails, ClearRequest, history
<1>2. Queued' = Queued
  BY <1>1 DEF Queued, Goto, Idle, IInv
<1>3. QED
  BY <1>1, <1>2, QueueFrame

LEMMA OtherQueue ==
  ASSUME QueueInv,
         \/ Refresh \/ Summary \/ list_remote_branches \/ WebRestarts \/ TimerElapses \/ Service
         \/ RunFails \/ Reboot \/ World \/ UNCHANGED vars
  PROVE  QueueInv'
<1>1. asked' = asked /\ requests' = requests /\ (web' = web \/ web' = [a \in Admins |-> Idle])
  BY DEF Refresh, Summary, list_remote_branches, WebRestarts, TimerElapses, Service, Consume,
     ReadRequest, UnlinkRequest, CheckStatus, UpdateNow, ForceUpdateNow, Reset, Clean,
     FetchForCleanup, SwitchBranchNow, CreateBranch, TrackBranch, Checkout, Pull, Install, RunFails,
     Reboot, World, DeleteBranch, Push, Edit, Commit, history, vars
<1>2. Queued' = Queued \/ Queued' = {}
  BY <1>1 DEF Queued, Idle
<1>3. QED
  BY <1>1, <1>2, QueueFrame

LEMMA StepQueue == ASSUME IInv, QueueInv, [Next]_vars PROVE QueueInv'
<1>1. ASSUME NEW a \in Admins, Page(a) PROVE QueueInv'
  BY <1>1, AskQueue, QueueQueue, StartQueue DEF Page
<1>2. QED
  BY <1>1, OtherQueue DEF Next

-----------------------------------------------------------------------------
(* All together                                                            *)

FullInv == IInv /\ CheckoutInv /\ StatusInv /\ QueueInv

LEMMA InitFull == ASSUME Init PROVE FullInv
<1>1. StatusInv
  BY NoCacheTypes, Refs1, AppUpdatesAssumption DEF Init, StatusInv, Stages
<1>2. QueueInv
  <2>1. Queued = {}
    BY DEF Init, Queued, Idle
  <2>2. asked = 0 /\ requests = 0
    BY DEF Init
  <2>3. QED
    BY <2>1, <2>2, FS_EmptySet, AppUpdatesAssumption DEF QueueInv
<1>3. QED
  BY <1>1, <1>2, InitInv, InitCheckout DEF FullInv

LEMMA StepFull == ASSUME FullInv, [Next]_vars PROVE FullInv'
BY StepKeeps, StepCheckout, StepStatus, StepQueue DEF FullInv

LEMMA FullInvariant == Spec => []FullInv
BY InitFull, StepFull, PTL DEF Spec

-----------------------------------------------------------------------------
(* Theorems                                                                *)

\* However runs are killed, started again or overtaken by other requests, there are
\* never more cleanups than clicks that asked for one.
THEOREM CleanupsAreAskedFor == Spec => []OncePerRequest
<1>1. ASSUME IInv PROVE OncePerRequest
  <2>1. Outstanding \in Nat
    BY DEF Outstanding, Count
  <2>2. QED
    BY <1>1, <2>1 DEF IInv, OncePerRequest
<1>2. QED
  BY <1>1, Invariant, PTL

\* Everything keeps its type, and no more cleanups are asked for than requests made.
THEOREM TypeCorrect == Spec => []TypeOK
<1>1. ASSUME FullInv PROVE TypeOK
  <2>1. Cardinality(Queued) \in Nat /\ asked \in Nat /\ requests \in 0..MaxRequests
        /\ asked + Cardinality(Queued) <= requests
    BY <1>1, QueueSize DEF FullInv, QueueInv
  <2>2. asked \in 0..MaxRequests
    BY <2>1, AppUpdatesAssumption
  <2>3. cleanups \in 0..MaxRequests
    <3>1. Outstanding \in Nat
      BY DEF Outstanding, Count
    <3>2. cleanups \in Nat /\ cleanups + Outstanding <= asked
      BY <1>1 DEF FullInv, IInv
    <3>3. QED
      BY <2>2, <3>1, <3>2, AppUpdatesAssumption
  <2>4. QED
    BY <1>1, <2>1, <2>2, <2>3 DEF FullInv, IInv, CheckoutInv, StatusInv, Refs, Stages, TypeOK
<1>2. QED
  BY <1>1, FullInvariant, PTL

Survive ==
  \A b \in Branches : local[b] # Gone => local'[b] # Gone /\ local[b] \subseteq local'[b]

\* No branch of the checkout is removed or loses a commit: a branch is made only where
\* there was none, and whatever else is written to one is added to it.
THEOREM BranchesKeepTheirCommits == Spec => CommitsSurvive
<1>1. ASSUME FullInv, [Next]_vars PROVE [Survive]_vars
  <2>1. SUFFICES ASSUME NEW b \in Branches, local[b] # Gone, local' # local
                 PROVE  local'[b] # Gone /\ local[b] \subseteq local'[b]
    BY DEF Survive
  <2>2. CreateBranch \/ Pull \/ \E c \in Own : Commit(c)
    BY <1>1, <2>1 DEF Next, Page, AskUpdate, AskCleanup, AskSwitch, QueueRequest, StartTask,
       StartTaskFails, ClearRequest, Refresh, Summary, list_remote_branches, WebRestarts,
       TimerElapses, Service, Consume, ReadRequest, UnlinkRequest, CheckStatus, UpdateNow,
       ForceUpdateNow, Reset, Clean, FetchForCleanup, SwitchBranchNow, TrackBranch, Checkout,
       Install, RunFails, Reboot, World, DeleteBranch, Push, Edit, checkout, vars
  <2>3. CheckoutInv /\ local[b] \in Commits
    BY <1>1, <2>1, Refs1 DEF FullInv, CheckoutInv, Refs
  <2>4. CASE CreateBranch
    <3>1. local' = [local EXCEPT ![run.branch] = origin[run.branch]] /\ local[run.branch] = Gone
      BY <2>1, <2>3, <2>4 DEF CreateBranch, CheckoutInv, checkout
    <3>2. local'[b] = local[b]
      BY <2>1, <2>3, <3>1 DEF CheckoutInv, Refs
    <3>3. QED
      BY <2>1, <3>2
  <2>5. CASE Pull
    <3>1. /\ head \in Branches /\ local[head] \cup remote[head] \in Commits
          /\ local' = [local EXCEPT ![head] = local[head] \cup remote[head]]
      BY <2>1, <2>3, <2>5, PullAdds, Refs1
    <3>2. QED
      BY <2>1, <2>3, <3>1, Refs1 DEF CheckoutInv, Refs
  <2>6. ASSUME NEW c \in Own, Commit(c) PROVE local'[b] # Gone /\ local[b] \subseteq local'[b]
    <3>1. /\ head \in Branches /\ local[head] \cup {c} \in Commits
          /\ local' = [local EXCEPT ![head] = local[head] \cup {c}]
      BY <2>3, <2>6, CommitAdds, Refs1
    <3>2. QED
      BY <2>1, <2>3, <3>1, Refs1 DEF CheckoutInv, Refs
  <2>7. QED
    BY <2>2, <2>4, <2>5, <2>6
<1>2. QED
  BY <1>1, FullInvariant, PTL DEF Spec, CommitsSurvive, Survive

=============================================================================
