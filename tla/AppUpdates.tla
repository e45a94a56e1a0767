------------------------------- MODULE AppUpdates -------------------------------
(***************************************************************************)
(* AppUpdateManager: the application updates itself from a Git branch.     *)
(*                                                                         *)
(* The web process only looks at the checkout, leaves a request in a file  *)
(* and starts app_update.service, which a timer starts as well.  The       *)
(* service takes the request, runs Git commands and then install.sh.  A    *)
(* branch is the set of changes it holds, so that "behind", "ahead" and    *)
(* "fast forward" are comparisons of sets.                                 *)
(***************************************************************************)
EXTENDS Naturals

CONSTANTS
    Admins,      \* the request threads
    Branches,    \* the branches of the origin
    Main,        \* the branch it was installed from
    Changes,     \* the commits pushed to the origin after the first installation
    Own,         \* the commits made in the checkout itself
    Gone,        \* no such branch
    Pinned,      \* the checkout is at a tag or a commit
    MaxRequests, \* bound: updates, cleanups and switches asked for
    MaxFaults    \* bound: commands that fail, kills, restarts, deleted branches

ASSUME AppUpdatesAssumption ==
    /\ (\A C \in SUBSET (Changes \cup Own) : Gone # C) /\ Main \in Branches /\ Pinned \notin Branches
    /\ MaxRequests \in Nat /\ MaxFaults \in Nat

VARIABLES
    remote,    \* the origin, at GitHub
    origin,    \* refs/remotes/origin, as last fetched
    local,     \* the branches of the checkout
    upstream,  \* the branches that track the one of the same name
    head,      \* the branch that is checked out, or Pinned
    dirty,     \* files that were changed, files that are extra
    installed, \* the changes install.sh last finished with
    cache,     \* app_update_status.json
    request,   \* app_update_request.json
    service,   \* where app_update.service is
    run,       \* the request it has read
    web,       \* where each request thread is, and the request it is making
    asked, cleanups, \* history: cleanups asked for, cleanups begun
    requests, faults

checkout == <<local, upstream, head, dirty>>
history == <<asked, cleanups, requests, faults>>
vars == <<remote, origin, checkout, installed, cache, request, service, run, web, history>>

Normal == [mode |-> "normal"]
Cleanup == [mode |-> "cleanup"]
Switch(b) == [mode |-> "switch_branch", branch |-> b]
Request == {Normal, Cleanup} \cup {Switch(b) : b \in Branches}

Commits == SUBSET (Changes \cup Own)
Ref == {Gone} \cup Commits

Counted == {"behind", "up_to_date", "ahead", "diverged"}

Idle == [at |-> "idle", want |-> Normal]
Fault == faults < MaxFaults /\ faults' = faults + 1

-----------------------------------------------------------------------------
(* get_status                                                              *)

\* A checkout that is pinned is at the commit of the first installation.
HeadCommit == IF head = Pinned THEN {} ELSE local[head]
HasUpstream == head \in upstream /\ origin[head] # Gone

BaseStatus ==
    IF dirty # {} THEN "dirty"
    ELSE IF head = Pinned THEN "pinned"
    ELSE IF ~HasUpstream THEN "unavailable"
    ELSE "unchecked"

Blocked == BaseStatus # "unchecked"

CountedStatus(mine, theirs) ==
    CASE mine \ theirs # {} /\ theirs \ mine # {} -> "diverged"
      [] mine \ theirs # {} /\ theirs \ mine = {} -> "ahead"
      [] mine \ theirs = {} /\ theirs \ mine # {} -> "behind"
      [] OTHER -> "up_to_date"

\* Only counts are ever read back from the cache.
NoCache == [commit |-> {}, status |-> "none"]
Counts(mine, theirs) == [commit |-> mine, status |-> CountedStatus(mine, theirs)]

\* get_status without a fetch: the counts of the last check count as long as the
\* commit is the same.
CachedStatus ==
    IF ~Blocked /\ cache # NoCache /\ cache.commit = HeadCommit THEN cache.status
    ELSE BaseStatus

CanUpdate == CachedStatus = "behind"
CanForceUpdate == dirty # {} /\ HasUpstream

ReadStatus == cache' = IF Blocked THEN NoCache ELSE cache

\* git fetch --prune
Fetch == origin' = remote

\* get_status with a fetch, which may fail.
CheckRemote ==
    \/ /\ Blocked
       /\ cache' = NoCache
       /\ UNCHANGED <<origin, faults>>
    \/ /\ ~Blocked
       /\ Fetch
       /\ cache' = IF remote[head] = Gone THEN NoCache ELSE Counts(local[head], remote[head])
       /\ UNCHANGED faults
    \/ /\ ~Blocked
       /\ Fault
       /\ cache' = NoCache
       /\ UNCHANGED origin

Refresh ==
    /\ CheckRemote
    /\ UNCHANGED <<remote, checkout, installed, request, service, run, web, asked, cleanups,
                   requests>>

-----------------------------------------------------------------------------
(* The System Updates page                                                 *)

\* The page is opened, or an update is asked for that is not available.
Summary ==
    /\ ReadStatus
    /\ UNCHANGED <<remote, origin, checkout, installed, request, service, run, web, history>>

\* The branches to choose from are listed, or a switch is asked for to one that is gone.
list_remote_branches ==
    /\ Fetch
    /\ UNCHANGED <<remote, checkout, installed, cache, request, service, run, web, history>>

Goto(a, stage, want) == web' = [web EXCEPT ![a] = [at |-> stage, want |-> want]]

Ask(a) ==
    /\ web[a] = Idle
    /\ requests < MaxRequests /\ requests' = requests + 1
    /\ ReadStatus

AskUpdate(a) ==
    /\ CanUpdate
    /\ Ask(a)
    /\ Goto(a, "start", Normal)
    /\ UNCHANGED <<remote, origin, checkout, installed, request, service, run, asked, cleanups,
                   faults>>

AskCleanup(a) ==
    /\ CanForceUpdate
    /\ Ask(a)
    /\ Goto(a, "queue", Cleanup)
    /\ UNCHANGED <<remote, origin, checkout, installed, request, service, run, asked, cleanups,
                   faults>>

\* The list of branches is fetched to see whether the branch is still there.
AskSwitch(a, b) ==
    /\ dirty = {}
    /\ Ask(a)
    /\ Fetch
    /\ remote[b] # Gone
    /\ Goto(a, "queue", Switch(b))
    /\ UNCHANGED <<remote, checkout, installed, request, service, run, asked, cleanups, faults>>

QueueRequest(a) ==
    /\ web[a].at = "queue"
    /\ request' = web[a].want
    /\ asked' = IF web[a].want = Cleanup THEN asked + 1 ELSE asked
    /\ Goto(a, "start", web[a].want)
    /\ UNCHANGED <<remote, origin, checkout, installed, cache, service, run, cleanups, requests,
                   faults>>

\* systemctl start --no-block: a service that is running already goes on, and no
\* second run follows.
StartUnit == service' = IF service = "idle" THEN "read" ELSE service

StartTask(a) ==
    /\ web[a].at = "start"
    /\ StartUnit
    /\ web' = [web EXCEPT ![a] = Idle]
    /\ UNCHANGED <<remote, origin, checkout, installed, cache, request, run, history>>

\* systemctl fails or times out.
StartTaskFails(a) ==
    /\ web[a].at = "start" /\ Fault
    /\ StartUnit \/ UNCHANGED service
    /\ IF web[a].want = Normal THEN web' = [web EXCEPT ![a] = Idle]
       ELSE Goto(a, "clear", web[a].want)
    /\ UNCHANGED <<remote, origin, checkout, installed, cache, request, run, asked, cleanups,
                   requests>>

ClearRequest(a) ==
    /\ web[a].at = "clear"
    /\ request' = Normal
    /\ web' = [web EXCEPT ![a] = Idle]
    /\ UNCHANGED <<remote, origin, checkout, installed, cache, service, run, history>>

WebRestarts ==
    /\ \E a \in Admins : web[a] # Idle
    /\ Fault
    /\ web' = [a \in Admins |-> Idle]
    /\ UNCHANGED <<remote, origin, checkout, installed, cache, request, service, run, asked,
                   cleanups, requests>>

-----------------------------------------------------------------------------
(* app_update.py                                                           *)

\* The daily timer, or Start on the page of the task.
TimerElapses ==
    /\ service = "idle"
    /\ StartUnit
    /\ UNCHANGED <<remote, origin, checkout, installed, cache, request, run, web, history>>

\* At the end of a run nothing of the request is left in the process.
EndRun == service' = "idle" /\ run' = Normal

ReadRequest ==
    /\ service = "read"
    /\ run' = request
    /\ service' = "unlink"
    /\ UNCHANGED <<remote, origin, checkout, installed, cache, request, web, history>>

\* The request is only read.
Mutant_UnlinkRequest ==
    /\ service = "unlink"
    /\ service' = "status"
    /\ UNCHANGED <<remote, origin, checkout, installed, cache, request, run, web, history>>

UnlinkRequest ==
    /\ service = "unlink"
    /\ request' = Normal
    /\ service' = "status"
    /\ UNCHANGED <<remote, origin, checkout, installed, cache, run, web, history>>

\* A run that trusts what the page was shown last.
Mutant_CheckStatus ==
    /\ service = "status"
    /\ ReadStatus
    /\ IF run = Normal /\ ~CanUpdate THEN EndRun ELSE service' = run.mode /\ UNCHANGED run
    /\ UNCHANGED <<remote, origin, checkout, installed, request, web, history>>

\* A normal run ends here unless there is something to update.
CheckStatus ==
    /\ service = "status"
    /\ CheckRemote
    /\ IF run = Normal /\ cache'.status # "behind" THEN EndRun
       ELSE service' = run.mode /\ UNCHANGED run
    /\ UNCHANGED <<remote, checkout, installed, request, web, asked, cleanups, requests>>

\* update_now looks again.
UpdateNow ==
    /\ service = "normal"
    /\ CheckRemote
    /\ IF cache'.status # "behind" THEN EndRun ELSE service' = "pull" /\ UNCHANGED run
    /\ UNCHANGED <<remote, checkout, installed, request, web, asked, cleanups, requests>>

ForceUpdateNow ==
    /\ service = "cleanup"
    /\ ReadStatus
    /\ IF CanForceUpdate
       THEN service' = "reset" /\ cleanups' = cleanups + 1 /\ UNCHANGED run
       ELSE EndRun /\ UNCHANGED cleanups
    /\ UNCHANGED <<remote, origin, checkout, installed, request, web, asked, requests, faults>>

\* git reset --hard to the upstream branch.
Mutant_Reset ==
    /\ service = "reset"
    /\ dirty' = dirty \ {"changed"}
    /\ local' = IF origin[head] = Gone THEN local ELSE [local EXCEPT ![head] = origin[head]]
    /\ service' = "clean"
    /\ UNCHANGED <<remote, origin, upstream, head, installed, cache, request, run, web, history>>

\* git reset --hard HEAD
Reset ==
    /\ service = "reset"
    /\ dirty' = dirty \ {"changed"}
    /\ service' = "clean"
    /\ UNCHANGED <<remote, origin, local, upstream, head, installed, cache, request, run, web,
                   history>>

\* git clean -fd, and the fetch
Clean ==
    /\ service = "clean"
    /\ dirty' = dirty \ {"extra"}
    /\ service' = "fetch"
    /\ UNCHANGED <<remote, origin, local, upstream, head, installed, cache, request, run, web,
                   history>>

FetchForCleanup ==
    /\ service = "fetch"
    /\ Fetch
    /\ service' = "pull"
    /\ UNCHANGED <<remote, checkout, installed, cache, request, run, web, history>>

\* Any branch of the origin is taken for one of the checkout.
Mutant_SwitchBranchNow ==
    /\ service = "switch_branch"
    /\ ReadStatus
    /\ Fetch
    /\ service' = "track"
    /\ UNCHANGED <<remote, checkout, installed, request, run, web, history>>

SwitchBranchNow ==
    LET b == run.branch
    IN  /\ service = "switch_branch"
        /\ ReadStatus
        /\ IF dirty # {} THEN UNCHANGED origin ELSE Fetch
        /\ IF dirty # {} \/ remote[b] = Gone THEN EndRun
           ELSE /\ service' = IF local[b] = Gone THEN "create" ELSE "track"
                /\ UNCHANGED run
        /\ UNCHANGED <<remote, checkout, installed, request, web, history>>

\* git checkout --track -b
CreateBranch ==
    LET b == run.branch
    IN  /\ service = "create"
        /\ IF origin[b] = Gone
           THEN EndRun /\ UNCHANGED checkout
           ELSE /\ local' = [local EXCEPT ![b] = origin[b]]
                /\ upstream' = upstream \cup {b}
                /\ head' = b
                /\ service' = "pull"
                /\ UNCHANGED <<dirty, run>>
        /\ UNCHANGED <<remote, origin, installed, cache, request, web, history>>

\* git branch --set-upstream-to
TrackBranch ==
    /\ service = "track"
    /\ IF origin[run.branch] = Gone
       THEN EndRun /\ UNCHANGED upstream
       ELSE upstream' = upstream \cup {run.branch} /\ service' = "checkout" /\ UNCHANGED run
    /\ UNCHANGED <<remote, origin, local, head, dirty, installed, cache, request, web, history>>

Checkout ==
    /\ service = "checkout"
    /\ head' = run.branch
    /\ service' = "pull"
    /\ UNCHANGED <<remote, origin, local, upstream, dirty, installed, cache, request, run, web,
                   history>>

FastForwards ==
    /\ head \in upstream /\ remote[head] # Gone
    /\ local[head] \subseteq remote[head] \/ remote[head] \subseteq local[head]

\* git pull --ff-only fetches first; it refuses to merge, and to write over files
\* that were changed in the meantime.
Pull ==
    /\ service = "pull"
    /\ Fetch
    /\ \/ /\ FastForwards
          /\ local' = [local EXCEPT ![head] = @ \cup remote[head]]
          /\ service' = "install"
          /\ UNCHANGED run
       \/ /\ ~FastForwards \/ dirty # {}
          /\ EndRun
          /\ UNCHANGED local
    /\ UNCHANGED <<remote, upstream, head, dirty, installed, cache, request, web, history>>

\* install.sh restarts the web service; get_status follows.
Install ==
    /\ service = "install"
    /\ installed' = HeadCommit
    /\ web' = [a \in Admins |-> Idle]
    /\ ReadStatus
    /\ EndRun
    /\ UNCHANGED <<remote, origin, checkout, request, history>>

\* A command fails or times out, or the task is stopped on its page.
RunFails ==
    /\ service # "idle" /\ Fault
    /\ EndRun
    /\ UNCHANGED <<remote, origin, checkout, installed, cache, request, web, asked, cleanups,
                   requests>>

\* /run is empty after a restart of the machine.
Reboot ==
    /\ Fault
    /\ EndRun
    /\ request' = Normal
    /\ cache' = NoCache
    /\ web' = [a \in Admins |-> Idle]
    /\ UNCHANGED <<remote, origin, checkout, installed, asked, cleanups, requests>>

-----------------------------------------------------------------------------
(* The world around                                                        *)

Push(b, c) ==
    /\ remote[b] # Gone /\ c \notin remote[b]
    /\ remote' = [remote EXCEPT ![b] = @ \cup {c}]
    /\ UNCHANGED <<origin, checkout, installed, cache, request, service, run, web, history>>

DeleteBranch(b) ==
    /\ remote[b] # Gone /\ Fault
    /\ remote' = [remote EXCEPT ![b] = Gone]
    /\ UNCHANGED <<origin, checkout, installed, cache, request, service, run, web, asked, cleanups,
                   requests>>

\* Somebody works in /opt/SimpleSaferServer.
Edit(kind) ==
    /\ kind \notin dirty
    /\ dirty' = dirty \cup {kind}
    /\ UNCHANGED <<remote, origin, local, upstream, head, installed, cache, request, service, run,
                   web, history>>

Commit(c) ==
    /\ head # Pinned /\ c \notin local[head]
    /\ local' = [local EXCEPT ![head] = @ \cup {c}]
    /\ UNCHANGED <<remote, origin, upstream, head, dirty, installed, cache, request, service, run,
                   web, history>>

-----------------------------------------------------------------------------

\* A fresh installation, of a branch with or without upstream or of a tag.
Init ==
    /\ remote \in [Branches -> {{}}]
    /\ origin = remote
    /\ \/ head = Main /\ upstream \in {{}, {Main}}
       \/ head = Pinned /\ upstream = {}
    /\ local = [b \in Branches |-> IF b = head THEN {} ELSE Gone]
    /\ dirty = {} /\ installed = {}
    /\ cache = NoCache
    /\ request = Normal /\ service = "idle" /\ run = Normal
    /\ web = [a \in Admins |-> Idle]
    /\ asked = 0 /\ cleanups = 0 /\ requests = 0 /\ faults = 0

Page(a) ==
    \/ AskUpdate(a) \/ AskCleanup(a) \/ QueueRequest(a)
    \/ \E b \in Branches : AskSwitch(a, b)
    \/ StartTask(a) \/ StartTaskFails(a) \/ ClearRequest(a)

Consume == ReadRequest \/ UnlinkRequest

Service ==
    \/ Consume \/ CheckStatus \/ UpdateNow
    \/ ForceUpdateNow \/ Reset \/ Clean \/ FetchForCleanup
    \/ SwitchBranchNow \/ CreateBranch \/ TrackBranch \/ Checkout
    \/ Pull \/ Install

World ==
    \/ \E b \in Branches : DeleteBranch(b) \/ \E c \in Changes : Push(b, c)
    \/ \E kind \in {"changed", "extra"} : Edit(kind)
    \/ \E c \in Own : Commit(c)

Next ==
    \/ \E a \in Admins : Page(a)
    \/ Refresh \/ Summary \/ list_remote_branches \/ WebRestarts
    \/ TimerElapses \/ Service \/ RunFails \/ Reboot
    \/ World

\* The timer fires every day, and every command of a run has a timeout.
Fairness == WF_vars(TimerElapses) /\ WF_vars(Service)

Spec == Init /\ [][Next]_vars /\ Fairness

-----------------------------------------------------------------------------
(* Properties                                                              *)

TypeOK ==
    /\ remote \in [Branches -> Ref] /\ origin \in [Branches -> Ref] /\ local \in [Branches -> Ref]
    /\ upstream \subseteq Branches /\ head \in Branches \cup {Pinned}
    /\ head # Pinned => local[head] # Gone
    /\ dirty \subseteq {"changed", "extra"} /\ installed \in Commits
    /\ cache.commit \in Commits /\ cache.status \in Counted \cup {"none"}
    /\ request \in Request /\ run \in Request
    /\ service \in {"idle", "read", "unlink", "status", "normal", "cleanup", "reset", "clean",
                    "fetch", "switch_branch", "create", "track", "checkout", "pull", "install"}
    /\ web \in [Admins -> [at : {"idle", "queue", "start", "clear"}, want : Request]]
    /\ asked \in 0..MaxRequests /\ cleanups \in 0..MaxRequests
    /\ requests \in 0..MaxRequests /\ faults \in 0..MaxFaults

\* A cleanup throws away what was changed in the application folder, so one click
\* of an administrator throws it away at most once, whatever runs are killed and
\* started again in between.
OncePerRequest == cleanups <= asked

\* No update, cleanup or switch takes a commit out of a branch of the checkout,
\* however it stands to the origin and whatever fails on the way.
CommitsSurvive ==
    [][\A b \in Branches : local[b] # Gone => local'[b] # Gone /\ local[b] \subseteq local'[b]]_vars

\* What can be fast-forwarded from the origin arrives without anybody's help, through
\* failed runs and requests left over, unless somebody changes the checkout.
CanArrive(b, c) ==
    /\ head = b /\ dirty = {} /\ HasUpstream
    /\ remote[b] # Gone /\ local[b] \subseteq remote[b] /\ c \in remote[b]

UpdatesArrive ==
    \A b \in Branches, c \in Changes :
        CanArrive(b, c) ~> (~CanArrive(b, c) \/ c \in local[b])

\* docs/system_updates.md: "Full installer updates keep Python dependencies, systemd
\* units, helper scripts, templates, and static assets in sync with the pulled code."
\* What was pulled is installed some time, unless the checkout leaves it or is edited.
PulledIsInstalled ==
    \A c \in Changes : c \in HeadCommit ~> (c \in installed \/ c \notin HeadCommit \/ dirty # {})

=============================================================================
