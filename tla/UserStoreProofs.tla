--------------------------- MODULE UserStoreProofs ---------------------------
(***************************************************************************)
(* Proofs about UserStore: while requests do not overlap and users.json    *)
(* can be read, an administrator remains, a password in users.json is the  *)
(* one in Samba, and users come and go by creates and deletes only, for    *)
(* any users, passwords, requests, failures and restarts.                  *)
(*                                                                         *)
(* What the request of an administrator preserves is that administrator:   *)
(* the account is in the dictionary the request works on at every step,    *)
(* and so in what it writes.  A login preserves whoever is one.  The       *)
(* passwords are followed the same way: what the request asked for gets    *)
(* to Samba, to memory, to the copy written and to the file in turn, and   *)
(* no other password changes anywhere.                                     *)
(***************************************************************************)
EXTENDS UserStore, TLAPS

-----------------------------------------------------------------------------
(* The invariant                                                           *)

Stages == {"idle", "reload", "assign", "list", "create", "edit", "role", "delete",
           "samba", "update", "login", "hash", "save", "publish", "session"}

\* What is asked for fits the place where the thread is.
JobFits(stage, j) ==
  /\ stage # "idle" => j \in AdminJob \cup LoginJob
  /\ stage \in {"list", "create", "edit", "delete", "login"} => j.op = stage
  /\ stage = "role" => j.op = "edit"
  /\ stage = "samba" => j.op \in {"create", "edit", "delete"}
  /\ stage = "update" => j.op \in {"edit", "delete"}
  /\ stage \in {"samba", "update"} /\ j.op = "edit" => j.pw # None
  /\ stage \in {"hash", "session"} => j.op = "login"
  /\ stage \in {"save", "publish"} => j.op \in {"create", "edit", "delete", "login"}

TypeInv == TypeOK /\ \A t \in Threads : JobFits(at[t], job[t])

Sound(dict) == \A u \in Users : dict[u].admin => dict[u].pw # None

\* The administrator who asked is still one; after a login, whoever was one.
Keeps(j, dict) ==
  /\ Sound(dict)
  /\ IF j.op = "login" THEN \E u \in Users : dict[u].admin ELSE dict[j.by].admin

ThreadInv(t) ==
  LET j == job[t]
  IN  at[t] # "idle" =>
        /\ Keeps(j, file)
        /\ at[t] = "assign" => copy[t] = file
        /\ at[t] \notin {"reload", "assign"} => Keeps(j, mem)
        /\ at[t] = "publish" => Keeps(j, copy[t])
        /\ j.op = "edit" /\ j.user = j.by =>
             /\ at[t] \notin {"reload", "assign", "edit"} => j.role # "plain"
             /\ at[t] \in {"samba", "update"} => rec[t].admin
        /\ j.op = "delete" /\ at[t] \in {"samba", "update"} => j.user # j.by

OrderlyInv ==
  /\ \A s, t \in Threads : at[s] # "idle" /\ at[t] # "idle" => s = t
  /\ Sound(file) /\ \E u \in Users : file[u].admin
  /\ \A t \in Threads : ThreadInv(t)

IInv == TypeInv /\ (orderly => OrderlyInv)

-----------------------------------------------------------------------------
(* Records and requests                                                    *)

LEMMA JobTypes ==
  ASSUME NEW j \in AdminJob \cup LoginJob
  PROVE  /\ j \in Job
         /\ j.op \in {"list", "create", "edit", "delete", "login"}
         /\ j.op # "list" => j.user \in Users
         /\ j.op # "login" => j.by \in Users
         /\ j.op = "create" => j.pw \in Passwords /\ j.admin \in BOOLEAN
         /\ j.op = "edit" => j.pw \in Passwords \cup {None} /\ j.role \in {"keep", "admin", "plain"}
         /\ j.op = "login" => j.pw \in Passwords
BY DEF Job, AdminJob, LoginJob

LEMMA NoJobTypes == NoJob \in Job /\ NoJob.op = "none"
BY DEF NoJob, Job

\* An edit whose role is set goes on without one.
LEMMA RoleDone ==
  ASSUME NEW j \in AdminJob, j.op = "edit"
  PROVE  LET k == [j EXCEPT !.role = "keep"]
         IN  /\ k \in AdminJob /\ k.op = "edit" /\ k.role = "keep"
             /\ k.by = j.by /\ k.user = j.user /\ k.pw = j.pw
<1>1. j \in [op : {"edit"}, by : Users, user : Users, pw : Passwords \cup {None},
             role : {"keep", "admin", "plain"}]
  BY DEF AdminJob, Job
<1> DEFINE k == [j EXCEPT !.role = "keep"]
<1>2. k \in [op : {"edit"}, by : Users, user : Users, pw : Passwords \cup {None},
             role : {"keep", "admin", "plain"}]
  BY <1>1
<1>3. k.op = "edit" /\ k.role = "keep" /\ k.by = j.by /\ k.user = j.user /\ k.pw = j.pw
  BY <1>1
<1>4. k \in AdminJob
  BY <1>2, <1>3 DEF AdminJob, Job
<1>5. QED
  BY <1>3, <1>4

LEMMA RecordTypes ==
  /\ NoRecord \in Record /\ NoRecord.pw = None /\ NoRecord.admin = FALSE
  /\ Nobody \in [Users -> Record]
  /\ \A pw \in Passwords \cup {None}, admin \in BOOLEAN :
       /\ NewRecord(pw, admin) \in Record
       /\ NewRecord(pw, admin).pw = pw /\ NewRecord(pw, admin).admin = admin
  /\ \A r \in Record, pw \in Passwords \cup {None} :
       LET s == [r EXCEPT !.pw = pw] IN s \in Record /\ s.pw = pw /\ s.admin = r.admin
  /\ \A r \in Record, a \in BOOLEAN :
       LET s == [r EXCEPT !.admin = a] IN s \in Record /\ s.pw = r.pw /\ s.admin = a
<1>1. 0 \in 0..LIMIT
  BY UserAssumption
<1>2. NoRecord \in Record /\ NoRecord.pw = None /\ NoRecord.admin = FALSE
  BY <1>1 DEF NoRecord, Record
<1>3. QED
  BY <1>2 DEF NewRecord, Nobody, Record

\* Counting failed logins and lifting a lock leave password and role alone.
LEMMA LoginRecords ==
  ASSUME NEW r \in Record
  PROVE  /\ LET s == [r EXCEPT !.locked = FALSE, !.fails = 0]
            IN  s \in Record /\ s.pw = r.pw /\ s.admin = r.admin
         /\ LET s == [r EXCEPT !.fails = 0]
            IN  s \in Record /\ s.pw = r.pw /\ s.admin = r.admin
         /\ Counted(r) \in Record /\ Counted(r).pw = r.pw /\ Counted(r).admin = r.admin
<1>1. 0 \in 0..LIMIT /\ LIMIT \in 0..LIMIT
  BY UserAssumption
<1> DEFINE n == IF r.fails < LIMIT THEN r.fails + 1 ELSE LIMIT
<1>2. n \in 0..LIMIT
  BY UserAssumption DEF Record
<1>3. Counted(r) = [r EXCEPT !.fails = n, !.locked = r.locked \/ n = LIMIT]
  BY DEF Counted
<1> HIDE DEF n
<1>4. Counted(r) \in Record /\ Counted(r).pw = r.pw /\ Counted(r).admin = r.admin
  BY <1>2, <1>3 DEF Record
<1>5. QED
  BY <1>1, <1>4 DEF Record

-----------------------------------------------------------------------------
(* Types                                                                   *)

\* It is enough to look at the thread that moved, and at the other variables.
LEMMA TypesOf ==
  ASSUME TypeInv, NEW t \in Threads,
         file' \in [Users -> Record], mem' \in [Users -> Record],
         samba' \in [Users -> Passwords \cup {None}],
         sessions' \in SUBSET Users, halfway' \in SUBSET Users,
         at' \in [Threads -> Stages], job' \in [Threads -> Job],
         copy' \in [Threads -> [Users -> Record]], rec' \in [Threads -> Record],
         held' \in [Threads -> BOOLEAN], orderly' \in BOOLEAN,
         requests' \in 0..MaxRequests, faults' \in 0..MaxFaults,
         \A s \in Threads \ {t} : at'[s] = at[s] /\ job'[s] = job[s],
         JobFits(at'[t], job'[t])
  PROVE  TypeInv'
<1>1. TypeOK'
  BY DEF TypeOK, Stages
<1>2. \A s \in Threads : JobFits(at'[s], job'[s])
  BY DEF TypeInv
<1>3. QED
  BY <1>1, <1>2 DEF TypeInv

LEMMA GotoTypes ==
  ASSUME TypeInv, NEW t \in Threads, NEW stage \in Stages, Goto(t, stage)
  PROVE  /\ at' \in [Threads -> Stages] /\ at'[t] = stage
         /\ \A s \in Threads \ {t} : at'[s] = at[s]
BY DEF Goto, TypeInv, TypeOK, Stages

LEMMA EndTypes ==
  ASSUME TypeInv, NEW t \in Threads, EndRequest(t)
  PROVE  /\ at' \in [Threads -> Stages] /\ at'[t] = "idle"
         /\ job' \in [Threads -> Job]
         /\ copy' \in [Threads -> [Users -> Record]] /\ rec' \in [Threads -> Record]
         /\ \A s \in Threads \ {t} : at'[s] = at[s] /\ job'[s] = job[s]
         /\ JobFits(at'[t], job'[t])
<1>1. at' \in [Threads -> Stages] /\ at'[t] = "idle" /\ \A s \in Threads \ {t} : at'[s] = at[s]
  BY GotoTypes DEF EndRequest, Stages
<1>2. job' \in [Threads -> Job] /\ job'[t] = NoJob /\ \A s \in Threads \ {t} : job'[s] = job[s]
  BY NoJobTypes DEF EndRequest, TypeInv, TypeOK
<1>3. copy' \in [Threads -> [Users -> Record]] /\ rec' \in [Threads -> Record]
  BY RecordTypes DEF EndRequest, TypeInv, TypeOK
<1>4. JobFits(at'[t], job'[t])
  BY <1>1 DEF JobFits
<1>5. QED
  BY <1>1, <1>2, <1>3, <1>4

LEMMA FinishTypes ==
  ASSUME TypeInv, NEW t \in Threads, Finish(t)
  PROVE  EndRequest(t) /\ held' \in [Threads -> BOOLEAN]
BY DEF Finish, TypeInv, TypeOK

LEMMA ReplaceTypes ==
  ASSUME TypeInv, NEW u \in Users, NEW r \in Record, Replace(u, r)
  PROVE  /\ mem' \in [Users -> Record] /\ mem'[u] = r
         /\ \A v \in Users \ {u} : mem'[v] = mem[v]
         /\ held' \in [Threads -> BOOLEAN]
BY DEF Replace, TypeInv, TypeOK

LEMMA FaultTypes == ASSUME TypeInv, Fault PROVE faults' \in 0..MaxFaults
BY UserAssumption DEF Fault, TypeInv, TypeOK

\* What the thread is doing.
LEMMA AtWork ==
  ASSUME TypeInv, NEW t \in Threads, at[t] # "idle"
  PROVE  job[t] \in AdminJob \cup LoginJob /\ JobFits(at[t], job[t])
BY DEF TypeInv, JobFits

\* The variables and their types, for the steps that leave them alone.
LEMMA Typed ==
  ASSUME TypeInv
  PROVE  /\ file \in [Users -> Record] /\ mem \in [Users -> Record]
         /\ samba \in [Users -> Passwords \cup {None}]
         /\ sessions \in SUBSET Users /\ halfway \in SUBSET Users
         /\ at \in [Threads -> Stages] /\ job \in [Threads -> Job]
         /\ copy \in [Threads -> [Users -> Record]] /\ rec \in [Threads -> Record]
         /\ held \in [Threads -> BOOLEAN] /\ orderly \in BOOLEAN
         /\ requests \in 0..MaxRequests /\ faults \in 0..MaxFaults
BY DEF TypeInv, TypeOK, Stages

\* A thread that only moves on, with the request it has.
LEMMA MovesOn ==
  ASSUME TypeInv, NEW t \in Threads, NEW stage \in Stages, Goto(t, stage), job' = job,
         JobFits(stage, job[t]),
         file' \in [Users -> Record], mem' \in [Users -> Record],
         samba' \in [Users -> Passwords \cup {None}],
         sessions' = sessions, halfway' \in SUBSET Users,
         copy' \in [Threads -> [Users -> Record]], rec' \in [Threads -> Record],
         held' \in [Threads -> BOOLEAN], orderly' \in BOOLEAN,
         requests' = requests, faults' \in 0..MaxFaults
  PROVE  TypeInv'
BY GotoTypes, TypesOf, Typed

\* A thread whose request ends.
LEMMA Ends ==
  ASSUME TypeInv, NEW t \in Threads, EndRequest(t),
         file' \in [Users -> Record], mem' \in [Users -> Record],
         samba' \in [Users -> Passwords \cup {None}],
         sessions' \in SUBSET Users, halfway' \in SUBSET Users,
         held' \in [Threads -> BOOLEAN], orderly' = orderly,
         requests' = requests, faults' \in 0..MaxFaults
  PROVE  TypeInv'
BY EndTypes, TypesOf, Typed

LEMMA BeginTypes ==
  ASSUME TypeInv, NEW t \in Threads, NEW j \in AdminJob \cup LoginJob, Begin(t, j),
         sessions' = sessions
  PROVE  TypeInv'
<1>1. at' \in [Threads -> Stages] /\ at'[t] = "reload" /\ \A s \in Threads \ {t} : at'[s] = at[s]
  BY GotoTypes DEF Begin, Stages
<1>2. job' \in [Threads -> Job] /\ job'[t] = j /\ \A s \in Threads \ {t} : job'[s] = job[s]
  BY JobTypes, Typed DEF Begin
<1>3. JobFits(at'[t], job'[t])
  BY <1>1, <1>2 DEF JobFits
<1>4. requests' \in 0..MaxRequests
  BY UserAssumption, Typed DEF Begin
<1>5. orderly' \in BOOLEAN
  BY Typed DEF Begin
<1>6. /\ file' = file /\ mem' = mem /\ samba' = samba /\ copy' = copy /\ rec' = rec
      /\ held' = held /\ faults' = faults /\ halfway' = halfway
  BY DEF Begin
<1>7. QED
  BY <1>1, <1>2, <1>3, <1>4, <1>5, <1>6, Typed, TypesOf

LEMMA RequestTypes == ASSUME TypeInv, NEW t \in Threads, Request(t) PROVE TypeInv'
<1>1. ASSUME NEW j \in AdminJob \cup LoginJob, Begin(t, j), sessions' = sessions PROVE TypeInv'
  BY <1>1, BeginTypes
<1>2. ASSUME NEW u \in Users, SessionEnds(t, u) PROVE TypeInv'
  <2>1. /\ file' = file /\ mem' = mem /\ samba' = samba /\ at' = at /\ job' = job /\ copy' = copy
        /\ rec' = rec /\ held' = held /\ requests' = requests /\ orderly' = orderly
        /\ halfway' = halfway
    BY <1>2 DEF SessionEnds, thread
  <2>2. sessions' \in SUBSET Users
    BY <1>2, Typed DEF SessionEnds
  <2>3. faults' \in 0..MaxFaults
    BY <1>2, Typed, FaultTypes DEF SessionEnds
  <2>4. JobFits(at'[t], job'[t])
    BY <2>1 DEF TypeInv
  <2>5. QED
    BY <2>1, <2>2, <2>3, <2>4, Typed, TypesOf
<1>3. QED
  BY <1>1, <1>2 DEF Request, AdminRequest, LoginRequest

LEMMA ReloadTypes == ASSUME TypeInv, NEW t \in Threads, Reload(t) PROVE TypeInv'
<1>1. CASE LoadUsers(t)
  <2>1. Goto(t, "assign") /\ JobFits("assign", job[t])
    BY <1>1 DEF LoadUsers, TypeInv, JobFits
  <2>2. copy' \in [Threads -> [Users -> Record]]
    BY <1>1, Typed DEF LoadUsers
  <2>3. QED
    BY <1>1, <2>1, <2>2, Typed, MovesOn DEF LoadUsers, Stages
<1>2. CASE LoadFails(t)
  <2>1. Goto(t, "assign") /\ JobFits("assign", job[t])
    BY <1>2 DEF LoadFails, TypeInv, JobFits
  <2>2. copy' \in [Threads -> [Users -> Record]] /\ faults' \in 0..MaxFaults /\ orderly' = FALSE
    BY <1>2, Typed, RecordTypes, FaultTypes DEF LoadFails
  <2>3. orderly' \in BOOLEAN
    BY <2>2
  <2>4. QED
    BY <1>2, <2>1, <2>2, <2>3, Typed, MovesOn DEF LoadFails, Stages
<1>3. CASE ReloadUsers(t)
  <2>1. job[t] \in AdminJob \cup LoginJob
    BY <1>3, AtWork DEF ReloadUsers
  <2>2. job[t].op \in {"list", "create", "edit", "delete", "login"}
    BY <2>1, JobTypes
  <2>3. Goto(t, job[t].op) /\ job[t].op \in Stages /\ JobFits(job[t].op, job[t])
    BY <1>3, <2>1, <2>2 DEF ReloadUsers, Stages, JobFits
  <2>4. mem' \in [Users -> Record] /\ copy' \in [Threads -> [Users -> Record]]
        /\ held' \in [Threads -> BOOLEAN]
    BY <1>3, Typed, RecordTypes DEF ReloadUsers
  <2>5. QED
    BY <1>3, <2>3, <2>4, Typed, MovesOn DEF ReloadUsers
<1>4. QED
  BY <1>1, <1>2, <1>3 DEF Reload

LEMMA ChangeTypes == ASSUME TypeInv, NEW t \in Threads, Change(t) PROVE TypeInv'
<1>1. CASE ListUsers(t) \/ Reject(t) \/ KeepRole(t)
  <2>1. EndRequest(t) /\ held' \in [Threads -> BOOLEAN]
    BY <1>1, FinishTypes DEF ListUsers, Reject, KeepRole
  <2>2. /\ file' = file /\ mem' = mem /\ samba' = samba /\ sessions' = sessions
        /\ requests' = requests /\ faults' = faults /\ orderly' = orderly /\ halfway' = halfway
    BY <1>1 DEF ListUsers, Reject, KeepRole
  <2>3. QED
    BY <2>1, <2>2, Typed, Ends
<1>2. CASE Create(t)
  <2>1. job[t] \in AdminJob \cup LoginJob /\ job[t].op = "create"
    BY <1>2, AtWork DEF Create, JobFits
  <2>2. job[t].user \in Users /\ NewRecord(job[t].pw, job[t].admin) \in Record
    BY <2>1, JobTypes, RecordTypes
  <2>3. mem' \in [Users -> Record] /\ held' \in [Threads -> BOOLEAN]
    BY <1>2, <2>2, ReplaceTypes DEF Create
  <2>4. Goto(t, "samba") /\ JobFits("samba", job[t])
    BY <1>2, <2>1 DEF Create, JobFits
  <2>5. QED
    BY <1>2, <2>3, <2>4, Typed, MovesOn DEF Create, Stages
<1>3. CASE Edit(t)
  <2>1. job[t] \in AdminJob \cup LoginJob /\ job[t].op = "edit"
    BY <1>3, AtWork DEF Edit, JobFits
  <2>2. job[t].user \in Users
    BY <2>1, JobTypes
  <2>3. rec' \in [Threads -> Record]
    BY <1>3, <2>2, Typed DEF Edit
  <2>4. PICK stage \in {"role", "samba"} : Goto(t, stage) /\ (stage = "samba" => job[t].pw # None)
    BY <1>3 DEF Edit
  <2>5. JobFits(stage, job[t]) /\ stage \in Stages
    BY <2>1, <2>4 DEF JobFits, Stages
  <2>6. QED
    BY <1>3, <2>3, <2>4, <2>5, Typed, MovesOn DEF Edit
<1>4. CASE Delete(t)
  <2>1. job[t] \in AdminJob \cup LoginJob /\ job[t].op = "delete"
    BY <1>4, AtWork DEF Delete, JobFits
  <2>2. Goto(t, "samba") /\ JobFits("samba", job[t])
    BY <1>4, <2>1 DEF Delete, JobFits
  <2>3. QED
    BY <1>4, <2>2, Typed, MovesOn DEF Delete, Stages
<1>5. CASE SetRole(t)
  <2>1. job[t] \in AdminJob /\ job[t].op = "edit"
    BY <1>5, AtWork DEF SetRole, JobFits, LoginJob
  <2>2. job[t].user \in Users
    BY <2>1, JobTypes
  <2> DEFINE k == [job[t] EXCEPT !.role = "keep"]
  <2>3. k \in AdminJob /\ k.op = "edit" /\ k \in Job
    BY <2>1, RoleDone, JobTypes
  <2>4. job' = [job EXCEPT ![t] = k]
    BY <1>5, Typed DEF SetRole
  <2> HIDE DEF k
  <2>5. job' \in [Threads -> Job] /\ job'[t] = k /\ \A s \in Threads \ {t} : job'[s] = job[s]
    BY <2>3, <2>4, Typed
  <2>6. at' \in [Threads -> Stages] /\ at'[t] = "save" /\ \A s \in Threads \ {t} : at'[s] = at[s]
    BY <1>5, GotoTypes DEF SetRole, Stages
  <2>7. JobFits(at'[t], job'[t])
    BY <2>3, <2>5, <2>6 DEF JobFits
  <2>8. mem' \in [Users -> Record]
    <3> DEFINE a == job[t].role = "admin"
               r == [mem[job[t].user] EXCEPT !.admin = a]
    <3>1. mem[job[t].user] \in Record
      BY <2>2, Typed
    <3>2. r \in Record
      BY <3>1, RecordTypes
    <3>3. mem' = [mem EXCEPT ![job[t].user] = r]
      BY <1>5, Typed DEF SetRole
    <3>4. QED
      BY <3>2, <3>3, Typed
  <2>9. QED
    BY <1>5, <2>5, <2>6, <2>7, <2>8, Typed, TypesOf DEF SetRole
<1>6. QED
  BY <1>1, <1>2, <1>3, <1>4, <1>5 DEF Change

LEMMA SambaTypes == ASSUME TypeInv, NEW t \in Threads, Samba(t) PROVE TypeInv'
<1> DEFINE j == job[t]
<1>1. j \in AdminJob \cup LoginJob /\ JobFits(at[t], j)
  BY AtWork DEF Samba, SambaAccepts, SambaRefuses, SambaTimesOut, UpdateUsers, DeletedTwice
<1>2. j.op \in {"create", "edit", "delete"} /\ (at[t] = "update" => j.op \in {"edit", "delete"})
  BY <1>1 DEF Samba, SambaAccepts, SambaRefuses, SambaTimesOut, UpdateUsers, DeletedTwice, JobFits
<1>3. j.user \in Users /\ (j.op # "delete" => j.pw \in Passwords \cup {None})
  BY <1>1, <1>2, JobTypes
<1>4. [samba EXCEPT ![j.user] = IF j.op = "delete" THEN None ELSE j.pw]
        \in [Users -> Passwords \cup {None}]
  BY <1>2, <1>3, Typed
<1>5. halfway \cup {j.user} \in SUBSET Users
  BY <1>3, Typed
<1>6. CASE SambaAccepts(t)
  <2>1. PICK stage \in {"save", "update"} :
          Goto(t, stage) /\ stage = IF j.op = "create" THEN "save" ELSE "update"
    BY <1>6 DEF SambaAccepts
  <2>2. stage \in Stages /\ JobFits(stage, j)
    BY <1>1, <1>2, <1>6, <2>1 DEF Stages, JobFits, SambaAccepts
  <2>3. samba' \in [Users -> Passwords \cup {None}] /\ halfway' \in SUBSET Users
    BY <1>4, <1>5, <1>6 DEF SambaAccepts
  <2>4. QED
    BY <1>6, <2>1, <2>2, <2>3, Typed, MovesOn DEF SambaAccepts
<1>7. CASE SambaRefuses(t)
  <2>1. mem' \in [Users -> Record] /\ held' \in [Threads -> BOOLEAN]
    <3>1. NoRecord \in Record /\ rec[t] \in Record
      BY RecordTypes, Typed
    <3>2. Replace(j.user, NoRecord) \/ Replace(j.user, rec[t]) \/ (mem' = mem /\ held' = held)
      BY <1>2, <1>7 DEF SambaRefuses
    <3>3. QED
      BY <1>3, <3>1, <3>2, ReplaceTypes, Typed
  <2>2. EndRequest(t) /\ faults' \in 0..MaxFaults
    BY <1>7, FaultTypes DEF SambaRefuses
  <2>3. QED
    BY <1>7, <2>1, <2>2, Typed, Ends DEF SambaRefuses
<1>8. CASE SambaTimesOut(t)
  <2>1. EndRequest(t) /\ held' \in [Threads -> BOOLEAN] /\ faults' \in 0..MaxFaults
    BY <1>8, FinishTypes, FaultTypes DEF SambaTimesOut
  <2>2. samba' \in [Users -> Passwords \cup {None}] /\ halfway' \in SUBSET Users
    BY <1>4, <1>5, <1>8, Typed DEF SambaTimesOut
  <2>3. QED
    BY <1>8, <2>1, <2>2, Typed, Ends DEF SambaTimesOut
<1>9. CASE UpdateUsers(t)
  <2>1. rec[t] \in Record /\ NoRecord \in Record
    BY RecordTypes, Typed
  <2>2. j.op = "edit" => [rec[t] EXCEPT !.pw = j.pw] \in Record
    BY <1>3, <2>1, RecordTypes
  <2>3. mem' \in [Users -> Record] /\ held' \in [Threads -> BOOLEAN]
    BY <1>3, <1>9, <2>1, <2>2, ReplaceTypes DEF UpdateUsers
  <2>4. Goto(t, "save") /\ JobFits("save", j)
    BY <1>1, <1>2, <1>9 DEF UpdateUsers, JobFits
  <2>5. QED
    BY <1>9, <2>3, <2>4, Typed, MovesOn DEF UpdateUsers, Stages
<1>10. CASE DeletedTwice(t)
  <2>1. EndRequest(t) /\ held' \in [Threads -> BOOLEAN]
    BY <1>10, FinishTypes DEF DeletedTwice
  <2>2. QED
    BY <1>10, <2>1, Typed, Ends DEF DeletedTwice
<1>11. QED
  BY <1>6, <1>7, <1>8, <1>9, <1>10 DEF Samba

\* What a login does to the dictionary: password and role of everybody stay.
LEMMA LoginChanges ==
  ASSUME TypeInv, NEW t \in Threads, Verify(t) \/ VerifyResult(t)
  PROVE  /\ mem' \in [Users -> Record]
         /\ \A u \in Users : mem'[u].pw = mem[u].pw /\ mem'[u].admin = mem[u].admin
<1>1. job[t] \in AdminJob \cup LoginJob /\ job[t].op = "login"
  BY AtWork DEF Verify, VerifyResult, JobFits
<1>2. job[t].user \in Users
  BY <1>1, JobTypes
<1> DEFINE u == job[t].user
<1>3. mem[u] \in Record
  BY <1>2, Typed
<1>4. PICK r \in Record : r.pw = mem[u].pw /\ r.admin = mem[u].admin /\ mem' = [mem EXCEPT ![u] = r]
  <2>1. CASE Verify(t)
    BY <1>3, <2>1, LoginRecords DEF Verify
  <2>2. CASE VerifyResult(t)
    <3>1. CASE ~held[t]
      <4>1. mem' = [mem EXCEPT ![u] = mem[u]]
        BY <2>2, <3>1, Typed DEF VerifyResult
      <4>2. QED
        BY <1>3, <4>1
    <3>2. CASE held[t] /\ Granted(t)
      <4>1. mem' = [mem EXCEPT ![u] = [mem[u] EXCEPT !.fails = 0]]
        BY <2>2, <3>2, Typed DEF VerifyResult
      <4>2. QED
        BY <1>3, <4>1, LoginRecords
    <3>3. CASE held[t] /\ ~Granted(t)
      <4>1. mem' = [mem EXCEPT ![u] = Counted(mem[u])]
        BY <2>2, <3>3, Typed DEF VerifyResult
      <4>2. QED
        BY <1>3, <4>1, LoginRecords
    <3>4. QED
      BY <3>1, <3>2, <3>3
  <2>3. QED
    BY <2>1, <2>2
<1> HIDE DEF u
<1>5. QED
  BY <1>2, <1>4, Typed

LEMMA LoginTypes == ASSUME TypeInv, NEW t \in Threads, Login(t) PROVE TypeInv'
<1>1. job[t] \in AdminJob \cup LoginJob /\ job[t].op = "login"
  BY AtWork DEF Login, Verify, LockedOut, VerifyResult, LogIn, JobFits
<1>2. job[t].user \in Users
  BY <1>1, JobTypes
<1>3. CASE Verify(t)
  <2>1. rec' \in [Threads -> Record]
    <3>1. mem'[job[t].user].pw = mem[job[t].user].pw /\ mem[job[t].user] \in Record
      BY <1>2, <1>3, LoginChanges, Typed
    <3>2. mem[job[t].user].pw \in Passwords \cup {None}
      BY <3>1 DEF Record
    <3>3. \E r \in Record : r.pw = mem[job[t].user].pw /\ rec' = [rec EXCEPT ![t] = NewRecord(r.pw, FALSE)]
      BY <3>1, <1>3, LoginRecords DEF Verify
    <3>4. NewRecord(mem[job[t].user].pw, FALSE) \in Record
      BY <3>2, RecordTypes
    <3>5. QED
      BY <3>3, <3>4, Typed
  <2>2. Goto(t, "hash") /\ JobFits("hash", job[t])
    BY <1>1, <1>3 DEF Verify, JobFits
  <2>3. held' \in [Threads -> BOOLEAN]
    BY <1>3, Typed DEF Verify
  <2>4. mem' \in [Users -> Record]
    BY <1>3, LoginChanges
  <2>5. QED
    BY <1>3, <2>1, <2>2, <2>3, <2>4, Typed, MovesOn DEF Verify, Stages
<1>4. CASE LockedOut(t)
  <2>1. EndRequest(t) /\ held' \in [Threads -> BOOLEAN]
    BY <1>4, FinishTypes DEF LockedOut
  <2>2. QED
    BY <1>4, <2>1, Typed, Ends DEF LockedOut
<1>5. CASE VerifyResult(t)
  <2>1. Goto(t, "save") /\ JobFits("save", job[t])
    BY <1>1, <1>5 DEF VerifyResult, JobFits
  <2>2. mem' \in [Users -> Record]
    BY <1>5, LoginChanges
  <2>3. QED
    BY <1>5, <2>1, <2>2, Typed, MovesOn DEF VerifyResult, Stages
<1>6. CASE LogIn(t)
  <2>1. EndRequest(t) /\ held' \in [Threads -> BOOLEAN]
    BY <1>6, FinishTypes DEF LogIn
  <2>2. sessions' \in SUBSET Users
    BY <1>2, <1>6, Typed DEF LogIn
  <2>3. QED
    BY <1>6, <2>1, <2>2, Typed, Ends DEF LogIn
<1>7. QED
  BY <1>3, <1>4, <1>5, <1>6 DEF Login

LEMMA SaveTypes == ASSUME TypeInv, NEW t \in Threads, Save(t) PROVE TypeInv'
<1>1. /\ job[t] \in AdminJob \cup LoginJob
      /\ job[t].op \in {"create", "edit", "delete", "login"} /\ JobFits("publish", job[t])
  BY AtWork DEF Save, DumpUsers, SaveUsers, SaveFails, JobFits
<1>2. job[t].user \in Users /\ copy[t] \in [Users -> Record]
  BY <1>1, JobTypes, Typed
<1>3. CASE DumpUsers(t)
  <2>1. copy' \in [Threads -> [Users -> Record]]
    BY <1>3, Typed DEF DumpUsers
  <2>2. QED
    BY <1>1, <1>3, <2>1, Typed, MovesOn DEF DumpUsers, Stages
<1>4. CASE SaveUsers(t)
  <2>1. file' \in [Users -> Record] /\ halfway' \in SUBSET Users
    BY <1>2, <1>4, Typed DEF SaveUsers
  <2>2. /\ mem' = mem /\ samba' = samba /\ sessions' = sessions /\ requests' = requests
        /\ faults' = faults /\ orderly' = orderly
    BY <1>4 DEF SaveUsers
  <2>3. CASE job[t].op \in {"edit", "login"}
    <3>1. PICK stage \in {"role", "session"} :
            Goto(t, stage) /\ stage = IF job[t].op = "edit" THEN "role" ELSE "session"
      BY <1>4, <2>3 DEF SaveUsers
    <3>2. stage \in Stages /\ JobFits(stage, job[t])
      BY <1>1, <2>3, <3>1 DEF Stages, JobFits
    <3>3. copy' \in [Threads -> [Users -> Record]] /\ job' = job /\ rec' = rec /\ held' = held
      BY <1>4, <2>3, Typed, RecordTypes DEF SaveUsers
    <3>4. QED
      BY <2>1, <2>2, <3>1, <3>2, <3>3, Typed, MovesOn
  <2>4. CASE job[t].op \notin {"edit", "login"}
    <3>1. EndRequest(t) /\ held' \in [Threads -> BOOLEAN]
      BY <1>4, <2>4, FinishTypes DEF SaveUsers
    <3>2. QED
      BY <2>1, <2>2, <3>1, Typed, Ends
  <2>5. QED
    BY <2>3, <2>4
<1>5. CASE SaveFails(t)
  <2>1. file' \in [Users -> Record]
    BY <1>2, <1>5, Typed DEF SaveFails
  <2>2. mem' \in [Users -> Record] /\ held' \in [Threads -> BOOLEAN]
    <3>1. CASE job[t].op = "create"
      BY <1>2, <1>5, <3>1, RecordTypes, ReplaceTypes DEF SaveFails
    <3>2. CASE job[t].op # "create"
      BY <1>5, <3>2, Typed DEF SaveFails
    <3>3. QED
      BY <3>1, <3>2
  <2>3. EndRequest(t) /\ faults' \in 0..MaxFaults
    BY <1>5, FaultTypes DEF SaveFails
  <2>4. QED
    BY <1>5, <2>1, <2>2, <2>3, Typed, Ends DEF SaveFails
<1>6. QED
  BY <1>3, <1>4, <1>5 DEF Save

LEMMA OthersTypes ==
  ASSUME TypeInv, (\E u \in Users : Logout(u)) \/ Restart \/ UNCHANGED vars
  PROVE  TypeInv'
<1>1. CASE (\E u \in Users : Logout(u)) \/ UNCHANGED vars
  <2>1. /\ file' = file /\ mem' = mem /\ samba' = samba /\ at' = at /\ job' = job /\ copy' = copy
        /\ rec' = rec /\ held' = held /\ requests' = requests /\ faults' = faults
        /\ orderly' = orderly /\ halfway' = halfway
    BY <1>1 DEF Logout, vars, thread
  <2>2. sessions' \in SUBSET Users
    BY <1>1, Typed DEF Logout, vars
  <2>3. TypeOK'
    BY <2>1, <2>2, Typed DEF TypeOK, Stages
  <2>4. QED
    BY <2>1, <2>3 DEF TypeInv
<1>2. CASE Restart
  <2>1. /\ at' \in [Threads -> Stages] /\ job' \in [Threads -> Job]
        /\ \A t \in Threads : at'[t] = "idle"
    BY <1>2, NoJobTypes DEF Restart, Stages
  <2>2. /\ copy' \in [Threads -> [Users -> Record]] /\ rec' \in [Threads -> Record]
        /\ held' \in [Threads -> BOOLEAN]
    BY <1>2, RecordTypes DEF Restart
  <2>3. mem' \in [Users -> Record] /\ faults' \in 0..MaxFaults
    BY <1>2, Typed, FaultTypes DEF Restart
  <2>4. /\ file' = file /\ samba' = samba /\ sessions' = sessions /\ requests' = requests
        /\ orderly' = orderly /\ halfway' = halfway
    BY <1>2 DEF Restart
  <2>5. TypeOK'
    BY <2>1, <2>2, <2>3, <2>4, Typed DEF TypeOK, Stages
  <2>6. QED
    BY <2>1, <2>5 DEF TypeInv, JobFits
<1>3. QED
  BY <1>1, <1>2

LEMMA StepTypes == ASSUME TypeInv, [Next]_vars PROVE TypeInv'
BY RequestTypes, ReloadTypes, ChangeTypes, SambaTypes, LoginTypes, SaveTypes, OthersTypes DEF Next

LEMMA InitTypes == ASSUME Init PROVE TypeInv
<1>1. PICK pw \in Passwords, names \in SUBSET Users, admins \in (SUBSET Users) \ {{}} :
        /\ admins \subseteq names
        /\ file = [u \in Users |->
                     IF u \in names THEN [NewRecord(pw, u \in admins) EXCEPT !.fails = LIMIT - 1]
                     ELSE NoRecord]
        /\ sessions \in SUBSET admins
  BY DEF Init
<1>2. \A u \in Users : [NewRecord(pw, u \in admins) EXCEPT !.fails = LIMIT - 1] \in Record
  <2>1. LIMIT - 1 \in 0..LIMIT
    BY UserAssumption
  <2>2. \A u \in Users : (u \in admins) \in BOOLEAN
    OBVIOUS
  <2>3. \A u \in Users : NewRecord(pw, u \in admins) \in Record
    BY <2>2, RecordTypes
  <2>4. QED
    BY <2>1, <2>3 DEF Record
<1>3. file \in [Users -> Record]
  BY <1>1, <1>2, RecordTypes
<1>4. mem = file /\ samba = [u \in Users |-> file[u].pw] /\ halfway = {}
      /\ requests = 0 /\ faults = 0 /\ orderly = TRUE
  BY DEF Init
<1>5. samba \in [Users -> Passwords \cup {None}]
  BY <1>3, <1>4 DEF Record
<1>6. /\ at \in [Threads -> Stages] /\ job \in [Threads -> Job]
      /\ \A t \in Threads : at[t] = "idle"
      /\ copy \in [Threads -> [Users -> Record]] /\ rec \in [Threads -> Record]
      /\ held \in [Threads -> BOOLEAN]
  BY NoJobTypes, RecordTypes DEF Init, Stages
<1>7. requests \in 0..MaxRequests /\ faults \in 0..MaxFaults
  BY <1>4, UserAssumption
<1>8. sessions \in SUBSET Users
  BY <1>1
<1>9. TypeOK
  BY <1>3, <1>4, <1>5, <1>6, <1>7, <1>8 DEF TypeOK, Stages
<1>10. QED
  BY <1>6, <1>9 DEF TypeInv, JobFits

-----------------------------------------------------------------------------
(* Requests that do not overlap                                            *)

LEMMA AdminLeft ==
  ASSUME NEW j \in AdminJob \cup LoginJob, NEW dict, Keeps(j, dict)
  PROVE  Sound(dict) /\ \E u \in Users : dict[u].admin
BY JobTypes DEF Keeps

\* Only the thread that moved has to be looked at, for the others are idle.
LEMMA OrderlyOf ==
  ASSUME OrderlyInv, NEW t \in Threads, at[t] # "idle" \/ \A s \in Threads : at[s] = "idle",
         \A s \in Threads \ {t} : at'[s] = at[s],
         Sound(file'), \E u \in Users : file'[u].admin,
         ThreadInv(t)'
  PROVE  OrderlyInv'
<1>1. \A s \in Threads \ {t} : at'[s] = "idle"
  BY DEF OrderlyInv
<1>2. \A r, s \in Threads : at'[r] # "idle" /\ at'[s] # "idle" => r = s
  BY <1>1
<1>3. \A s \in Threads : ThreadInv(s)'
  BY <1>1 DEF ThreadInv
<1>4. QED
  BY <1>2, <1>3 DEF OrderlyInv, Sound

\* A thread that moves on, with the file as it is.
LEMMA OrderlyGoto ==
  ASSUME TypeInv, OrderlyInv, NEW t \in Threads, at[t] # "idle", NEW stage \in Stages,
         Goto(t, stage), file' = file, ThreadInv(t)'
  PROVE  OrderlyInv'
BY GotoTypes, OrderlyOf DEF OrderlyInv

\* A request that ends leaves the file as it was or as the request wrote it.
LEMMA OrderlyEnd ==
  ASSUME TypeInv, OrderlyInv, NEW t \in Threads, at[t] # "idle", EndRequest(t),
         file' = file \/ Keeps(job[t], file')
  PROVE  OrderlyInv'
<1>1. at'[t] = "idle" /\ \A s \in Threads \ {t} : at'[s] = at[s]
  BY EndTypes
<1>2. ThreadInv(t)'
  BY <1>1 DEF ThreadInv
<1>3. Sound(file') /\ \E u \in Users : file'[u].admin
  BY AtWork, AdminLeft DEF OrderlyInv
<1>4. QED
  BY <1>1, <1>2, <1>3, OrderlyOf

LEMMA BeginOrderly ==
  ASSUME TypeInv, OrderlyInv, NEW t \in Threads, NEW j \in AdminJob \cup LoginJob, Begin(t, j),
         orderly', Keeps(j, file)
  PROVE  OrderlyInv'
<1>1. \A s \in Threads : at[s] = "idle"
  BY DEF Begin
<1>2. at'[t] = "reload" /\ \A s \in Threads \ {t} : at'[s] = at[s]
  BY GotoTypes DEF Begin, Stages
<1>3. job'[t] = j /\ file' = file
  BY Typed DEF Begin
<1>4. ThreadInv(t)'
  BY <1>2, <1>3 DEF ThreadInv
<1>5. QED
  BY <1>1, <1>2, <1>3, <1>4, OrderlyOf DEF OrderlyInv

LEMMA RequestOrderly ==
  ASSUME TypeInv, OrderlyInv, orderly', NEW t \in Threads, Request(t)
  PROVE  OrderlyInv'
<1>1. ASSUME NEW j \in AdminJob, AdminRequest(t, j) PROVE OrderlyInv'
  <2>1. j.op # "login"
    BY DEF AdminJob
  <2>2. Keeps(j, file)
    BY <1>1, <2>1 DEF AdminRequest, Keeps, OrderlyInv
  <2>3. QED
    BY <1>1, <2>2, BeginOrderly DEF AdminRequest
<1>2. ASSUME NEW j \in LoginJob, LoginRequest(t, j) PROVE OrderlyInv'
  <2>1. Keeps(j, file)
    BY DEF Keeps, OrderlyInv, LoginJob
  <2>2. QED
    BY <1>2, <2>1, BeginOrderly DEF LoginRequest
<1>3. ASSUME NEW u \in Users, SessionEnds(t, u) PROVE OrderlyInv'
  <2>1. /\ file' = file /\ mem' = mem /\ at' = at /\ job' = job /\ copy' = copy /\ rec' = rec
    BY <1>3 DEF SessionEnds, thread
  <2>2. QED
    BY <2>1 DEF OrderlyInv, ThreadInv
<1>4. QED
  BY <1>1, <1>2, <1>3 DEF Request

LEMMA ReloadOrderly ==
  ASSUME TypeInv, OrderlyInv, orderly', NEW t \in Threads, Reload(t)
  PROVE  OrderlyInv'
<1>1. at[t] # "idle" /\ Keeps(job[t], file)
  BY DEF Reload, LoadUsers, LoadFails, ReloadUsers, OrderlyInv, ThreadInv
<1>2. CASE LoadUsers(t)
  <2>1. Goto(t, "assign") /\ file' = file /\ job' = job /\ copy'[t] = file
    BY <1>2, Typed DEF LoadUsers
  <2>2. at'[t] = "assign"
    BY <2>1, GotoTypes DEF Stages
  <2>3. ThreadInv(t)'
    BY <1>1, <2>1, <2>2 DEF ThreadInv
  <2>4. QED
    BY <1>1, <2>1, <2>3, OrderlyGoto DEF Stages
<1>3. CASE LoadFails(t)
  BY <1>3 DEF LoadFails
<1>4. CASE ReloadUsers(t)
  <2>1. job[t] \in AdminJob \cup LoginJob
    BY <1>1, AtWork
  <2>2. job[t].op \in {"list", "create", "edit", "delete", "login"}
    BY <2>1, JobTypes
  <2>3. Goto(t, job[t].op) /\ job[t].op \in Stages /\ file' = file /\ job' = job /\ mem' = copy[t]
    BY <1>4, <2>2 DEF ReloadUsers, Stages
  <2>4. at'[t] = job[t].op
    BY <2>3, GotoTypes
  <2>5. Keeps(job[t], mem')
    BY <1>1, <1>4, <2>3 DEF ReloadUsers, OrderlyInv, ThreadInv
  <2>6. ThreadInv(t)'
    BY <1>1, <2>2, <2>3, <2>4, <2>5 DEF ThreadInv
  <2>7. QED
    BY <1>1, <2>3, <2>6, OrderlyGoto
<1>5. QED
  BY <1>2, <1>3, <1>4 DEF Reload

LEMMA ChangeOrderly ==
  ASSUME TypeInv, OrderlyInv, NEW t \in Threads, Change(t)
  PROVE  OrderlyInv'
<1> DEFINE j == job[t]
<1>1. \/ at[t] # "idle" /\ at[t] \in {"list", "create", "edit", "role", "delete", "login"}
      \/ Rejected(t) /\ at[t] # "idle" /\ at[t] \notin {"reload", "assign"}
  BY DEF Change, ListUsers, Reject, Rejected, DemotesSelf, Create, Edit, Delete, KeepRole, SetRole
<1>2. Keeps(j, file) /\ Keeps(j, mem) /\ j \in AdminJob \cup LoginJob /\ at[t] # "idle"
  BY <1>1, AtWork DEF OrderlyInv, ThreadInv
<1>3. CASE ListUsers(t) \/ Reject(t) \/ KeepRole(t)
  <2>1. EndRequest(t) /\ file' = file
    BY <1>3 DEF ListUsers, Reject, KeepRole, Finish
  <2>2. QED
    BY <1>2, <2>1, OrderlyEnd
<1>4. CASE Create(t)
  <2>1. j.op = "create" /\ j.user \in Users /\ j.by \in Users /\ j.pw \in Passwords
        /\ j.admin \in BOOLEAN
    BY <1>2, <1>4, AtWork, JobTypes DEF Create, JobFits
  <2>2. NewRecord(j.pw, j.admin) \in Record /\ NewRecord(j.pw, j.admin).pw = j.pw /\ j.pw # None
    BY <2>1, RecordTypes, UserAssumption
  <2>3. mem'[j.user] = NewRecord(j.pw, j.admin) /\ \A v \in Users \ {j.user} : mem'[v] = mem[v]
    BY <1>4, <2>1, <2>2, ReplaceTypes DEF Create
  <2>4. j.user # j.by
    BY <1>2, <1>4, <2>1 DEF Create, Rejected, Exists, Keeps, Sound
  <2>5. Keeps(j, mem')
    BY <1>2, <2>1, <2>2, <2>3, <2>4 DEF Keeps, Sound
  <2>6. Goto(t, "samba") /\ file' = file /\ job' = job
    BY <1>4 DEF Create
  <2>7. at'[t] = "samba"
    BY <2>6, GotoTypes DEF Stages
  <2>8. ThreadInv(t)'
    BY <1>2, <2>1, <2>5, <2>6, <2>7 DEF ThreadInv
  <2>9. QED
    BY <1>2, <2>6, <2>8, OrderlyGoto DEF Stages
<1>5. CASE Edit(t)
  <2>1. j.op = "edit" /\ j.user \in Users /\ j.by \in Users
    BY <1>2, <1>5, AtWork, JobTypes DEF Edit, JobFits
  <2>2. j.user = j.by => j.role # "plain" /\ mem[j.user].admin
    BY <1>2, <1>5, <2>1 DEF Edit, DemotesSelf, Keeps
  <2>3. PICK stage \in {"role", "samba"} :
          Goto(t, stage) /\ (stage = "samba" => rec'[t] = mem[j.user])
    BY <1>5, Typed DEF Edit
  <2>4. file' = file /\ job' = job /\ mem' = mem
    BY <1>5 DEF Edit
  <2>5. at'[t] = stage
    BY <2>3, GotoTypes DEF Stages
  <2>6. ThreadInv(t)'
    BY <1>2, <2>1, <2>2, <2>3, <2>4, <2>5 DEF ThreadInv
  <2>7. QED
    BY <1>2, <2>3, <2>4, <2>6, OrderlyGoto DEF Stages
<1>6. CASE Delete(t)
  <2>1. j.op = "delete" /\ j.user # j.by
    BY <1>2, <1>6, AtWork DEF Delete, JobFits, Rejected
  <2>2. Goto(t, "samba") /\ file' = file /\ job' = job /\ mem' = mem
    BY <1>6 DEF Delete
  <2>3. at'[t] = "samba"
    BY <2>2, GotoTypes DEF Stages
  <2>4. ThreadInv(t)'
    BY <1>2, <2>1, <2>2, <2>3 DEF ThreadInv
  <2>5. QED
    BY <1>2, <2>2, <2>4, OrderlyGoto DEF Stages
<1>7. CASE SetRole(t)
  <2>1. j \in AdminJob /\ j.op = "edit" /\ j.user \in Users /\ j.by \in Users
        /\ j.role \in {"admin", "plain"}
    BY <1>2, <1>7, AtWork, JobTypes DEF SetRole, JobFits, LoginJob
  <2>2. j.user = j.by => j.role = "admin"
    BY <1>2, <1>7, <2>1 DEF SetRole, OrderlyInv, ThreadInv
  <2>3. mem[j.user].pw # None
    BY <1>7 DEF SetRole, Rejected, Exists
  <2> DEFINE r == [mem[j.user] EXCEPT !.admin = j.role = "admin"]
  <2>4. mem' = [mem EXCEPT ![j.user] = r]
    BY <1>7, Typed DEF SetRole
  <2>5. r.pw = mem[j.user].pw /\ r.admin = (j.role = "admin")
    <3>1. mem[j.user] \in Record /\ (j.role = "admin") \in BOOLEAN
      BY <2>1, Typed
    <3>2. QED
      BY <3>1, RecordTypes
  <2> HIDE DEF r
  <2>6. mem'[j.user] = r /\ \A v \in Users \ {j.user} : mem'[v] = mem[v]
    BY <2>1, <2>4, Typed
  <2>7. Sound(mem')
    BY <1>2, <2>3, <2>5, <2>6 DEF Keeps, Sound
  <2>8. mem'[j.by].admin
    BY <1>2, <2>1, <2>2, <2>5, <2>6 DEF Keeps
  <2> DEFINE k == [j EXCEPT !.role = "keep"]
  <2>9. k.op = "edit" /\ k.role = "keep" /\ k.by = j.by
    BY <2>1, RoleDone
  <2>10. job' = [job EXCEPT ![t] = k]
    BY <1>7, Typed DEF SetRole
  <2> HIDE DEF k
  <2>11. job'[t] = k
    BY <2>10, Typed
  <2>12. Goto(t, "save") /\ file' = file
    BY <1>7 DEF SetRole
  <2>13. at'[t] = "save"
    BY <2>12, GotoTypes DEF Stages
  <2>14. Keeps(k, file) /\ Keeps(k, mem')
    BY <1>2, <2>1, <2>7, <2>8, <2>9 DEF Keeps
  <2>15. ThreadInv(t)'
    BY <2>9, <2>11, <2>12, <2>13, <2>14 DEF ThreadInv
  <2>16. QED
    BY <1>2, <2>12, <2>15, OrderlyGoto DEF Stages
<1>8. QED
  BY <1>3, <1>4, <1>5, <1>6, <1>7 DEF Change

LEMMA SambaOrderly ==
  ASSUME TypeInv, OrderlyInv, NEW t \in Threads, Samba(t)
  PROVE  OrderlyInv'
<1> DEFINE j == job[t]
<1>1. at[t] \in {"samba", "update"}
  BY DEF Samba, SambaAccepts, SambaRefuses, SambaTimesOut, UpdateUsers, DeletedTwice
<1>2. /\ Keeps(j, file) /\ Keeps(j, mem)
      /\ j.op = "edit" /\ j.user = j.by => j.role # "plain" /\ rec[t].admin
      /\ j.op = "delete" => j.user # j.by
  BY <1>1 DEF OrderlyInv, ThreadInv
<1>3. /\ j.op \in {"create", "edit", "delete"} /\ j.user \in Users /\ j.by \in Users
      /\ at[t] = "update" => j.op \in {"edit", "delete"}
      /\ j.op = "edit" => j.pw \in Passwords \cup {None} /\ j.pw # None
  BY <1>1, AtWork, JobTypes DEF JobFits
<1>4. CASE SambaRefuses(t) \/ SambaTimesOut(t) \/ DeletedTwice(t)
  <2>1. EndRequest(t) /\ file' = file
    BY <1>4 DEF SambaRefuses, SambaTimesOut, DeletedTwice, Finish
  <2>2. QED
    BY <1>1, <2>1, OrderlyEnd
<1>5. CASE SambaAccepts(t)
  <2>1. PICK stage \in {"save", "update"} : Goto(t, stage)
    BY <1>5 DEF SambaAccepts
  <2>2. file' = file /\ job' = job /\ mem' = mem /\ rec' = rec
    BY <1>5 DEF SambaAccepts
  <2>3. at'[t] = stage
    BY <2>1, GotoTypes DEF Stages
  <2>4. ThreadInv(t)'
    BY <1>2, <2>1, <2>2, <2>3 DEF ThreadInv
  <2>5. QED
    BY <1>1, <2>1, <2>2, <2>4, OrderlyGoto DEF Stages
<1>6. CASE UpdateUsers(t)
  <2> DEFINE r == IF j.op = "edit" THEN [rec[t] EXCEPT !.pw = j.pw] ELSE NoRecord
  <2>1. r \in Record /\ (r.admin => r.pw # None) /\ (j.user = j.by => r.admin)
    <3>1. rec[t] \in Record
      BY Typed
    <3>2. CASE j.op = "edit"
      BY <1>2, <1>3, <3>1, <3>2, RecordTypes
    <3>3. CASE j.op = "delete"
      BY <1>2, <3>3, RecordTypes
    <3>4. QED
      BY <1>3, <1>6, <3>2, <3>3 DEF UpdateUsers
  <2>2. Replace(j.user, r) /\ Goto(t, "save") /\ file' = file /\ job' = job
    BY <1>6 DEF UpdateUsers
  <2> HIDE DEF r
  <2>3. mem'[j.user] = r /\ \A v \in Users \ {j.user} : mem'[v] = mem[v]
    BY <1>3, <2>1, <2>2, ReplaceTypes
  <2>4. Keeps(j, mem')
    BY <1>2, <1>3, <2>1, <2>3 DEF Keeps, Sound
  <2>5. at'[t] = "save"
    BY <2>2, GotoTypes DEF Stages
  <2>6. ThreadInv(t)'
    BY <1>2, <2>2, <2>4, <2>5 DEF ThreadInv
  <2>7. QED
    BY <1>1, <2>2, <2>6, OrderlyGoto DEF Stages
<1>7. QED
  BY <1>4, <1>5, <1>6 DEF Samba

LEMMA LoginOrderly ==
  ASSUME TypeInv, OrderlyInv, NEW t \in Threads, Login(t)
  PROVE  OrderlyInv'
<1>1. at[t] \in {"login", "hash", "session"}
  BY DEF Login, Verify, LockedOut, VerifyResult, LogIn
<1>2. Keeps(job[t], file) /\ Keeps(job[t], mem) /\ job[t].op = "login"
  BY <1>1, AtWork DEF OrderlyInv, ThreadInv, JobFits
<1>3. CASE LockedOut(t) \/ LogIn(t)
  <2>1. EndRequest(t) /\ file' = file
    BY <1>3 DEF LockedOut, LogIn, Finish
  <2>2. QED
    BY <1>1, <2>1, OrderlyEnd
<1>4. CASE Verify(t) \/ VerifyResult(t)
  <2>1. \A u \in Users : mem'[u].pw = mem[u].pw /\ mem'[u].admin = mem[u].admin
    BY <1>4, LoginChanges
  <2>2. Keeps(job[t], mem')
    BY <1>2, <2>1 DEF Keeps, Sound
  <2>3. PICK stage \in {"hash", "save"} : Goto(t, stage)
    BY <1>4 DEF Verify, VerifyResult
  <2>4. file' = file /\ job' = job
    BY <1>4 DEF Verify, VerifyResult
  <2>5. at'[t] = stage
    BY <2>3, GotoTypes DEF Stages
  <2>6. ThreadInv(t)'
    BY <1>2, <2>2, <2>4, <2>5 DEF ThreadInv
  <2>7. QED
    BY <1>1, <2>3, <2>4, <2>6, OrderlyGoto DEF Stages
<1>5. QED
  BY <1>3, <1>4 DEF Login

\* What is written still has the administrator who asked for it.
LEMMA SaveOrderly ==
  ASSUME TypeInv, OrderlyInv, NEW t \in Threads, Save(t)
  PROVE  OrderlyInv'
<1> DEFINE j == job[t]
<1>1. at[t] \in {"save", "publish"}
  BY DEF Save, DumpUsers, SaveUsers, SaveFails
<1>2. /\ Keeps(j, file) /\ Keeps(j, mem) /\ (at[t] = "publish" => Keeps(j, copy[t]))
      /\ j.op = "edit" /\ j.user = j.by => j.role # "plain"
      /\ j \in AdminJob \cup LoginJob
  BY <1>1, AtWork DEF OrderlyInv, ThreadInv
<1>3. CASE DumpUsers(t)
  <2>1. Goto(t, "publish") /\ file' = file /\ job' = job /\ mem' = mem /\ copy'[t] = mem
    BY <1>3, Typed DEF DumpUsers
  <2>2. at'[t] = "publish"
    BY <2>1, GotoTypes DEF Stages
  <2>3. ThreadInv(t)'
    BY <1>2, <2>1, <2>2 DEF ThreadInv
  <2>4. QED
    BY <1>1, <2>1, <2>3, OrderlyGoto DEF Stages
<1>4. CASE SaveUsers(t)
  <2>1. file' = copy[t] /\ Keeps(j, file')
    BY <1>2, <1>4 DEF SaveUsers
  <2>2. CASE j.op \in {"edit", "login"}
    <3>1. PICK stage \in {"role", "session"} :
            Goto(t, stage) /\ stage = IF j.op = "edit" THEN "role" ELSE "session"
      BY <1>4, <2>2 DEF SaveUsers
    <3>2. at'[t] = stage /\ \A s \in Threads \ {t} : at'[s] = at[s]
      BY <3>1, GotoTypes DEF Stages
    <3>3. job' = job /\ mem' = mem
      BY <1>4, <2>2 DEF SaveUsers
    <3>4. ThreadInv(t)'
      BY <1>2, <2>1, <3>1, <3>2, <3>3 DEF ThreadInv
    <3>5. Sound(file') /\ \E u \in Users : file'[u].admin
      BY <1>2, <2>1, AdminLeft
    <3>6. QED
      BY <1>1, <3>2, <3>4, <3>5, OrderlyOf
  <2>3. CASE j.op \notin {"edit", "login"}
    <3>1. EndRequest(t)
      BY <1>4, <2>3 DEF SaveUsers, Finish
    <3>2. QED
      BY <1>1, <2>1, <3>1, OrderlyEnd
  <2>4. QED
    BY <2>2, <2>3
<1>5. CASE SaveFails(t)
  <2>1. EndRequest(t) /\ (file' = file \/ Keeps(j, file'))
    BY <1>2, <1>5 DEF SaveFails
  <2>2. QED
    BY <1>1, <2>1, OrderlyEnd
<1>6. QED
  BY <1>3, <1>4, <1>5 DEF Save

LEMMA OthersOrderly ==
  ASSUME TypeInv, OrderlyInv, (\E u \in Users : Logout(u)) \/ Restart \/ UNCHANGED vars
  PROVE  OrderlyInv'
<1>1. CASE (\E u \in Users : Logout(u)) \/ UNCHANGED vars
  <2>1. /\ file' = file /\ mem' = mem /\ at' = at /\ job' = job /\ copy' = copy /\ rec' = rec
    BY <1>1 DEF Logout, vars, thread
  <2>2. QED
    BY <2>1 DEF OrderlyInv, ThreadInv
<1>2. CASE Restart
  <2>1. file' = file /\ \A t \in Threads : at'[t] = "idle"
    BY <1>2 DEF Restart
  <2>2. QED
    BY <2>1 DEF OrderlyInv, ThreadInv
<1>3. QED
  BY <1>1, <1>2

LEMMA OrderlyOnce == ASSUME [Next]_vars, orderly' PROVE orderly
<1>1. ASSUME NEW t \in Threads, Request(t) PROVE orderly
  BY <1>1 DEF Request, AdminRequest, LoginRequest, SessionEnds, Begin
<1>2. ASSUME NEW t \in Threads, Reload(t) \/ Change(t) \/ Samba(t) \/ Login(t) \/ Save(t)
      PROVE  orderly
  BY <1>2 DEF Reload, LoadUsers, LoadFails, ReloadUsers, Change, ListUsers, Reject, Create, Edit,
     Delete, KeepRole, SetRole, Samba, SambaAccepts, SambaRefuses, SambaTimesOut, UpdateUsers,
     DeletedTwice, Login, Verify, LockedOut, VerifyResult, LogIn, Save, DumpUsers, SaveUsers,
     SaveFails
<1>3. QED
  BY <1>1, <1>2 DEF Next, Logout, Restart, vars

LEMMA InitInv == ASSUME Init PROVE IInv
<1>1. PICK pw \in Passwords, names \in SUBSET Users, admins \in (SUBSET Users) \ {{}} :
        /\ admins \subseteq names
        /\ file = [u \in Users |->
                     IF u \in names THEN [NewRecord(pw, u \in admins) EXCEPT !.fails = LIMIT - 1]
                     ELSE NoRecord]
        /\ sessions \in SUBSET admins
  BY DEF Init
<1>2. ASSUME NEW u \in names
      PROVE  file[u].pw = pw /\ (u \in admins => file[u].admin)
  <2> DEFINE a == u \in admins
             r == NewRecord(pw, a)
  <2>1. a \in BOOLEAN
    OBVIOUS
  <2>2. r \in Record /\ r.pw = pw /\ r.admin = a
    <3> HIDE DEF a
    <3>1. QED
      BY <2>1, RecordTypes
  <2>3. file[u] = [r EXCEPT !.fails = LIMIT - 1]
    BY <1>1
  <2> HIDE DEF r
  <2>4. file[u].pw = r.pw /\ file[u].admin = r.admin
    BY <2>2, <2>3 DEF Record
  <2>5. QED
    BY <2>2, <2>4
<1>3. Sound(file) /\ \E u \in Users : file[u].admin
  <2>1. pw # None
    BY UserAssumption
  <2>2. \A u \in Users \ names : file[u].admin = FALSE
    BY <1>1, RecordTypes
  <2>3. \E u \in admins : u \in names /\ u \in Users
    BY <1>1
  <2>4. QED
    BY <1>2, <2>1, <2>2, <2>3 DEF Sound
<1>4. \A t \in Threads : at[t] = "idle"
  BY DEF Init
<1>5. OrderlyInv
  BY <1>3, <1>4 DEF OrderlyInv, ThreadInv
<1>6. QED
  BY <1>5, InitTypes DEF IInv

LEMMA StepKeeps == ASSUME IInv, [Next]_vars PROVE IInv'
<1>1. TypeInv'
  BY StepTypes DEF IInv
<1>2. ASSUME orderly' PROVE OrderlyInv'
  <2>1. TypeInv /\ OrderlyInv
    BY <1>2, OrderlyOnce DEF IInv
  <2>2. QED
    BY <1>2, <2>1, RequestOrderly, ReloadOrderly, ChangeOrderly, SambaOrderly, LoginOrderly,
       SaveOrderly, OthersOrderly DEF Next
<1>3. QED
  BY <1>1, <1>2 DEF IInv

LEMMA Invariant == Spec => []IInv
BY InitInv, StepKeeps, PTL DEF Spec

-----------------------------------------------------------------------------
(* The two copies of a password                                            *)

\* The request sets or removes the password of u, to this in the end.
Changes(j, u) ==
  /\ j.op \in {"create", "edit", "delete"} /\ u = j.user
  /\ j.op = "edit" => j.pw # None
Target(j) == IF j.op = "delete" THEN None ELSE j.pw

\* The two dictionaries agree on every password the request does not change.
Same(j, dict, other) == \A u \in Users : ~Changes(j, u) => dict[u].pw = other[u].pw

\* Nothing but the password that is asked for gets from Samba to memory, from there
\* to what is written and to the file; once Samba has it, so have the others that follow.
Carries(t) ==
  LET j == job[t]
  IN  /\ at[t] \notin {"idle", "reload", "assign"} => Same(j, mem, file)
      /\ at[t] = "publish" => Same(j, copy[t], file)
      /\ at[t] = "edit" => mem[j.user].pw = file[j.user].pw
      /\ at[t] \in {"role", "samba", "update", "save", "publish"} /\ j.op = "edit" =>
           Exists(file, j.user)
      /\ at[t] = "samba" /\ j.op = "create" => mem[j.user].pw = j.pw
      /\ at[t] = "update" => samba[j.user] = Target(j)
      /\ at[t] \in {"role", "save", "publish"} /\ Changes(j, j.user) =>
           samba[j.user] = Target(j) /\ mem[j.user].pw = Target(j)
      /\ at[t] = "publish" /\ Changes(j, j.user) => copy[t][j.user].pw = Target(j)

Agreed == \A u \in Users \ halfway : file[u].pw = samba[u]

CredInv == Agreed /\ \A t \in Threads : Carries(t)

FullInv == IInv /\ (orderly => CredInv)

-----------------------------------------------------------------------------
(* The two copies of a password: one step                                  *)

\* Only the thread that moved has to be looked at.
LEMMA CredOf ==
  ASSUME OrderlyInv, NEW t \in Threads, at[t] # "idle" \/ \A s \in Threads : at[s] = "idle",
         \A s \in Threads \ {t} : at'[s] = at[s],
         Agreed', Carries(t)'
  PROVE  CredInv'
<1>1. \A s \in Threads \ {t} : at'[s] = "idle"
  BY DEF OrderlyInv
<1>2. \A s \in Threads : Carries(s)'
  BY <1>1 DEF Carries
<1>3. QED
  BY <1>2 DEF CredInv

LEMMA CredGoto ==
  ASSUME TypeInv, OrderlyInv, NEW t \in Threads, at[t] # "idle", NEW stage \in Stages,
         Goto(t, stage), Agreed', Carries(t)'
  PROVE  CredInv'
BY GotoTypes, CredOf

LEMMA CredEnd ==
  ASSUME TypeInv, OrderlyInv, NEW t \in Threads, at[t] # "idle", EndRequest(t), Agreed'
  PROVE  CredInv'
<1>1. at'[t] = "idle" /\ \A s \in Threads \ {t} : at'[s] = at[s]
  BY EndTypes
<1>2. Carries(t)'
  BY <1>1 DEF Carries
<1>3. QED
  BY <1>1, <1>2, CredOf

\* Neither the file nor Samba changes, and no user becomes settled.
LEMMA AgreedStays ==
  ASSUME Agreed, file' = file, samba' = samba, halfway' = halfway
  PROVE  Agreed'
BY DEF Agreed

LEMMA RequestCred ==
  ASSUME TypeInv, OrderlyInv, CredInv, orderly', NEW t \in Threads, Request(t)
  PROVE  CredInv'
<1>1. Agreed'
  BY AgreedStays DEF CredInv, Request, AdminRequest, LoginRequest, SessionEnds, Begin
<1>2. ASSUME NEW j \in AdminJob \cup LoginJob, Begin(t, j) PROVE CredInv'
  <2>1. \A s \in Threads : at[s] = "idle"
    BY <1>2 DEF Begin
  <2>2. at'[t] = "reload" /\ \A s \in Threads \ {t} : at'[s] = at[s]
    BY <1>2, GotoTypes DEF Begin, Stages
  <2>3. Carries(t)'
    BY <2>2 DEF Carries
  <2>4. QED
    BY <1>1, <2>1, <2>2, <2>3, CredOf
<1>3. ASSUME NEW u \in Users, SessionEnds(t, u) PROVE CredInv'
  <2>1. /\ file' = file /\ mem' = mem /\ samba' = samba /\ at' = at /\ job' = job
        /\ copy' = copy
    BY <1>3 DEF SessionEnds, thread
  <2>2. \A s \in Threads : Carries(s)'
    BY <2>1 DEF CredInv, Carries, Same, Changes, Target, Exists
  <2>3. QED
    BY <1>1, <2>2 DEF CredInv
<1>4. QED
  BY <1>2, <1>3 DEF Request, AdminRequest, LoginRequest

LEMMA ReloadCred ==
  ASSUME TypeInv, OrderlyInv, CredInv, orderly', NEW t \in Threads, Reload(t)
  PROVE  CredInv'
<1>1. at[t] \in {"reload", "assign"}
  BY DEF Reload, LoadUsers, LoadFails, ReloadUsers
<1>2. Agreed' /\ file' = file /\ job' = job
  BY AgreedStays DEF CredInv, Reload, LoadUsers, LoadFails, ReloadUsers
<1>3. CASE LoadUsers(t)
  <2>1. Goto(t, "assign")
    BY <1>3 DEF LoadUsers
  <2>2. at'[t] = "assign"
    BY <2>1, GotoTypes DEF Stages
  <2>3. Carries(t)'
    BY <2>2 DEF Carries
  <2>4. QED
    BY <1>1, <1>2, <2>1, <2>3, CredGoto DEF Stages
<1>4. CASE LoadFails(t)
  BY <1>4 DEF LoadFails
<1>5. CASE ReloadUsers(t)
  <2>1. job[t] \in AdminJob \cup LoginJob
    BY <1>1, AtWork
  <2>2. job[t].op \in {"list", "create", "edit", "delete", "login"}
    BY <2>1, JobTypes
  <2>3. Goto(t, job[t].op) /\ job[t].op \in Stages /\ mem' = copy[t] /\ at[t] = "assign"
    BY <1>5, <2>2 DEF ReloadUsers, Stages
  <2>4. at'[t] = job[t].op
    BY <2>3, GotoTypes
  <2>5. mem' = file
    BY <2>3 DEF OrderlyInv, ThreadInv
  <2>6. Carries(t)'
    BY <1>2, <2>2, <2>4, <2>5 DEF Carries, Same
  <2>7. QED
    BY <1>1, <1>2, <2>3, <2>6, CredGoto
<1>6. QED
  BY <1>3, <1>4, <1>5 DEF Reload

LEMMA ChangeCred ==
  ASSUME TypeInv, OrderlyInv, CredInv, NEW t \in Threads, Change(t)
  PROVE  CredInv'
<1> DEFINE j == job[t]
<1>1. \/ at[t] # "idle" /\ at[t] \in {"list", "create", "edit", "role", "delete", "login"}
      \/ Rejected(t) /\ at[t] # "idle" /\ at[t] \notin {"reload", "assign"}
  BY DEF Change, ListUsers, Reject, Rejected, DemotesSelf, Create, Edit, Delete, KeepRole, SetRole
<1>2. Same(j, mem, file) /\ j \in AdminJob \cup LoginJob /\ at[t] # "idle" /\ Carries(t)
  BY <1>1, AtWork DEF CredInv, Carries
<1>3. Agreed' /\ file' = file /\ samba' = samba
  BY AgreedStays DEF CredInv, Change, ListUsers, Reject, Create, Edit, Delete, KeepRole, SetRole
<1>4. CASE ListUsers(t) \/ Reject(t) \/ KeepRole(t)
  <2>1. EndRequest(t)
    BY <1>4 DEF ListUsers, Reject, KeepRole, Finish
  <2>2. QED
    BY <1>2, <1>3, <2>1, CredEnd
<1>5. CASE Create(t)
  <2>1. j.op = "create" /\ j.user \in Users /\ j.pw \in Passwords /\ j.admin \in BOOLEAN
    BY <1>2, <1>5, AtWork, JobTypes DEF Create, JobFits
  <2>2. NewRecord(j.pw, j.admin) \in Record /\ NewRecord(j.pw, j.admin).pw = j.pw
    BY <2>1, RecordTypes
  <2>3. mem'[j.user] = NewRecord(j.pw, j.admin) /\ \A v \in Users \ {j.user} : mem'[v] = mem[v]
    BY <1>5, <2>1, <2>2, ReplaceTypes DEF Create
  <2>4. Goto(t, "samba") /\ job' = job
    BY <1>5 DEF Create
  <2>5. at'[t] = "samba"
    BY <2>4, GotoTypes DEF Stages
  <2>6. Same(j, mem', file)
    BY <1>2, <2>1, <2>3 DEF Same, Changes
  <2>7. Carries(t)'
    BY <1>3, <2>1, <2>2, <2>3, <2>4, <2>5, <2>6 DEF Carries, Same, Changes
  <2>8. QED
    BY <1>2, <1>3, <2>4, <2>7, CredGoto DEF Stages
<1>6. CASE Edit(t)
  <2>1. at[t] = "edit" /\ j.op = "edit" /\ j.user \in Users
    BY <1>2, <1>6, AtWork, JobTypes DEF Edit, JobFits
  <2>2. Exists(file, j.user)
    BY <1>2, <1>6, <2>1 DEF Edit, Rejected, Exists, Carries
  <2>3. PICK stage \in {"role", "samba"} :
          Goto(t, stage) /\ stage = IF j.pw = None THEN "role" ELSE "samba"
    BY <1>6 DEF Edit
  <2>4. job' = job /\ mem' = mem
    BY <1>6 DEF Edit
  <2>5. at'[t] = stage
    BY <2>3, GotoTypes DEF Stages
  <2>6. Carries(t)'
    BY <1>2, <1>3, <2>1, <2>2, <2>3, <2>4, <2>5 DEF Carries, Same, Changes, Exists
  <2>7. QED
    BY <1>2, <1>3, <2>3, <2>6, CredGoto DEF Stages
<1>7. CASE Delete(t)
  <2>1. j.op = "delete"
    BY <1>2, <1>7, AtWork DEF Delete, JobFits
  <2>2. Goto(t, "samba") /\ job' = job /\ mem' = mem
    BY <1>7 DEF Delete
  <2>3. at'[t] = "samba"
    BY <2>2, GotoTypes DEF Stages
  <2>4. Carries(t)'
    BY <1>2, <1>3, <2>1, <2>2, <2>3 DEF Carries, Same, Changes
  <2>5. QED
    BY <1>2, <1>3, <2>2, <2>4, CredGoto DEF Stages
<1>8. CASE SetRole(t)
  <2>1. j \in AdminJob /\ j.op = "edit" /\ j.user \in Users /\ at[t] = "role"
    BY <1>2, <1>8, AtWork, JobTypes DEF SetRole, JobFits, LoginJob
  <2> DEFINE r == [mem[j.user] EXCEPT !.admin = j.role = "admin"]
  <2>2. mem' = [mem EXCEPT ![j.user] = r]
    BY <1>8, Typed DEF SetRole
  <2>3. r.pw = mem[j.user].pw
    <3>1. mem[j.user] \in Record /\ (j.role = "admin") \in BOOLEAN
      BY <2>1, Typed
    <3>2. QED
      BY <3>1, RecordTypes
  <2> HIDE DEF r
  <2>4. \A v \in Users : mem'[v].pw = mem[v].pw
    BY <2>1, <2>2, <2>3, Typed
  <2> DEFINE k == [j EXCEPT !.role = "keep"]
  <2>5. k.op = "edit" /\ k.user = j.user /\ k.pw = j.pw
    BY <2>1, RoleDone
  <2>6. job' = [job EXCEPT ![t] = k]
    BY <1>8, Typed DEF SetRole
  <2> HIDE DEF k
  <2>7. job'[t] = k
    BY <2>6, Typed
  <2>8. Goto(t, "save")
    BY <1>8 DEF SetRole
  <2>9. at'[t] = "save"
    BY <2>8, GotoTypes DEF Stages
  <2>10. \A u \in Users : Changes(k, u) = Changes(j, u)
    BY <2>1, <2>5 DEF Changes
  <2>11. Same(k, mem', file) /\ Target(k) = Target(j)
    BY <1>2, <2>1, <2>4, <2>5, <2>10 DEF Same, Target
  <2>12. Carries(t)'
    BY <1>2, <1>3, <2>1, <2>4, <2>5, <2>7, <2>9, <2>10, <2>11 DEF Carries, Same, Exists
  <2>13. QED
    BY <1>2, <1>3, <2>8, <2>12, CredGoto DEF Stages
<1>9. QED
  BY <1>4, <1>5, <1>6, <1>7, <1>8 DEF Change

LEMMA SambaCred ==
  ASSUME TypeInv, OrderlyInv, CredInv, NEW t \in Threads, Samba(t)
  PROVE  CredInv'
<1> DEFINE j == job[t]
<1>1. at[t] \in {"samba", "update"}
  BY DEF Samba, SambaAccepts, SambaRefuses, SambaTimesOut, UpdateUsers, DeletedTwice
<1>2. Same(j, mem, file) /\ Carries(t)
  BY <1>1 DEF CredInv, Carries
<1>3. /\ j.op \in {"create", "edit", "delete"} /\ j.user \in Users
      /\ at[t] = "update" => j.op \in {"edit", "delete"}
      /\ j.op = "edit" => j.pw \in Passwords \cup {None} /\ j.pw # None
  BY <1>1, AtWork, JobTypes DEF JobFits
<1>4. Changes(j, j.user) /\ \A u \in Users \ {j.user} : ~Changes(j, u)
  BY <1>3 DEF Changes
<1>5. file' = file
  BY DEF Samba, SambaAccepts, SambaRefuses, SambaTimesOut, UpdateUsers, DeletedTwice
\* Samba has it, and the change is not through.
<1>6. ASSUME samba' = [samba EXCEPT ![j.user] = Target(j)], halfway' = halfway \cup {j.user}
      PROVE  Agreed'
  BY <1>3, <1>5, <1>6, Typed DEF CredInv, Agreed
<1>7. CASE SambaRefuses(t) \/ SambaTimesOut(t) \/ DeletedTwice(t)
  <2>1. EndRequest(t)
    BY <1>7 DEF SambaRefuses, SambaTimesOut, DeletedTwice, Finish
  <2>2. Agreed'
    BY <1>5, <1>6, <1>7, AgreedStays
    DEF CredInv, SambaRefuses, SambaTimesOut, DeletedTwice, Target
  <2>3. QED
    BY <1>1, <2>1, <2>2, CredEnd
<1>8. CASE SambaAccepts(t)
  <2>1. PICK stage \in {"save", "update"} :
          Goto(t, stage) /\ stage = IF j.op = "create" THEN "save" ELSE "update"
    BY <1>8 DEF SambaAccepts
  <2>2. /\ job' = job /\ mem' = mem /\ at[t] = "samba"
        /\ samba' = [samba EXCEPT ![j.user] = Target(j)] /\ halfway' = halfway \cup {j.user}
    BY <1>8 DEF SambaAccepts, Target
  <2>3. at'[t] = stage /\ samba'[j.user] = Target(j)
    BY <1>3, <2>1, <2>2, GotoTypes, Typed DEF Stages
  <2>4. j.op = "create" => mem[j.user].pw = Target(j)
    BY <1>2, <2>2 DEF Carries, Target
  <2>5. Carries(t)'
    BY <1>2, <1>5, <2>1, <2>2, <2>3, <2>4 DEF Carries, Same, Changes, Target, Exists
  <2>6. QED
    BY <1>1, <1>6, <2>1, <2>2, <2>5, CredGoto DEF Stages
<1>9. CASE UpdateUsers(t)
  <2> DEFINE r == IF j.op = "edit" THEN [rec[t] EXCEPT !.pw = j.pw] ELSE NoRecord
  <2>1. at[t] = "update" /\ j.op \in {"edit", "delete"}
    BY <1>3, <1>9 DEF UpdateUsers
  <2>2. r \in Record /\ r.pw = Target(j)
    <3>1. rec[t] \in Record
      BY Typed
    <3>2. CASE j.op = "edit"
      BY <1>3, <3>1, <3>2, RecordTypes DEF Target
    <3>3. CASE j.op = "delete"
      BY <3>3, RecordTypes DEF Target
    <3>4. QED
      BY <2>1, <3>2, <3>3
  <2>3. Replace(j.user, r) /\ Goto(t, "save") /\ job' = job
        /\ samba' = samba /\ halfway' = halfway
    BY <1>9 DEF UpdateUsers
  <2> HIDE DEF r
  <2>4. mem'[j.user] = r /\ \A v \in Users \ {j.user} : mem'[v] = mem[v]
    BY <1>3, <2>2, <2>3, ReplaceTypes
  <2>5. Same(j, mem', file)
    BY <1>2, <1>4, <2>4 DEF Same
  <2>6. at'[t] = "save"
    BY <2>3, GotoTypes DEF Stages
  <2>7. Carries(t)'
    BY <1>2, <1>5, <2>1, <2>2, <2>3, <2>4, <2>5, <2>6 DEF Carries, Same, Exists, Target, Changes
  <2>8. QED
    BY <1>1, <1>5, <2>3, <2>7, CredGoto, AgreedStays DEF CredInv, Stages
<1>10. QED
  BY <1>7, <1>8, <1>9 DEF Samba

LEMMA LoginCred ==
  ASSUME TypeInv, OrderlyInv, CredInv, NEW t \in Threads, Login(t)
  PROVE  CredInv'
<1>1. at[t] \in {"login", "hash", "session"}
  BY DEF Login, Verify, LockedOut, VerifyResult, LogIn
<1>2. Same(job[t], mem, file) /\ job[t].op = "login"
  BY <1>1, AtWork DEF CredInv, Carries, JobFits
<1>3. Agreed' /\ file' = file
  BY AgreedStays DEF CredInv, Login, Verify, LockedOut, VerifyResult, LogIn
<1>4. CASE LockedOut(t) \/ LogIn(t)
  <2>1. EndRequest(t)
    BY <1>4 DEF LockedOut, LogIn, Finish
  <2>2. QED
    BY <1>1, <1>3, <2>1, CredEnd
<1>5. CASE Verify(t) \/ VerifyResult(t)
  <2>1. \A u \in Users : mem'[u].pw = mem[u].pw
    BY <1>5, LoginChanges
  <2>2. PICK stage \in {"hash", "save"} : Goto(t, stage)
    BY <1>5 DEF Verify, VerifyResult
  <2>3. job' = job
    BY <1>5 DEF Verify, VerifyResult
  <2>4. at'[t] = stage
    BY <2>2, GotoTypes DEF Stages
  <2>5. Same(job[t], mem', file)
    BY <1>2, <2>1 DEF Same
  <2>6. Carries(t)'
    BY <1>2, <1>3, <2>3, <2>4, <2>5 DEF Carries, Same, Changes
  <2>7. QED
    BY <1>1, <1>3, <2>2, <2>6, CredGoto DEF Stages
<1>6. QED
  BY <1>4, <1>5 DEF Login

\* What is written is the file before, but for the password that was asked for.
LEMMA Written ==
  ASSUME CredInv, NEW t \in Threads, at[t] = "publish"
  PROVE  \A u \in Users :
           \/ copy[t][u].pw = file[u].pw /\ ~Changes(job[t], u)
           \/ /\ Changes(job[t], u)
              /\ copy[t][u].pw = Target(job[t]) /\ samba[u] = Target(job[t])
BY DEF CredInv, Carries, Same, Changes

LEMMA SaveCred ==
  ASSUME TypeInv, OrderlyInv, CredInv, NEW t \in Threads, Save(t)
  PROVE  CredInv'
<1> DEFINE j == job[t]
<1>1. at[t] \in {"save", "publish"}
  BY DEF Save, DumpUsers, SaveUsers, SaveFails
<1>2. Same(j, mem, file) /\ Carries(t) /\ j \in AdminJob \cup LoginJob
      /\ j.op \in {"create", "edit", "delete", "login"}
  BY <1>1, AtWork DEF CredInv, Carries, JobFits
<1>3. CASE DumpUsers(t)
  <2>1. Goto(t, "publish") /\ file' = file /\ job' = job /\ mem' = mem /\ copy'[t] = mem
        /\ samba' = samba /\ halfway' = halfway
    BY <1>3, Typed DEF DumpUsers
  <2>2. at'[t] = "publish"
    BY <2>1, GotoTypes DEF Stages
  <2>3. Carries(t)'
    BY <1>1, <1>2, <2>1, <2>2 DEF Carries, Same, Exists
  <2>4. QED
    BY <1>1, <2>1, <2>3, CredGoto, AgreedStays DEF CredInv, Stages
<1>4. CASE SaveUsers(t)
  <2>1. at[t] = "publish" /\ file' = copy[t] /\ samba' = samba /\ mem' = mem
    BY <1>4 DEF SaveUsers
  <2>2. halfway' = IF j.op = "login" \/ (j.op = "edit" /\ j.pw = None) THEN halfway
                   ELSE halfway \ {j.user}
    BY <1>4 DEF SaveUsers
  <2>3. \A u \in Users : u \in halfway => u \in halfway' \/ Changes(j, u)
    BY <1>2, <2>2 DEF Changes
  <2>4. Agreed'
    BY <2>1, <2>3, Written DEF CredInv, Agreed
  <2>5. CASE j.op \in {"edit", "login"}
    <3>1. PICK stage \in {"role", "session"} :
            Goto(t, stage) /\ stage = IF j.op = "edit" THEN "role" ELSE "session"
      BY <1>4, <2>5 DEF SaveUsers
    <3>2. at'[t] = stage
      BY <3>1, GotoTypes DEF Stages
    <3>3. job' = job
      BY <1>4, <2>5 DEF SaveUsers
    <3>4. Same(j, mem', file')
      BY <1>2, <2>1, Written DEF Same
    <3>5. j.op = "edit" => j.user \in Users /\ Exists(copy[t], j.user)
      <4>1. ASSUME j.op = "edit" PROVE j.user \in Users /\ Exists(file, j.user)
        BY <1>2, <2>1, <4>1, JobTypes DEF Carries
      <4>2. QED
        BY <2>1, <4>1, Written DEF Exists, Changes, Target
    <3>6. Carries(t)'
      BY <1>2, <2>1, <3>1, <3>2, <3>3, <3>4, <3>5 DEF Carries, Same, Exists
    <3>7. QED
      BY <1>1, <2>4, <3>1, <3>6, CredGoto DEF Stages
  <2>6. CASE j.op \notin {"edit", "login"}
    <3>1. EndRequest(t)
      BY <1>4, <2>6 DEF SaveUsers, Finish
    <3>2. QED
      BY <1>1, <2>4, <3>1, CredEnd
  <2>7. QED
    BY <2>5, <2>6
<1>5. CASE SaveFails(t)
  <2>1. EndRequest(t) /\ at[t] = "publish" /\ samba' = samba /\ halfway' = halfway
        /\ (file' = file \/ file' = copy[t])
    BY <1>5 DEF SaveFails
  <2>2. Agreed'
    BY <2>1, Written DEF CredInv, Agreed
  <2>3. QED
    BY <2>1, <2>2, CredEnd
<1>6. QED
  BY <1>3, <1>4, <1>5 DEF Save

LEMMA OthersCred ==
  ASSUME CredInv, (\E u \in Users : Logout(u)) \/ Restart \/ UNCHANGED vars
  PROVE  CredInv'
<1>1. Agreed'
  BY AgreedStays DEF CredInv, Logout, Restart, vars
<1>2. CASE (\E u \in Users : Logout(u)) \/ UNCHANGED vars
  <2>1. /\ file' = file /\ mem' = mem /\ samba' = samba /\ at' = at /\ job' = job
        /\ copy' = copy
    BY <1>2 DEF Logout, vars, thread
  <2>2. \A s \in Threads : Carries(s)'
    BY <2>1 DEF CredInv, Carries, Same, Changes, Target, Exists
  <2>3. QED
    BY <1>1, <2>2 DEF CredInv
<1>3. CASE Restart
  <2>1. \A s \in Threads : at'[s] = "idle"
    BY <1>3 DEF Restart
  <2>2. QED
    BY <1>1, <2>1 DEF CredInv, Carries
<1>4. QED
  BY <1>2, <1>3

LEMMA InitFull == ASSUME Init PROVE FullInv
<1>1. \A t \in Threads : at[t] = "idle"
  BY DEF Init
<1>2. samba = [u \in Users |-> file[u].pw]
  BY DEF Init
<1>3. Agreed
  BY <1>2 DEF Agreed
<1>4. QED
  BY <1>1, <1>3, InitInv DEF FullInv, CredInv, Carries

LEMMA StepFull == ASSUME FullInv, [Next]_vars PROVE FullInv'
<1>1. ASSUME orderly' PROVE CredInv'
  <2>1. TypeInv /\ OrderlyInv /\ CredInv
    BY <1>1, OrderlyOnce DEF FullInv, IInv
  <2>2. QED
    BY <1>1, <2>1, RequestCred, ReloadCred, ChangeCred, SambaCred, LoginCred, SaveCred, OthersCred
    DEF Next
<1>2. QED
  BY <1>1, StepKeeps DEF FullInv

\* The file is written in two steps only.
LEMMA FileSteps ==
  ASSUME [Next]_vars, file' # file
  PROVE  \E t \in Threads : at[t] = "publish" /\ file' = copy[t]
<1>1. ASSUME NEW t \in Threads, Request(t) \/ Reload(t) \/ Change(t) \/ Samba(t) \/ Login(t)
      PROVE  FALSE
  BY <1>1 DEF Request, AdminRequest, LoginRequest, SessionEnds, Begin, Reload, LoadUsers, LoadFails,
     ReloadUsers, Change, ListUsers, Reject, Create, Edit, Delete, KeepRole, SetRole, Samba,
     SambaAccepts, SambaRefuses, SambaTimesOut, UpdateUsers, DeletedTwice, Login, Verify, LockedOut,
     VerifyResult, LogIn
<1>2. ASSUME NEW t \in Threads, Save(t) PROVE at[t] = "publish" /\ file' = copy[t]
  BY <1>2 DEF Save, DumpUsers, SaveUsers, SaveFails
<1>3. QED
  BY <1>1, <1>2 DEF Next, Logout, Restart, vars

-----------------------------------------------------------------------------
(* Theorems                                                                *)

\* The types: every request is one the pages can make, at a place that fits it.
THEOREM TypeCorrect == Spec => []TypeOK
<1>1. IInv => TypeOK
  BY DEF IInv, TypeInv
<1>2. QED
  BY <1>1, Invariant, PTL

\* While requests follow each other and users.json can be read, no sequence of edits,
\* deletes, logins, failures and restarts leaves the server without an administrator.
THEOREM AnAdministratorRemains == Spec => []AdminRemains
<1>1. IInv => AdminRemains
  BY DEF IInv, OrderlyInv, AdminRemains
<1>2. QED
  BY <1>1, Invariant, PTL

\* Whatever Samba refuses or is too slow for, whatever is not saved and whatever a
\* failed request leaves in memory: a user whose last change is through has one
\* password, in users.json and in Samba.
THEOREM OnePasswordEach == Spec => []SameCredentials
<1>1. FullInv => SameCredentials
  BY DEF FullInv, CredInv, Agreed, SameCredentials
<1>2. QED
  BY <1>1, InitFull, StepFull, PTL DEF Spec

\* The change of one step that UsersComeAndGo allows.
ComeAndGo ==
  orderly => \A u \in Users, op \in {"create", "delete"} :
    Exists(file, u) = (op = "delete") /\ Exists(file', u) = (op = "create")
      => \E t \in Threads : job[t].op = op /\ job[t].user = u

\* A user appears in users.json only while a create of that user is written, and
\* disappears only while a delete is: what failed requests left in memory is not saved.
THEOREM OnlyAsAskedFor == Spec => UsersComeAndGo
<1>1. ASSUME FullInv, [Next]_vars PROVE ComeAndGo
  <2>1. SUFFICES ASSUME orderly, NEW u \in Users, NEW op \in {"create", "delete"},
                        Exists(file, u) = (op = "delete"), Exists(file', u) = (op = "create")
                 PROVE  \E t \in Threads : job[t].op = op /\ job[t].user = u
    BY DEF ComeAndGo
  <2>2. TypeInv /\ CredInv
    BY <1>1, <2>1 DEF FullInv, IInv
  <2>3. file'[u].pw # file[u].pw
    BY <2>1 DEF Exists
  <2>4. PICK t \in Threads : at[t] = "publish" /\ file' = copy[t]
    BY <1>1, <2>3, FileSteps
  <2>5. Changes(job[t], u) /\ file'[u].pw = Target(job[t])
    BY <2>2, <2>3, <2>4, Written
  <2>6. job[t].op \in {"create", "edit", "delete"} /\ job[t].user = u
        /\ (job[t].op = "edit" => job[t].pw # None)
    BY <2>5 DEF Changes
  <2>7. job[t].op = "create" => job[t].pw # None
    BY <2>2, <2>4, AtWork, JobTypes, UserAssumption
  <2>8. job[t].op = "edit" => Exists(file, u)
    BY <2>2, <2>4, <2>6 DEF CredInv, Carries
  <2>9. (job[t].op = "delete") = (op = "delete")
    BY <2>1, <2>5, <2>6, <2>7 DEF Exists, Target
  <2>10. QED
    BY <2>1, <2>5, <2>6, <2>8, <2>9 DEF Exists, Target
<1>2. FullInv /\ [Next]_vars => [ComeAndGo]_vars
  BY <1>1
<1>3. Spec => [][ComeAndGo]_vars
  BY <1>2, InitFull, StepFull, PTL DEF Spec
<1>4. QED
  BY <1>3 DEF ComeAndGo, UsersComeAndGo

=============================================================================
