------------------------------- MODULE UserStore -------------------------------
(***************************************************************************)
(* UserManager and the Users and Login pages.                              *)
(*                                                                         *)
(* users.json is read into a dictionary that all request threads share,    *)
(* changed there and written back whole, without a lock.  A user's         *)
(* password is also set in Samba, by a command that can refuse it or do    *)
(* its work and then time out.  Every request reads the file again before  *)
(* it begins; that protects it from what earlier requests left in memory,  *)
(* not from the ones that run at the same time.                            *)
(***************************************************************************)
EXTENDS Naturals

CONSTANTS
    Threads,     \* the request threads
    Users,       \* the user names
    Passwords,   \* the passwords told apart
    None,        \* no password: no account
    LIMIT,       \* failed logins that lock an account (5 in the code)
    MaxRequests, \* bound: requests made
    MaxFaults    \* bound: reads, writes and commands that fail, and restarts

ASSUME UserAssumption ==
    /\ None \notin Passwords
    /\ LIMIT \in Nat \ {0} /\ MaxRequests \in Nat /\ MaxFaults \in Nat

VARIABLES
    file,     \* users.json
    mem,      \* self.users of the application's UserManager
    samba,    \* the passwords of the Samba accounts
    sessions, \* the users that are logged in, by their session cookies
    at,       \* where each thread is in its request
    job,      \* the request of each thread
    copy,     \* the dictionary it has read or is writing
    rec,      \* the user record it has taken from the dictionary
    held,     \* that record is still the one in the shared dictionary
    requests, faults,
    orderly,  \* history: no request ran beside another, no read of the file failed
    halfway   \* history: users whose last change stopped between Samba and the file

thread == <<at, job, copy, rec, held>>
vars == <<file, mem, samba, sessions, thread, requests, faults, orderly, halfway>>

-----------------------------------------------------------------------------
(* Records and requests                                                    *)

Record == [pw : Passwords \cup {None}, admin : BOOLEAN, fails : 0..LIMIT, locked : BOOLEAN]

NoRecord == [pw |-> None, admin |-> FALSE, fails |-> 0, locked |-> FALSE]
NewRecord(pw, admin) == [NoRecord EXCEPT !.pw = pw, !.admin = admin]

Exists(dict, u) == dict[u].pw # None

Nobody == [u \in Users |-> NoRecord]

Job ==
    [op : {"none"}]
    \cup [op : {"list"}, by : Users]
    \cup [op : {"create"}, by : Users, user : Users, pw : Passwords, admin : BOOLEAN]
    \cup [op : {"edit"}, by : Users, user : Users, pw : Passwords \cup {None},
          role : {"keep", "admin", "plain"}]
    \cup [op : {"delete"}, by : Users, user : Users]
    \cup [op : {"login"}, user : Users, pw : Passwords]

NoJob == [op |-> "none"]
AdminJob == {j \in Job : j.op \in {"list", "create", "edit", "delete"}}
LoginJob == {j \in Job : j.op = "login"}

Goto(t, stage) == at' = [at EXCEPT ![t] = stage]

\* A record that is replaced in the dictionary, or taken out of it, is held by
\* nobody any more: whoever has looked it up changes what nobody will read again.
Replace(u, r) ==
    /\ mem' = [mem EXCEPT ![u] = r]
    /\ held' = [t \in Threads |-> held[t] /\ job[t].user # u]

\* The response is sent, whatever it says.
EndRequest(t) ==
    /\ Goto(t, "idle")
    /\ job' = [job EXCEPT ![t] = NoJob]
    /\ copy' = [copy EXCEPT ![t] = Nobody]
    /\ rec' = [rec EXCEPT ![t] = NoRecord]

Finish(t) == EndRequest(t) /\ held' = [held EXCEPT ![t] = FALSE]

Fault == faults < MaxFaults /\ faults' = faults + 1

-----------------------------------------------------------------------------
(* A request begins                                                        *)

Begin(t, j) ==
    /\ at[t] = "idle"
    /\ requests < MaxRequests
    /\ requests' = requests + 1
    /\ orderly' = (orderly /\ \A u \in Threads : at[u] = "idle")
    /\ job' = [job EXCEPT ![t] = j]
    /\ Goto(t, "reload")
    /\ UNCHANGED <<file, mem, samba, copy, rec, held, faults, halfway>>

\* api_admin_required reads the file afresh, apart from the shared dictionary.
AdminRequest(t, j) ==
    /\ j.by \in sessions /\ file[j.by].admin
    /\ Begin(t, j)
    /\ UNCHANGED sessions

\* The role was taken away after the cookie had been issued, or the file could
\* not be read.
SessionEnds(t, u) ==
    /\ at[t] = "idle" /\ u \in sessions
    /\ IF file[u].admin THEN Fault ELSE UNCHANGED faults
    /\ sessions' = sessions \ {u}
    /\ UNCHANGED <<file, mem, samba, thread, requests, orderly, halfway>>

LoginRequest(t, j) == Begin(t, j) /\ UNCHANGED sessions

Logout(u) ==
    /\ u \in sessions
    /\ sessions' = sessions \ {u}
    /\ UNCHANGED <<file, mem, samba, thread, requests, faults, orderly, halfway>>

\* reload_users: the file is read, then the shared dictionary is replaced.
LoadUsers(t) ==
    /\ at[t] = "reload"
    /\ copy' = [copy EXCEPT ![t] = file]
    /\ Goto(t, "assign")
    /\ UNCHANGED <<file, mem, samba, sessions, job, rec, held, requests, faults, orderly, halfway>>

\* The error is logged and no dictionary is returned.
Mutant_LoadFails(t) ==
    /\ at[t] = "reload" /\ Fault
    /\ copy' = [copy EXCEPT ![t] = None]
    /\ orderly' = FALSE
    /\ Goto(t, "assign")
    /\ UNCHANGED <<file, mem, samba, sessions, job, rec, held, requests, halfway>>

\* A file that cannot be read counts as a file without users.
LoadFails(t) ==
    /\ at[t] = "reload" /\ Fault
    /\ copy' = [copy EXCEPT ![t] = Nobody]
    /\ orderly' = FALSE
    /\ Goto(t, "assign")
    /\ UNCHANGED <<file, mem, samba, sessions, job, rec, held, requests, halfway>>

\* A request that goes on with the dictionary an earlier request left.
Mutant_ReloadUsers(t) ==
    /\ at[t] = "assign"
    /\ copy' = [copy EXCEPT ![t] = Nobody]
    /\ Goto(t, job[t].op)
    /\ UNCHANGED <<file, mem, samba, sessions, job, rec, held, requests, faults, orderly, halfway>>

ReloadUsers(t) ==
    /\ at[t] = "assign"
    /\ mem' = copy[t]
    /\ copy' = [copy EXCEPT ![t] = Nobody]
    /\ held' = [u \in Threads |-> FALSE]
    /\ Goto(t, job[t].op)
    /\ UNCHANGED <<file, samba, sessions, job, rec, requests, faults, orderly, halfway>>

ListUsers(t) ==
    /\ at[t] = "list"
    /\ Finish(t)
    /\ UNCHANGED <<file, mem, samba, sessions, requests, faults, orderly, halfway>>

-----------------------------------------------------------------------------
(* create_user, set_password, update_admin_status, delete_user up to Samba *)

Rejected(t) ==
    LET j == job[t]
    IN  \/ at[t] = "create" /\ Exists(mem, j.user)
        \/ at[t] \in {"edit", "role", "delete", "login"} /\ ~Exists(mem, j.user)
        \/ at[t] = "delete" /\ j.user = j.by

\* An administrator who edits the own account.
Mutant_DemotesSelf(t) == FALSE

DemotesSelf(t) ==
    LET j == job[t]
    IN  at[t] = "edit" /\ j.user = j.by /\ j.role = "plain" /\ mem[j.user].admin

Reject(t) ==
    /\ Rejected(t) \/ DemotesSelf(t)
    /\ Finish(t)
    /\ UNCHANGED <<file, mem, samba, sessions, requests, faults, orderly, halfway>>

\* The record is in the shared dictionary before Samba is asked.
Create(t) ==
    /\ at[t] = "create" /\ ~Rejected(t)
    /\ Replace(job[t].user, NewRecord(job[t].pw, job[t].admin))
    /\ Goto(t, "samba")
    /\ UNCHANGED <<file, samba, sessions, job, copy, rec, requests, faults, orderly, halfway>>

\* set_password takes a copy of the record; without a password only the role is
\* left to do.
Edit(t) ==
    /\ at[t] = "edit" /\ ~Rejected(t) /\ ~DemotesSelf(t)
    /\ IF job[t].pw = None
       THEN Goto(t, "role") /\ UNCHANGED rec
       ELSE Goto(t, "samba") /\ rec' = [rec EXCEPT ![t] = mem[job[t].user]]
    /\ UNCHANGED <<file, mem, samba, sessions, job, copy, held, requests, faults, orderly, halfway>>

Delete(t) ==
    /\ at[t] = "delete" /\ ~Rejected(t)
    /\ Goto(t, "samba")
    /\ UNCHANGED <<file, mem, samba, sessions, job, copy, rec, held, requests, faults, orderly,
                   halfway>>

KeepRole(t) ==
    /\ at[t] = "role" /\ job[t].role = "keep"
    /\ Finish(t)
    /\ UNCHANGED <<file, mem, samba, sessions, requests, faults, orderly, halfway>>

SetRole(t) ==
    /\ at[t] = "role" /\ job[t].role # "keep" /\ ~Rejected(t)
    /\ mem' = [mem EXCEPT ![job[t].user].admin = job[t].role = "admin"]
    /\ job' = [job EXCEPT ![t].role = "keep"]
    /\ Goto(t, "save")
    /\ UNCHANGED <<file, samba, sessions, copy, rec, held, requests, faults, orderly, halfway>>

-----------------------------------------------------------------------------
(* Samba                                                                   *)

SambaAccepts(t) ==
    LET j == job[t]
    IN  /\ at[t] = "samba"
        /\ samba' = [samba EXCEPT ![j.user] = IF j.op = "delete" THEN None ELSE j.pw]
        /\ Goto(t, IF j.op = "create" THEN "save" ELSE "update")
        /\ halfway' = halfway \cup {j.user}
        /\ UNCHANGED <<file, mem, sessions, job, copy, rec, held, requests, faults, orderly>>

\* The answer of the command is not looked at.
Mutant_SambaRefuses(t) ==
    /\ at[t] = "samba" /\ Fault
    /\ Goto(t, IF job[t].op = "create" THEN "save" ELSE "update")
    /\ UNCHANGED <<file, mem, samba, sessions, job, copy, rec, held, requests, orderly, halfway>>

\* The new user is taken out of the dictionary again; the record of an edited
\* user is put back as it was when it was copied.
SambaRefuses(t) ==
    LET j == job[t]
    IN  /\ at[t] = "samba" /\ Fault
        /\ CASE j.op = "create" -> Replace(j.user, NoRecord)
             [] j.op = "edit"   -> Replace(j.user, rec[t])
             [] j.op = "delete" -> UNCHANGED <<mem, held>>
        /\ EndRequest(t)
        /\ UNCHANGED <<file, samba, sessions, requests, orderly, halfway>>

\* The command times out, which create_user does not expect: nothing is undone.
SambaTimesOut(t) ==
    LET j == job[t]
    IN  /\ at[t] = "samba" /\ Fault
        /\ \/ UNCHANGED <<samba, halfway>>
           \/ /\ samba' = [samba EXCEPT ![j.user] = IF j.op = "delete" THEN None ELSE j.pw]
              /\ halfway' = halfway \cup {j.user}
        /\ Finish(t)
        /\ UNCHANGED <<file, mem, sessions, requests, orderly>>

\* A delete that goes on with the record of somebody else's delete fails.
UpdateUsers(t) ==
    LET j == job[t]
    IN  /\ at[t] = "update"
        /\ j.op = "edit" \/ Exists(mem, j.user)
        /\ Replace(j.user, IF j.op = "edit" THEN [rec[t] EXCEPT !.pw = j.pw] ELSE NoRecord)
        /\ Goto(t, "save")
        /\ UNCHANGED <<file, samba, sessions, job, copy, rec, requests, faults, orderly, halfway>>

DeletedTwice(t) ==
    /\ at[t] = "update" /\ job[t].op = "delete" /\ ~Exists(mem, job[t].user)
    /\ Finish(t)
    /\ UNCHANGED <<file, mem, samba, sessions, requests, faults, orderly, halfway>>

-----------------------------------------------------------------------------
(* verify_user                                                             *)

\* The record is looked up once.  A lock is over or it is not, as the clock says.
Verify(t) ==
    /\ at[t] = "login" /\ ~Rejected(t)
    /\ LET u == job[t].user
           r == IF mem[u].locked THEN [mem[u] EXCEPT !.locked = FALSE, !.fails = 0] ELSE mem[u]
       IN  /\ mem' = [mem EXCEPT ![u] = r]
           /\ rec' = [rec EXCEPT ![t] = NewRecord(r.pw, FALSE)]
    /\ held' = [held EXCEPT ![t] = TRUE]
    /\ Goto(t, "hash")
    /\ UNCHANGED <<file, samba, sessions, job, copy, requests, faults, orderly, halfway>>

LockedOut(t) ==
    /\ at[t] = "login" /\ ~Rejected(t) /\ mem[job[t].user].locked
    /\ Finish(t)
    /\ UNCHANGED <<file, mem, samba, sessions, requests, faults, orderly, halfway>>

Granted(t) == job[t].op = "login" /\ rec[t].pw = job[t].pw

Counted(r) == LET n == IF r.fails < LIMIT THEN r.fails + 1 ELSE LIMIT
              IN  [r EXCEPT !.fails = n, !.locked = @ \/ n = LIMIT]

\* After the slow comparison of the password: the record is changed where it is,
\* in the shared dictionary or, if that was replaced, nowhere.
VerifyResult(t) ==
    /\ at[t] = "hash"
    /\ mem' = [mem EXCEPT ![job[t].user] =
                 IF ~held[t] THEN @ ELSE IF Granted(t) THEN [@ EXCEPT !.fails = 0] ELSE Counted(@)]
    /\ Goto(t, "save")
    /\ UNCHANGED <<file, samba, sessions, job, copy, rec, held, requests, faults, orderly, halfway>>

-----------------------------------------------------------------------------
(* _save_users                                                             *)

DumpUsers(t) ==
    /\ at[t] = "save"
    /\ copy' = [copy EXCEPT ![t] = mem]
    /\ Goto(t, "publish")
    /\ UNCHANGED <<file, mem, samba, sessions, job, rec, held, requests, faults, orderly, halfway>>

\* The file is replaced; an edit goes on with the role, a login with the session.
SaveUsers(t) ==
    LET j == job[t]
    IN  /\ at[t] = "publish"
        /\ file' = copy[t]
        /\ IF j.op \in {"edit", "login"}
           THEN /\ Goto(t, IF j.op = "edit" THEN "role" ELSE "session")
                /\ copy' = [copy EXCEPT ![t] = Nobody]
                /\ UNCHANGED <<job, rec, held>>
           ELSE Finish(t)
        /\ halfway' = IF j.op = "login" \/ (j.op = "edit" /\ j.pw = None) THEN halfway
                       ELSE halfway \ {j.user}
        /\ UNCHANGED <<mem, samba, sessions, requests, faults, orderly>>

\* Before the file was replaced, or after.  Only a new user is taken out of the
\* dictionary again.
SaveFails(t) ==
    /\ at[t] = "publish" /\ Fault
    /\ file' \in {file, copy[t]}
    /\ IF job[t].op = "create" THEN Replace(job[t].user, NoRecord)
       ELSE UNCHANGED mem /\ held' = [held EXCEPT ![t] = FALSE]
    /\ EndRequest(t)
    /\ UNCHANGED <<samba, sessions, requests, orderly, halfway>>

LogIn(t) ==
    /\ at[t] = "session"
    /\ sessions' = IF Granted(t) /\ mem[job[t].user].admin THEN sessions \cup {job[t].user}
                   ELSE sessions
    /\ Finish(t)
    /\ UNCHANGED <<file, mem, samba, requests, faults, orderly, halfway>>

\* The web service starts again, with a dictionary read from the file.
Restart ==
    /\ Fault
    /\ mem' = file
    /\ at' = [t \in Threads |-> "idle"] /\ job' = [t \in Threads |-> NoJob]
    /\ copy' = [t \in Threads |-> Nobody] /\ rec' = [t \in Threads |-> NoRecord]
    /\ held' = [t \in Threads |-> FALSE]
    /\ UNCHANGED <<file, samba, sessions, requests, orderly, halfway>>

-----------------------------------------------------------------------------

\* After the setup: some users, one of them an administrator at least, and each
\* with one failed login left before the account is locked.
Init ==
    /\ \E pw \in Passwords, names \in SUBSET Users, admins \in (SUBSET Users) \ {{}} :
         /\ admins \subseteq names
         /\ file = [u \in Users |->
                      IF u \in names THEN [NewRecord(pw, u \in admins) EXCEPT !.fails = LIMIT - 1]
                      ELSE NoRecord]
         /\ sessions \in SUBSET admins
    /\ mem = file
    /\ samba = [u \in Users |-> file[u].pw]
    /\ at = [t \in Threads |-> "idle"]
    /\ job = [t \in Threads |-> NoJob]
    /\ copy = [t \in Threads |-> Nobody]
    /\ rec = [t \in Threads |-> NoRecord]
    /\ held = [t \in Threads |-> FALSE]
    /\ requests = 0 /\ faults = 0
    /\ orderly = TRUE /\ halfway = {}

Request(t) ==
    \/ \E j \in AdminJob : AdminRequest(t, j)
    \/ \E j \in LoginJob : LoginRequest(t, j)
    \/ \E u \in Users : SessionEnds(t, u)

Reload(t) == LoadUsers(t) \/ LoadFails(t) \/ ReloadUsers(t)
Change(t) ==
    \/ ListUsers(t) \/ Reject(t) \/ Create(t) \/ Edit(t) \/ Delete(t)
    \/ KeepRole(t) \/ SetRole(t)
Samba(t) ==
    \/ SambaAccepts(t) \/ SambaRefuses(t) \/ SambaTimesOut(t)
    \/ UpdateUsers(t) \/ DeletedTwice(t)
Login(t) == Verify(t) \/ LockedOut(t) \/ VerifyResult(t) \/ LogIn(t)
Save(t) == DumpUsers(t) \/ SaveUsers(t) \/ SaveFails(t)

Next ==
    \/ \E t \in Threads : Request(t) \/ Reload(t) \/ Change(t) \/ Samba(t) \/ Login(t) \/ Save(t)
    \/ \E u \in Users : Logout(u)
    \/ Restart

Spec == Init /\ [][Next]_vars

-----------------------------------------------------------------------------
(* Properties                                                              *)

TypeOK ==
    /\ file \in [Users -> Record] /\ mem \in [Users -> Record]
    /\ samba \in [Users -> Passwords \cup {None}]
    /\ sessions \in SUBSET Users /\ halfway \in SUBSET Users
    /\ at \in [Threads -> {"idle", "reload", "assign", "list", "create", "edit", "role", "delete",
                           "samba", "update", "login", "hash", "save", "publish", "session"}]
    /\ job \in [Threads -> Job]
    /\ copy \in [Threads -> [Users -> Record]]
    /\ rec \in [Threads -> Record]
    /\ held \in [Threads -> BOOLEAN] /\ orderly \in BOOLEAN
    /\ requests \in 0..MaxRequests /\ faults \in 0..MaxFaults

\* Someone can always log in and manage the server: no edit may demote, and no
\* delete remove, the administrator who asks for it, so the last one stays.  Two
\* administrators who act on each other at the same moment are not stopped,
\* and a file that could not be read is overwritten: orderly excludes both.
AdminRemains == orderly => \E u \in Users : file[u].admin

\* docs/users.md: "the web UI and SMB access stay on the same credentials".  The
\* password in users.json is the one in Samba, and no account is in only one of
\* them, unless the user's last change was interrupted between the two, whatever
\* commands, writes and restarts fail and whatever they leave in memory.
SameCredentials == orderly => \A u \in Users \ halfway : file[u].pw = samba[u]

\* A create that failed leaves nothing behind that a later request could save:
\* a user appears in users.json by a create of that user and disappears by a delete.
UsersComeAndGo ==
    [][orderly => \A u \in Users, op \in {"create", "delete"} :
         Exists(file, u) = (op = "delete") /\ Exists(file', u) = (op = "create")
           => \E t \in Threads : job[t].op = op /\ job[t].user = u]_vars

=============================================================================
