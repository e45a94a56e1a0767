------------------------------ MODULE ConfigStore ------------------------------
(***************************************************************************)
(* ConfigManager: config.conf and the copies of it that are held in memory *)
(* by the managers: in the web process one made by the application and one *)
(* by the setup wizard, each shared by all request threads; one more in    *)
(* every script.                                                           *)
(*                                                                         *)
(* Single settings are saved under a lock.  A schedule save and the end of *)
(* the setup also write the whole file, from a copy in memory and without  *)
(* the lock (SystemUtils.create_systemd_config_file).                      *)
(***************************************************************************)
EXTENDS Naturals

CONSTANTS
    Threads,  \* the request threads and scripts
    Managers, \* the ConfigManager objects
    Settings, \* the settings told apart
    Carried,  \* those that create_systemd_config_file writes
    Schedule, \* the setting that a schedule save is about
    SetupComplete, \* the setting that ends the setup
    Nobody,   \* the holder of a free lock
    MaxSaves  \* bound: saves begun by admins

ASSUME ConfigAssumption ==
    /\ Carried \subseteq Settings /\ {Schedule, SetupComplete} \subseteq Carried /\ Schedule # SetupComplete
    /\ Nobody \notin Threads /\ MaxSaves \in Nat

VARIABLES
    file,      \* config.conf; its version counts the writes, 0 is no file
    mem,       \* self.config of each manager
    built,     \* the managers whose constructor has returned
    holder,    \* the thread that holds the lock on config.conf.lock
    req,       \* what each thread is in the middle of
    saves,     \* saves begun so far; a save's value is its number
    lastSaved, \* history: what each setting was last saved as under the lock; 0 when
               \* it was not, and once the whole file has been overwritten
    savedVia   \* history: the last version published by each manager's saves

vars == <<file, mem, built, holder, req, saves, lastSaved, savedVia>>

\* A value of 0 stands for a default, and for a setting that is absent.
Values == [Settings -> 0..MaxSaves]
Config == [ver : Nat, val : Values]

\* An empty parser whose absent settings have no default.
Mutant_Empty == [ver |-> 0, val |-> <<>>]

Empty == [ver |-> 0, val |-> [k \in Settings |-> 0]]

Idle == [at |-> "idle"]

\* What a locked update is to change: nothing (create_if_missing, of a file that
\* is there or is made of defaults), or one setting.
Change == {[of |-> "nothing"]} \cup [of : {"setting"}, key : Settings, value : 1..MaxSaves]

Request ==
    {Idle}
    \cup [at : {"read"}, m : Managers, then : {"idle", "snapshot"}]
    \cup [at : {"snapshot"}, m : Managers, key : {Schedule, SetupComplete}]
    \cup [at : {"overwrite"}, m : Managers, snap : Values, change : Change]
    \cup [at : {"lock"}, m : Managers, change : Change]
    \cup [at : {"reload"}, m : Managers]
    \cup [at : {"write", "publish"}, m : Managers, change : Change, base : Config]

Goto(t, next) == req' = [req EXCEPT ![t] = next]

Changed(val, change) ==
    IF change.of = "nothing" THEN val ELSE [val EXCEPT ![change.key] = change.value]

-----------------------------------------------------------------------------
(* _locked_config_update                                                   *)

set_value(t, m, k) ==
    /\ req[t] = Idle /\ m \in built /\ k # SetupComplete
    /\ saves < MaxSaves
    /\ saves' = saves + 1
    /\ Goto(t, [at |-> "lock", m |-> m,
                change |-> [of |-> "setting", key |-> k, value |-> saves']])
    /\ UNCHANGED <<file, mem, built, holder, lastSaved, savedVia>>

\* The update starts from the copy in memory instead of the latest file.
Mutant_ReadLatest(t) ==
    /\ req[t].at = "lock" /\ holder = Nobody
    /\ holder' = t
    /\ Goto(t, [at |-> "write", m |-> req[t].m, change |-> req[t].change,
                base |-> mem[req[t].m]])
    /\ UNCHANGED <<file, mem, built, saves, lastSaved, savedVia>>

ReadLatest(t) ==
    /\ req[t].at = "lock" /\ holder = Nobody
    /\ holder' = t
    /\ Goto(t, [at |-> "write", m |-> req[t].m, change |-> req[t].change, base |-> file])
    /\ UNCHANGED <<file, mem, built, saves, lastSaved, savedVia>>

Write(t) ==
    /\ req[t].at = "write"
    /\ LET new == [ver |-> file.ver + 1, val |-> Changed(req[t].base.val, req[t].change)]
       IN  /\ file' = new
           /\ lastSaved' = Changed(lastSaved, req[t].change)
           /\ Goto(t, [req[t] EXCEPT !.at = "publish", !.base = new])
    /\ UNCHANGED <<mem, built, holder, saves, savedVia>>

\* The file could not be written: the lock is released, nothing has changed.
WriteRaises(t) ==
    /\ req[t].at = "write"
    /\ holder' = Nobody
    /\ Goto(t, Idle)
    /\ UNCHANGED <<file, mem, built, saves, lastSaved, savedVia>>

\* The end of the setup reloads what it has just saved.
AfterUpdate(r) ==
    IF r.change.of = "setting" /\ r.change.key = SetupComplete
    THEN [at |-> "reload", m |-> r.m]
    ELSE Idle

\* The caller keeps its old copy and leaves it to a later reload to catch up.
Mutant_Publish(t) ==
    /\ req[t].at = "publish"
    /\ savedVia' = [savedVia EXCEPT ![req[t].m] = req[t].base.ver]
    /\ built' = built \cup {req[t].m}
    /\ holder' = Nobody
    /\ Goto(t, AfterUpdate(req[t]))
    /\ UNCHANGED <<file, mem, saves, lastSaved>>

\* self.config = config, still under the lock.
Publish(t) ==
    /\ req[t].at = "publish"
    /\ mem' = [mem EXCEPT ![req[t].m] = req[t].base]
    /\ savedVia' = [savedVia EXCEPT ![req[t].m] = req[t].base.ver]
    /\ built' = built \cup {req[t].m}
    /\ holder' = Nobody
    /\ Goto(t, AfterUpdate(req[t]))
    /\ UNCHANGED <<file, saves, lastSaved>>

-----------------------------------------------------------------------------
(* load_config, of is_setup_complete or of the end of the setup            *)

load_config(t, m, then) ==
    /\ req[t] = Idle /\ m \in built
    /\ mem' = [mem EXCEPT ![m] = Empty]
    /\ Goto(t, [at |-> "read", m |-> m, then |-> then])
    /\ UNCHANGED <<file, built, holder, saves, lastSaved, savedVia>>

Reload(t) ==
    /\ req[t].at = "reload"
    /\ mem' = [mem EXCEPT ![req[t].m] = Empty]
    /\ Goto(t, [at |-> "read", m |-> req[t].m, then |-> "idle"])
    /\ UNCHANGED <<file, built, holder, saves, lastSaved, savedVia>>

\* The constructor of a manager ends with load_config; nobody else has it yet.
Construct(t, m) ==
    /\ req[t] = Idle /\ m \notin built
    /\ \A u \in Threads : req[u] # Idle => req[u].m # m
    /\ Goto(t, [at |-> "read", m |-> m, then |-> "idle"])
    /\ UNCHANGED <<file, mem, built, holder, saves, lastSaved, savedVia>>

\* ConfigParser.read merges: what the file lacks stays as it is in memory.
Merge(old, new) ==
    [ver |-> new.ver,
     val |-> [k \in Settings |->
                IF k \in Carried \/ new.val[k] # 0 THEN new.val[k] ELSE old.val[k]]]

ReadFile(t) ==
    /\ req[t].at = "read"
    /\ file # Empty
    /\ mem' = [mem EXCEPT ![req[t].m] = Merge(mem[req[t].m], file)]
    /\ built' = built \cup {req[t].m}
    /\ Goto(t, IF req[t].then = "idle" THEN Idle
               ELSE [at |-> "snapshot", m |-> req[t].m, key |-> SetupComplete])
    /\ UNCHANGED <<file, holder, saves, lastSaved, savedVia>>

\* create_default_config looks again, under the lock, for a file another thread
\* may have made by then.
FileIsMissing(t) ==
    /\ req[t].at = "read"
    /\ file = Empty
    /\ Goto(t, [at |-> "lock", m |-> req[t].m, change |-> [of |-> "nothing"]])
    /\ UNCHANGED <<file, mem, built, holder, saves, lastSaved, savedVia>>

-----------------------------------------------------------------------------
(* save_schedule and complete_setup: the whole file from a copy            *)

save_schedule(t, m) ==
    /\ req[t] = Idle /\ m \in built
    /\ Goto(t, [at |-> "snapshot", m |-> m, key |-> Schedule])
    /\ UNCHANGED <<file, mem, built, holder, saves, lastSaved, savedVia>>

\* get_all_config; a schedule save puts the schedule of the request in the copy.
Snapshot(t) ==
    /\ req[t].at = "snapshot"
    /\ saves < MaxSaves
    /\ saves' = saves + 1
    /\ LET change == [of |-> "setting", key |-> req[t].key, value |-> saves']
           copy   == mem[req[t].m].val
       IN  Goto(t, [at |-> "overwrite", m |-> req[t].m, change |-> change,
                    snap |-> IF req[t].key = Schedule THEN Changed(copy, change) ELSE copy])
    /\ UNCHANGED <<file, mem, built, holder, lastSaved, savedVia>>

\* create_systemd_config_file, then, if the timers could be installed, set_value.
Overwrite(t) ==
    /\ req[t].at = "overwrite"
    /\ file' = [ver |-> file.ver + 1,
                val |-> [k \in Settings |-> IF k \in Carried THEN req[t].snap[k] ELSE 0]]
    /\ \/ Goto(t, [at |-> "lock", m |-> req[t].m, change |-> req[t].change])
       \/ Goto(t, Idle)
    /\ lastSaved' = [k \in Settings |-> 0]
    /\ UNCHANGED <<mem, built, holder, saves, savedVia>>

OverwriteFails(t) ==
    /\ req[t].at = "overwrite"
    /\ Goto(t, Idle)
    /\ UNCHANGED <<file, mem, built, holder, saves, lastSaved, savedVia>>

-----------------------------------------------------------------------------

Init ==
    /\ file = Empty
    /\ mem = [m \in Managers |-> Empty]
    /\ built = {}
    /\ holder = Nobody
    /\ req = [t \in Threads |-> Idle]
    /\ saves = 0
    /\ lastSaved = [k \in Settings |-> 0]
    /\ savedVia = [m \in Managers |-> 0]

Locked(t) == ReadLatest(t) \/ Write(t) \/ WriteRaises(t) \/ Publish(t)
Load(t) ==
    \/ \E m \in Managers : load_config(t, m, "idle") \/ Construct(t, m)
    \/ Reload(t) \/ ReadFile(t) \/ FileIsMissing(t)
CompleteSetup(t) == \E m \in Managers : load_config(t, m, "snapshot")
WholeFile(t) ==
    \/ \E m \in Managers : save_schedule(t, m)
    \/ Snapshot(t) \/ Overwrite(t) \/ OverwriteFails(t)

Next ==
    \E t \in Threads :
        \/ \E m \in Managers, k \in Settings : set_value(t, m, k)
        \/ Locked(t) \/ Load(t) \/ CompleteSetup(t) \/ WholeFile(t)

Spec == Init /\ [][Next]_vars

-----------------------------------------------------------------------------
(* Properties                                                              *)

TypeOK ==
    /\ file \in Config
    /\ mem \in [Managers -> Config]
    /\ built \subseteq Managers
    /\ holder \in Threads \cup {Nobody}
    /\ req \in [Threads -> Request]
    /\ saves \in 0..MaxSaves
    /\ lastSaved \in Values
    /\ savedVia \in [Managers -> Nat]

\* "All writers must lock a stable sidecar path and re-read the latest file": what
\* was saved under the lock stands in the file until the same setting is saved
\* again, whichever threads and managers save other settings meanwhile; only a
\* write of the whole file ends that.
LockedSavesStand == \A k \in Settings : lastSaved[k] # 0 => file.val[k] = lastSaved[k]

Reloading(m) == \E t \in Threads : req[t].at = "read" /\ req[t].m = m

\* Unless a manager is in the middle of a reload, what is read through it
\* is no older than the last save made through it, in whatever order the threads
\* that share it reload it, update it and overwrite the file.
ReadsOwnSaves == \A m \in Managers : Reloading(m) \/ mem[m].ver >= savedVia[m]

\* "From then on, the saved app settings are the source of truth": a setting
\* that an admin has saved is not forgotten by a save of other settings.
SavedStaysSaved ==
    [][\A k \in Settings : file.val[k] # 0 => file'.val[k] # 0]_vars

=============================================================================
