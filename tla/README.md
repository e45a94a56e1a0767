# SimpleSaferServer in TLA+

Specifications, model-checking configurations and machine-checked proofs for
SimpleSaferServer, the web-managed backup server in this repository. Paths below are
relative to `src/`; Python modules live in `src/simple_safer_server/`.

* [The system](#the-system): what it consists of, what each part keeps, what is hard
* [Modules](#modules): which module models which part, and how
* [Runs](#runs): what TLC checks, with which bounds, and why they are enough
* [Disagreements found](#disagreements-found)
* [What the models show beyond the runs](#what-the-models-show-beyond-the-runs)
* [Proofs](#proofs): what TLAPS proves, from what, along which argument
* [Not modelled](#not-modelled)
* [Plan](#plan)

Everything runs from this directory:

    tlc -workers 2 -config ConfigStore.cfg MCConfigStore
    tlapm StoreProofs.tla

## The system

One gunicorn process with four threads (`simple_safer_server_web.service`, gthread, root)
serves the web interface. Systemd timers start short-lived programs beside it: the check of
the mount, the cloud backup, the drive-health check, dynamic DNS, the application update and,
every five minutes, the restore helper for disabled schedules. The threads share Python
objects; the processes share files under `/etc/SimpleSaferServer` and the machine itself
(systemd units, fstab, mounts, Samba, apt). There is no database: every piece of state is a
small file, a systemd unit or a variable of the web process.

### Inventory

| Component | State it keeps | Operations | Works with |
|---|---|---|---|
| Small-file persistence (`services/file_persistence.py`) | the files, their sidecar locks | `locked_json_update`, `locked_path`, `atomic_write_*`, `read_json` | used by all others |
| Disabled schedules (`services/disabled_timers.py`, `routes/tasks.py`, `services/system_utils.py`, `scripts/restore_disabled_timers.py`) | `disabled_timers.json`; enabled and started state of the systemd timers | `disable`, `enable`, `restore_expired`, regeneration of units | systemd, alerts |
| Operating-system updates (`services/system_updates.py`) | `system_updates_state.json`, worker thread, `_process`, `_cancel_event` | start, stop, status, stale locks, apt and Livepatch settings | apt, dpkg locks, configuration |
| Alert list (`services/alert_store.py`, `alerts_service.py`) | `alerts.json` | append, open, mark read, mark all, clear | scripts and all services that notify |
| Configuration (`services/config_manager.py`) | `config.conf`, one parsed copy per manager | `set_value`, `load_config`, first creation, whole-file writes of `create_systemd_config_file` | nearly every service |
| Users and login (`services/user_manager.py`, `routes/users.py`, `app_factory.py`) | `users.json`, a copy shared by the threads, Samba accounts, session cookies | login with lockout, create, edit, delete, role checks | Samba |
| Network file shares (`services/smb_manager.py`, `samba_layout.py`) | managed share file, `smb.conf` includes, smbd/nmbd/wsdd2 | create, update, delete share; layout repair | Samba, backup drive setup |
| Backup drive (`services/backup_drive_setup.py`, `backup_drive_unmount.py`, `scripts/check_mount.sh`) | fstab, mount, backup share, three settings | configure with rollback, unmount, format, mount again | Samba, configuration, systemd |
| Storage page and power (`services/storage_service.py`, `routes/storage.py`) | none | mount, unmount, restart, shut down | apt locks |
| Application updates (`services/app_updates.py`, `scripts/app_update.py`) | git checkout, status cache, one-shot request file | check, update, clean up, switch branch | systemd |
| Tasks (`services/task_service.py`) | fake-mode task state; systemd units otherwise | start, stop, schedules | disabled schedules |
| Drive health (`services/drive_health.py`, `scripts/check_health.py`) | last summary in memory, HDSentinel snapshot file | refresh, publish, monitor | alerts |
| Server name (`services/server_identity.py`) | `/etc/hosts`, host name, settings | rename with partial rollback | configuration, Samba |
| Setup wizard (`routes/setup_wizard.py`), legacy import (`legacy/migration.py`) | `setup_complete`, a manager of their own | the steps of the first setup, in any order; the import of an old installation | all of the above |
| Cloud backup (`services/cloud_backup_service.py`, `scripts/backup_cloud.sh`) | rclone configuration, schedule | save schedule, MEGA login, run | configuration, mount |
| Dynamic DNS (`services/ddns_service.py`, `scripts/ddns_update.py`) | status file, settings | save, update | configuration |
| Schedule times, support dates, mail, command runner, web shell, browser scripts, fake-mode runtime, installers | see `PROJECT.json` | | |

### What is hard

* **Threads that share an object.** `ConfigManager.load_config` empties the shared parser and
  fills it again, with no lock, while other threads read it. `UserManager.reload_users`
  replaces the dictionary that another thread is about to write back.
* **Two stores, two steps.** A schedule is disabled in systemd first and recorded in a file
  second; a user is changed in Samba and in a file; a share in a file and in smbd. Anything can
  happen in between: another request, the restore helper, a timeout, a restart.
* **State read early and used late.** The restore helper works through records read at the
  start of its pass. A status poll reads the state file before it looks at the thread the file
  speaks of. The schedule save writes the whole configuration from a copy in memory.
* **Processes that die.** The web service is restarted by updates and by admins; apt may
  outlive it; the power fails in the middle of a write.
* **Commands that do their work and then report failure**, above all `systemctl` with a timeout.
* **Limits and numbering.** The alert list keeps the newest 1000 and numbers them so that a
  browser can name one; the restore helper gives up after three failures.
* **Something must happen eventually.** An expired disable must be lifted, a stopped apt must
  end, a lock must be passed on, a stale "running" must go away.

What makes each component correct:

* persistence: no update is lost, none is half done, an acknowledged one outlives a power cut,
  the lock is always handed on;
* disabled schedules: record and systemd agree, an expired disable is lifted or reported after
  exactly the promised number of tries, a permanent one stays;
* updates: one apt at a time, no success or stop on the page that the operation it names did not have, a
  stop ends the operation;
* alerts: retention drops only the oldest, a mark hits the alert that was on the screen;
* configuration: saves through the lock build on each other and are visible to who made them;
  a save of one thing does not forget another;
* users: an edit or delete that succeeded stays, some admin can always log in, app and Samba
  passwords match;
* shares and drive: a change that fails leaves everything as it was; sharing is up again after an
  unmount; no drive but the configured one is mounted;
* application updates: a request is carried out once, by the run it was meant for;
* drive health: the dashboard shows the latest check, a change of health is always alerted;
* setup and import: what is marked as complete is complete;
* cloud backup and server name: after a save that succeeded, the file and the settings tell the same.

`PROJECT.json` lists each hazard with the line where it bites and the properties that cover it.

## Modules

| Module | Models | Runs |
|---|---|---|
| `AtomicFile` | what `locked_json_update` promises (abstract) | as a property of `file_persistence` |
| `FilePersistence`, `MCFilePersistence` | `services/file_persistence.py` | `file_persistence` |
| `DisabledTimers`, `MCDisabledTimers` | disabled schedules | `schedules`, `schedules_live`, `schedules_permanent` |
| `SystemUpdates`, `MCSystemUpdates` | apt operations | `system_updates`, `interrupted_update` |
| `ConfigStore`, `MCConfigStore` | `config.conf` and its copies | `config_store`, `settings_lost` |
| `UserStore`, `MCUserStore` | users, login, Samba accounts | `user_store` |
| `AppUpdates`, `MCAppUpdates` | the application's updates of itself | `app_updates`, `update_not_installed` |
| `AlertStore` | the alert list | `appliance` |
| `ShareStore` | what the shares page promises (abstract) | as a property of `appliance` |
| `SambaShares` | the managed network shares | `appliance` |
| `BackupDrive` | setup, removal and mounting of the backup drive, the other writers of its share and configuration, and the two scripts that use it | `appliance` |
| `DriveHealth` | the checks of the web pages and the scheduled one | `appliance` |
| `Onboarding` | setup wizard and legacy import | `appliance` |
| `CloudSettings` | the cloud destination | `appliance` |
| `ServerName` | host name, hosts file, settings | `appliance` |
| `FakeTasks` | the threads that stand for tasks on a development machine | `appliance` |
| `MCAppliance` | the last eight components together, one of them moving in each behaviour | `appliance` |
| `StoreProofs` | theorems about `FilePersistence` and `ConfigStore` | |
| `DisabledTimersProofs`, `SystemUpdatesProofs`, `UserStoreProofs`, `AppUpdatesProofs`, `SambaSharesProofs`, `BackupDriveProofs` | theorems about the module of that name | |
| `ApplianceProofs` | theorems about `AlertStore`, `DriveHealth`, `Onboarding`, `CloudSettings`, `ServerName`, `FakeTasks`, and about all eight parts of `MCAppliance` together | |

The layers fit together in this way. `FilePersistence` shows that a `locked_json_update` is one
atomic, durable step. `AlertStore` and `DisabledTimers` take that step as their atom: one action
per file update, and the interleavings between updates are theirs. `ConfigStore` has its own
lock (`config.conf.lock`, taken by `_locked_config_update`) and writers that do not take it, so
it models read, write and publication as separate steps. `SambaShares` shows that a change of one
share takes effect as a whole or not at all; `BackupDrive` and `Onboarding`, which change the share
`backup`, take that as one step that may fail without effect. Creating a user is one step of
`Onboarding` and many of `UserStore`. `CloudSettings` and `ServerName` write settings one by one, each
of them one locked save of `ConfigStore`.

A definition named `Mutant_...`, or marked as a mutant in its comment, is a plausible bug in the
definition that follows it. It is used to confirm that a property would notice that bug and is no
part of any specification.

### FilePersistence

A file is the set of updates it holds, with its data `written`, `synced` or `torn`. `visible` is
what every process sees at the path; `onDisk` is the set of files a power cut may leave there
(until the directory is synced, the one before an `os.replace` as well as the one after it).
`phase[p]` walks through `locked_json_update`: `Call`, `Lock` (`fcntl.flock`),
`ReadAndChange` (`read_json`, the caller's update, the text in a temporary file), `SyncTemp`
(`fsync`), `Replace`, `SyncDirectory`, `Return`. `Abandon` is an exception or a kill at any of
these: the `finally` clauses and the kernel release the lock, and after `Replace` the update has
been made although no one is told. A torn file cannot be parsed: `read_json` raises, so
`ReadAndChange` is not enabled and `Abandon` is. `PowerCut` ends all processes and picks what is
left on the disk. The file system is external: its contract is in `AfterPowerCut` and `PowerCut`.

### DisabledTimers

`armed[t]` stands for "enabled and started" in systemd, `records[t]` for the entry in
`disabled_timers.json`; `due` replaces the comparison of `expires_at` with the clock, and
`ExpiryPasses` lets that time come at any moment. A web thread is idle or between the two halves of
`disable` (`DisableSystemd`, `WriteRecord`) or `enable` (`EnableSystemd`, `PopRecord`), or at
some timer of a regeneration (`RegenSnapshot`, `RegenTimer`, `RegenFails`). The restore helper
is one pass at a time, because systemd does not start a oneshot unit that is running: `stage`
says where it is, `todo` and `seen` are the records it read at the start. `...TimesOut` and
`RestoreEnableFails` are commands that raise, after or before they took effect; `WebAbandon`,
`RestoreRemoveFails` and `RestoreAbandon` are processes that die or file updates that raise.

Two variables are history. `streak` counts failed restores since the last alert, by the
attempts themselves and not by the counter in the file. `undisturbed` says for which timers
agreement can be expected: since the last disable or enable that began while nothing else was
under way on the timer, nothing overlapped and nothing failed half-way. It is part of the
statement of `Agreement`, which is honest about the code: two overlapping operations on one timer
can leave record and systemd telling different stories, until the next undisturbed one.

### SystemUpdates

`file` is the state file (number of the operation, status, phase), `worker` the place of the
thread in `_run_real_operation`, `apt` its child process and the exit code it left, `other`
any other package manager. `start_operation` holds the lock throughout and is one action.
`stop_operation` is three: cancel under the lock, terminate outside it, mark the phase under
it. `get_status` is three as well, because the state file is read first, the thread and the
package managers are looked at next, and the correction is written last. `ReadLine`,
`CheckCancel`, `EndOfOutput`, `Wait`, `Decide`, `Report`, `Cleanup` and `ThreadEnds` follow the
worker line by line. In `readline` it waits until apt prints (`printed`, set by `AptPrints`) or ends, and
does not look at the cancel event meanwhile: `AptSilent`. A stop terminates the process that it found
under the lock; before `Publish` it finds none and only sets the event.
`WorkerRaises`, `ReportRaises` and `NothingIsReported` are the worker's exception paths. `Restart` ends
all threads; apt may die with the service's control group or, if only gunicorn's worker process crashed,
live on.

### AlertStore

One action per `locked_json_update`. The text of an alert is left out; `event`, the number of
the log call, tells apart alerts that share an id, so that the model can say which alert a
browser had on its screen (`opened`) when it sends an id. `cleared` is history: numbering starts
again after a clear, and `MarksWhatWasOpened` says so.

### ConfigStore

`file` and `mem[m]` are configurations with a version, the number of the write that made
them; a value is the number of the save that set it, 0 a default or nothing. The web process has
two managers (one of the application, one of the setup wizard, `routes/setup_wizard.py`), each
shared by all threads. `set_value`, `ReadLatest`, `Write`, `Publish` are
`_locked_config_update`, with `WriteRaises` for a write that fails. `load_config` empties the
shared parser and `ReadFile` fills it: two actions with the empty copy visible in between, and
`Merge` because `ConfigParser.read` adds to what another thread has put there meanwhile.
`FileIsMissing` is `create_default_config` of a first start. `save_schedule`, `CompleteSetup`,
`Snapshot` and `Overwrite` are the writers that take a copy of the memory and write the whole
file from it, without the lock and without the keys that `create_systemd_config_file` does not
know (`Carried`).

### UserStore

`file` is `users.json`, `mem` the dictionary of the application's `UserManager`, which all
request threads share, `samba` the passwords of the Samba accounts, `sessions` the users whose
cookie is valid. A user's record keeps the password, the role, the failed logins and the lock;
a user who does not exist has the password `None`. `at[t]` walks through the request in
`job[t]`. Each request first reads the file and replaces the dictionary (`LoadUsers`,
`ReloadUsers`), then runs the route and the method of `UserManager` it calls. `samba` is the
stage at which the command is about to run: it may accept, refuse (and the code undoes what it
did in memory) or time out, before its work or after it, which nobody catches. `DumpUsers` and
`SaveUsers` are the two halves of `_save_users`; `SaveFails` leaves the old file or the new one.
`verify_user` looks its record up once and changes it after the slow comparison of the password.
By then another thread may have replaced the dictionary: `held[t]` says whether the record is still
the one in `mem`, and if not the change is lost.

Two variables are history. `halfway` holds the users whose last change stopped after Samba had
changed and before the file had: nothing in the code repairs them until the next change of that
user. `orderly` says that no two requests have overlapped and that no read of the file has
failed (a failed read counts as a file without users). All three properties are conditional on
it, because without it the code does not keep two of them, with two threads and no failure. The
shortest behaviours TLC finds when `orderly` is left out:

* *Both administrators are demoted* (`AdminRemains`). `u1` asks to demote `u2` and `u2` to demote
  `u1`. Both requests pass `AdminRequest`, `LoadUsers` and `ReloadUsers` while both are
  administrators, and `Edit`, because neither names itself. Then `SetRole(t1)`, `SetRole(t2)` on
  the shared dictionary, and one `DumpUsers` and `SaveUsers` write both changes. No administrator
  is left, and only a console can make one.
* *An account in Samba only* (`SameCredentials`). `t1` lists the users, `t2` creates `u2`.
  `LoadUsers(t1)`, then `ReloadUsers(t2)` and `Create(t2)` put `u2` into the dictionary;
  `ReloadUsers(t1)` replaces the dictionary by the one `t1` had read, without `u2`.
  `SambaAccepts(t2)` makes the account, `DumpUsers(t2)` and `SaveUsers(t2)` save a file without
  `u2`, and the request answers that the user was added.

### AppUpdates

A branch is the set of changes it holds: "behind", "ahead" and "diverged" are comparisons
of sets, and a fast-forward is possible when one set contains the other. `remote` is the origin at
GitHub, `origin` what was last fetched of it, `local`, `upstream`, `head` and `dirty` the checkout in
`/opt/SimpleSaferServer`. `cache` is the status file, which counts as long as the commit is the
same; only counts are ever read back from it, so every other status is `NoCache`. `request` is the
one-shot request file, `run` the request the service has read. `service` walks through
`app_update.py`: `ReadRequest` and `UnlinkRequest` (two steps of `consume_update_request`),
`CheckStatus`, then one of `UpdateNow`, `ForceUpdateNow` (`Reset`, `Clean`, `FetchForCleanup`) and
`SwitchBranchNow` (`CreateBranch` or `TrackBranch` and `Checkout`), then `Pull` and `Install`. Each
Git command is one action; `RunFails` is any of them failing, and the task stopped on its page.
A request thread checks the status (`AskCleanup`), writes the request (`QueueRequest`) and starts
the unit (`StartTask`), or removes the request again (`StartTaskFails`, `ClearRequest`). The web
process may be restarted in between, which `install.sh` itself does (`Install`). `StartUnit` is
`systemctl start --no-block`: a running oneshot service goes on and no second run follows. Git,
GitHub and the operators who edit or commit in the folder are external.

### SambaShares and ShareStore

`ShareStore` is the page's promise: a set of shares with one per name, and three steps on it.
`SambaShares` has what implements it: `main` is `smb.conf`, which belongs to the administrator (its
include lines are missing, in place or malformed; `admin` holds the names of shares written there
by hand), `globals` and `shares` are the two files of the program, `smbd` the daemon and the
shares it has loaded. A request walks through `layout` ... `main` (`ensure_layout`: snapshot, globals, header of
the shares file, `smb.conf` last, or the restoration in the order smb.conf, globals, shares), `load`,
`commit`, `write`, `validate`, `reload`, and on failure `rollback` and `restart`. What `testparm` says
is an oracle, since `smb.conf` may hold anything. `WebDies` ends all requests where they are,
`EditMain` is the administrator's editor, `RestartServices` the button.

`orderly` is fixed in the initial state: half of the behaviours have requests that do not
overlap. `IncludesExist` and `AtomicShares` speak of those, `Served` of all. `unsettled` is history:
a failure was reported, or the machine stopped, after smbd last loaded the file, or a restoration
wrote over shares of another request. `Published` is the refinement mapping: while a new content is
on trial (validate, reload, rollback) the store still has the old one.

### BackupDrive

A drive is a partition with a UUID. `mounts` is the mount table in order (a later mount hides an
earlier one; a mount whose drive was pulled out is no longer `live`), `fstab` the managed entry,
`units` the entry systemd made its mount unit from at the last `daemon-reload`, `driveConf` the three
settings, `driveShare` the path of the share `backup`. One request at a time is in `driveWeb`: the setup, with
its rollback in the order of the code (`UndoMount` ... `UndoConfig`; `RollbackFails` skips what the
exception skips), the unmount (`StopCheck` ... `StartSmb`), the mount button, formatting.
`check_mount.sh` (`chk`) and `backup_cloud.sh` (`bak`) run beside it, drives are plugged, pulled out and
mounted by others, and the power may fail, after which the machine boots with the units of fstab.
An `umount` removes the mount on top at its mount point and uncovers the one below it.

Others write what a setup writes: the Network File Sharing page creates, changes or deletes the share `backup`
(`EditShare`), the end of the wizard points it at the configured mount point (`CompleteShare`), and
the legacy import replaces the configuration (`ImportConfig`), then the share (`ImportShare`), or fails in between
(`ImportFails`). None of them touches `/etc/fstab`. An import counts as the request in `driveWeb`; the two
others are single steps between requests.

`driveTorn` is history: a setup or an unmount was cut short or could not clean up after itself, the
configuration was imported, the share was changed by somebody else. A setup that is finished clears all but
`unmount`.
`MaxDriveMoves` bounds requests, failures and moves of the environment together.

### DriveHealth

Time counts half seconds, because a refresh stamps a check before the probe with full precision and
the page stamps it after the probe and drops the fraction (`Truncated`). The published summary is
replaced by one whose stamp is not older; a restart forgets it. `stamps` (of the checks published
since the start) and `told` (the last change alerted) are history. The scheduled check is `collect`,
`compare` (with the alert) and `save`; a crash may end it between any two.

### Onboarding

`setupConf` has what the setup requires, `users`, `samba`, `timers` and `sharedPath` what it makes elsewhere. Each
thread serves one step of the wizard: user, email, system information, drive, schedule, completion.
Completion, a schedule save and the import share `config`, `units`, `time`, `share`, `mark`: the
whole configuration is written from a copy read at the start, and the mark comes last. The import
(`Importer`) replaces the configuration first, may refuse because users exist, and may be started
over. `overlapped` is history: two completions or schedule saves were under way at once.

### CloudSettings

A request is the list of writes it still has to make (`todo`): `rclone.conf` first, then one setting
after the other. A write may fail or be the last one; `cloudTorn` remembers that until a request succeeds.
The stored password is used again by a save that names none, which is how an earlier half of
a save could matter.

### ServerName

`update_server_name` writes the hosts file, sets the host name and saves four settings. If
`hostnamectl` fails, or does its work and times out, the old hosts file is restored and the error
raised; a failure of a setting leaves the rest as it is. The operator may rename the host or edit the
hosts file between changes, and whole-file saves drop the settings. `nameTorn` is history.

### FakeTasks

One task: its runs are threads, `active` is the entry of `_fake_task_threads`, `cancel` the events set, `status` the
entry in `state.json`. A stop is three steps: it sets the event under the lock,
looks at the status, and writes it, the last two outside the lock. A restart of the process ends threads and leaves the status.
`StartFails` is a start that raises after it has written "Running", before there is a thread; `ReportFails` a thread
that cannot write how it ended. `stale` remembers any of the three until the next start.

### MCAppliance

These eight components share no state in the models: what one uses of another is a step of its own
module. `part` is chosen in the initial state, only that part moves and the others stay as they
begin, so TLC visits the sum of the state spaces instead of their product. All eight modules are
extended: their variables and their definitions of the same kind carry a prefix of their own (`alert...`, `Drive...`,
`Health...`, `Setup...`, `Cloud...`, `Name...`, `Task...`; those of `SambaShares` carry none). That each part behaves
there as it does alone is a theorem (`PartsBehave`).

## Runs

| Run | Expect | Bounds | Properties |
|---|---|---|---|
| `file_persistence` | pass | 3 processes, 3 calls, 2 power cuts | `FileTypeOK`, `AckedSurvive`, `RefinesAtomicFile`, `LockIsGranted` |
| `schedules` | pass | 2 web threads + helper, 2 timers, retry limit 2, 1 crash | `TypeOK`, `Agreement`, `AlertNotEarly` |
| `schedules_live` | pass | 1 web thread + helper, 2 timers, retry limit 2, 1 crash | `ExpiredIsResolved` |
| `schedules_permanent` | violation | 2 web threads, no crash | `PermanentStaysOff` |
| `system_updates` | pass | 2 browsers, 2 operations, 1 restart | `TypeOK`, `OneApt`, `Truthful`, `StopTakesEffect`, `StaleRunningHeals` |
| `interrupted_update` | violation | the same | `OutcomeIsKept` |
| `appliance` | pass | see below | `PartsTyped`, `NewestAreKept`, `MarksWhatWasOpened`; `IncludesExist`, `Served`, `AtomicShares`; `Agree`, `AllOrNothing`, `SharingReturns`, `RightDrive`; `LatestShown`, `NoChangeMissed`; `Ready`; `BackupUsesSettings`; `NamesAgree`; `RunsAlone` |
| `config_store` | pass | 3 threads, 2 managers, 3 settings, 2 saves | `TypeOK`, `LockedSavesStand`, `ReadsOwnSaves` |
| `user_store` | pass | 2 threads, 2 users, 2 passwords, 2 requests, 1 fault, a lock after 2 failed logins | `TypeOK`, `AdminRemains`, `SameCredentials`, `UsersComeAndGo` |
| `app_updates` | pass | 1 admin, 2 branches, 1 pushed and 1 local commit, 1 request, 1 fault | `TypeOK`, `OncePerRequest`, `CommitsSurvive`, `UpdatesArrive` |
| `update_not_installed` | violation | the timer only, 1 fault | `PulledIsInstalled` |
| `settings_lost` | violation | 1 thread, 1 manager, 3 saves | `SavedStaysSaved` |

What the passing runs show:

* **file_persistence**: through exceptions, kills and power cuts at any step, callers see atomic
  updates; nothing acknowledged is lost; no reader meets a torn file. Three processes are what
  it takes for one to overtake another that waits while a third holds the lock; two power cuts
  let a cut fall between recovery and the next acknowledged update.
* **schedules**: on each timer, record and systemd agree whenever nothing disturbed the timer,
  and the alert comes only after the promised failures. Two timers make the helper and
  a regeneration visit a timer while another is pending, in opposite orders; two threads and the
  helper give every pair of overlapping operations and a third that interferes. A limit
  of 2 (3 in the code) is the least for which "too early" and "in time" differ after one failure.
* **schedules_live**: an expired disable is lifted, given up on or replaced. One web thread
  is enough to disturb each pass at any of its steps, and keeps the search for cycles small.
* **system_updates**: with two operations, a late step of a stop or a poll of the first can
  meet the second; one restart separates what the file says from what runs. `Truthful` is about
  success and stop only: that a poll may record a failure over either is the run `interrupted_update`.
  `StopTakesEffect` says that a stop which found the process ends the operation whatever apt does, and
  that one which did not (it came before the worker had published it) ends it if apt does not
  stay silent for ever.
* **appliance**, 772,000 states, one bullet per part:
  * *alerts* (2 admins, 3 kept, 7 logged): retention trims, the highest id has been trimmed by a clear,
    and ids are compared across both.
  * *shares* (2 workers, 2 names, of which one may also be a share of the administrator's own, 2 paths,
    2 requests): two requests overlap at every step, or follow each other after any failure or
    crash of the first, and create, rename, change and delete.
  * *drive* (2 drives, 2 mount points, a UUID to spare, 2 moves): a setup for another drive or
    mount point over an existing one, or a fresh one, with one more event: a failed step,
    a pulled drive, a mount by somebody else, a power cut, an import, a change of the share, or a second request,
    with both scripts at every point.
    Two moves are what it takes to interrupt a setup and then press the mount button.
  * *health* (2 threads, 2 percentages, 3 half seconds, 3 moves): two checks that overlap across a second,
    and a scheduled check before and after a change with a crash in between.
  * *setup* (2 threads and the import, 2 names, 3 moves): two tabs, and an import that is refused
    and followed by the wizard or by a second import.
  * *cloud* (4 requests): a save that is cut short, a validation, and a save that uses what
    they have stored.
  * *name* (3 host names, 3 moves): a change cut short, an operator's rename, and a change after it.
  * *tasks* (2 threads, 3 runs, 3 stops): two stops overlap each other and the start of the next run.
* **config_store**: three threads let two updates through different managers overlap while a
  third reloads; two saves suffice to see one of them lost. Three settings: one carried by
  the whole-file write and saved by it, one that ends the setup, one that it drops.
* **user_store**: what one request leaves behind, by success or by a failure at any step, never
  leads the next one to save something that no request asked for, to lose the last administrator
  or to let a password differ between the two stores. Two requests are what it takes: one to
  leave something in memory, one to save it. Users start one failed login away from being locked,
  so that both outcomes of that login are reached. Two threads make every step of a login and of
  a change meet every step of another, for the type invariant and for the steps themselves.
* **app_updates**: one request (and any number of scheduled runs) is what a second run could
  repeat; one fault kills a run between any two of its steps. A pushed and a local commit make a branch
  behind, ahead and diverged; two branches make a switch, to one that exists in the checkout or not.

Symmetry is used for threads, workers, admins, users and passwords, in runs without liveness properties only.
`CHECK_DEADLOCK FALSE` stands where a bound ends the run: all calls, saves or requests made. Elsewhere
deadlock is checked.

### Fairness

* `DisabledTimers`: weak fairness of `RestoreStep`. The helper's timer fires every five minutes
  (`Persistent=true`), and each command it runs has a timeout, so a pass always continues. Web
  requests, regeneration, failures and the passing of time have no fairness: nothing obliges an
  admin to act.
* `SystemUpdates`: weak fairness of the worker as a whole (a thread runs on) and of each
  browser's polling and of the rest of a stop request (the page polls while it is open). While the worker waits in
  `readline` it has no step that fairness could oblige it to take. It is *not* assumed
  that apt prints or ends by itself; the first half of `StopTakesEffect` must hold without that, the second half
  names what it needs: `[]<>~AptSilent`.
* `FilePersistence`: weak fairness of a process inside the critical section, strong fairness of
  `Lock`: a waiter of `flock` is woken at each release, and is not passed over forever. No
  fairness of calls, exceptions or power cuts.
* `AppUpdates`: weak fairness of the timer (daily, `Persistent=true`) and of the service's steps:
  every command has a timeout. Pushes, requests and failures have none.
* All other modules state safety only: their operations are requests, which nobody is obliged to make.

## Disagreements found

Four runs expect a violation. Each quotes what the repository says (see `findings` in
`PROJECT.json`).

* **schedules_permanent** (`services/disabled_timers.py:131-139`). `docs/task_detail.md:21`:
  a permanent disable "leaves automatic runs off until Enable Schedule is used". A restore pass that
  has read the expired temporary record of a timer switches the timer on, and drops its record,
  after an admin has made the disable permanent.
* **interrupted_update** (`services/system_updates.py:506-508`). A poll that read "running" just
  before the operation ended finds no worker and records "SimpleSaferServer restarted before
  this apt operation finished" over the outcome. No restart is needed.
* **settings_lost** (`services/system_utils.py:178-226`). `docs/system_updates.md:140` says saved apt settings
  are the source of truth from then on. A schedule save on the Cloud Backup page writes
  `config.conf` from five known sections, and `apt_updates` is gone. One thread suffices.
* **update_not_installed** (`services/app_updates.py:397`). `docs/system_updates.md:82-85`: the task
  pulls "and then reruns the full installer", which keeps dependencies, units and scripts "in sync
  with the pulled code". When the installer fails or the run is killed after the pull, all later runs
  find the checkout up to date and none installs it, until something new is pushed.

## What the models show beyond the runs

The models contain these behaviours of the code; no run is about them, because no sentence of the
repository speaks against them plainly enough, or because a property is restricted to leave them
out (it then says so).

* *apt*: a stop between the start of apt and the publication of its process
  (`services/system_updates.py:402-404`) finds nothing to signal; the worker looks at the cancel event only
  when `readline` returns, so a silent apt runs on, while `docs/system_updates.md:118` says that Stop asks the
  process group to terminate. A second click on Stop finds the process.
* *Drive, share and import*: after a legacy import `/etc/fstab` keeps the old entry while the configuration names
  another drive or mount point, and after an edit on the Network File Sharing page the share `backup` serves
  some other path, until the next setup. `Agree` excepts both; `RightDrive` still holds: the mount button
  does not mount the old drive.
* *Users*: overlapping requests, see the two behaviours under [UserStore](#userstore).
* *Shares*: `ensure_layout` decides on a header for a missing file, and restores a snapshot,
  whatever another request has written meanwhile (`services/samba_layout.py:45-51`); and of two
  overlapping changes the second writes what it worked out before the first. Neither is noticed by the
  losing request. smbd still serves what the file says (`Served`).
* *Drive setup*: an `umount` that times out in the rollback, or a failing `daemon-reload`,
  raises out of the rollback, and fstab or the settings stay changed after an error answer;
  `docs/setup.md:63-67` promises that they change only on success. `AllOrNothing` excludes a rollback
  that fails, and those are the cases.
* *Mount button*: `systemctl start` of a oneshot unit returns when the script ends. A cloud backup
  that takes longer than the 30 s of `start_unit` ends the request with an exception before smbd
  and nmbd are started (`services/storage_service.py:101-108`,
  `adapters/storage_commands.py:42-50`), although the drive is mounted.
* *Scripts*: `backup_cloud.sh:39` looks for the mount point anywhere in `/proc/mounts`, so that `/media/backup2`
  satisfies it for `/media/backup`, and looks once, well before rclone runs. `check_mount.sh` does
  not compare UUIDs.
* *Drive health*: the snapshot is saved also after a reading that failed
  (`services/drive_health.py:776`), so that a change with a failed reading between is
  not alerted, while `docs/drive_health.md:39` speaks of "the previous successful" percentage.
  `NoChangeMissed` speaks of two consecutive checks that could read the drive. The order of
  `LatestShown` is that of the stamps: a page stamps after its probe and truncates, a refresh before.
* *Import*: a legacy import refused because users exist has replaced the configuration before
  (`legacy/migration.py:343` and `191-194`): the server asks for the setup again.
* *Completion*: two completions of the setup at once can undo each other's settings (`overlapped`).
* *Cloud*: validating a MEGA account switches `rclone.conf` and leaves `rclone_dir` of the old
  destination until a folder is saved.
* *Server name*: `original_hostname` is lost by the whole-file writes of a schedule save, and by a crash
  before it is stored, after which the next change stores the wrong one.
* *Fake mode*: a stop writes "Stopped" after it has given up the lock
  (`services/task_service.py:243-247`), possibly over the "Success" of the run, or over the status of
  the next one. A start that fails after it has written "Running" (lines 538-548) leaves that
  on the page with no thread behind it. `RunsAlone` excepts the second and does not speak of the first.
* *Application updates*: a request made while a run is under way that has already read its request (or
  made by a thread that a restart ends before it starts the unit) stays behind, and a
  later scheduled run carries it out, a cleanup included; the comment in
  `routes/system_updates.py:46-48` wants to exclude that. After a switch to a branch at the same
  commit, the cached counts of the old branch enable *Update Now*.

## Proofs

TLC checks small instances; the theorems hold for any timers, threads, managers, settings, users,
shares, branches, drives, mount points, accounts, names, limits and bounds that satisfy the modules' named
assumptions. Every module but the abstract two has one (`TimersAssumption`, `FileAssumption`, `ConfigAssumption`,
`UpdatesAssumption`, `UserAssumption`, `AppUpdatesAssumption`, `AlertAssumption`, `ShareAssumption`,
`DriveAssumption`, `HealthAssumption`, `SetupAssumption`, `CloudAssumption`, `NameAssumption`,
`TaskAssumption`). They say that bounds and limits are numbers (a limit at least 1 where the code's is), that
`Nobody`, `None`, `NoUuid` and `NoHealth` are none of the things they stand apart from, that the blank cloud mode is neither of the two
others, and that initial or default values are of their sets. TLC evaluates these assumptions in every run. All invariants,
action properties and refinements of the passing runs are theorems.

**`DisabledTimersProofs`**

* `TypeCorrect`. `TypeOK` is not inductive: the failure count that the helper writes is the
  snapshot's plus one and could exceed the limit. `LimitInv` adds that a record taken up by a
  pass has fewer attempts than the limit, which holds because a record at the limit is marked failed.
* `AlertsAreNotEarly`. `AlertInv` relates the counter in each record and in each snapshot to the
  failures that really happened (`streak`), also while a failure is counted but not written yet.
  `OneCurrent` says that the pass is at one timer only.
* `RecordsAgreeWithSystemd`. `AgreementInv` says what holds of an undisturbed timer at every
  stage: settled and agreeing, or touched by exactly one web thread at a known half of its
  operation, or in the hands of the restore pass alone. The web and the restore lemmas go through
  the actions; `SettledFrame` treats the timers an action does not touch.

**`StoreProofs`**

* Of the files: `FileTypeCorrect`, `AcknowledgedUpdatesSurvive` and `UpdatesAreAtomic`, the last of them
  refinement: `FileSpec => RefinesAtomicFile`. The invariant `FileInv` has three parts beside the types.
  `FileLockInv`: a process in the critical section holds the lock, hence is alone there. `TempInv`: its
  temporary file is what is visible plus its own update, and is synced before it is published.
  `DiskInv`: every file a power cut may leave is whole, is contained in the visible one and
  holds all that was acknowledged. `Replace` maps to `Apply`, `Return` to `Acknowledge`, `PowerCut`
  to itself, the rest to stuttering.
* Of the configuration: `TypeCorrect`, `NoLockedUpdateIsLost`, `ManagersReadTheirOwnSaves`. `LockInv`: writing and
  publishing happen under the lock. `UpdateInv`: an update that is about to write starts from a file
  that holds all that was saved under the lock before it (`LockedSavesStand` alone says nothing of
  the copy a thread has read, so it is not inductive); nothing was saved through a manager that
  is newer than the file. What the whole-file writers do to earlier saves is part of the
  theorem's statement (`lastSaved` forgets them) and the subject of the run `settings_lost`.

**`SystemUpdatesProofs`**

* `TypeCorrect`, `AptRunsAlone`, `OutcomesAreTrue`. `WorkerInv` ties the thread to the record: while
  it works, the operation has an event of its own and no final status, an apt of its own
  implies that it is at work; a verdict of success in its hands means that apt succeeded, one of
  stopped that this operation was asked to stop. Polls and restarts write only
  other verdicts.

**`SambaSharesProofs`**

* `TypeCorrect`, `IncludesAlwaysExist`, `PublishedIsServed`, and `ImplementsShareStore`: the refinement.
  `ServedInv`: smbd has loaded what the file says, or a failure was reported, or some worker is still between
  publication and the end of its rollback; it holds for any overlapping. The other two hold of
  requests that do not overlap, through `OrderlyInv`. `SnapshotInv` says that the snapshot of
  `ensure_layout` is of a sound configuration and that restoring it in the order of the code
  is sound after each part. `CommitInv` says that what is about to be
  published, or is on trial, is one step of `ShareStore` (`StepTo`) from what a rollback puts back.
  `Reload` then maps to `Create`, `Change` or `Delete`, so does a crash during the trial, and
  everything else to stuttering.

**`UserStoreProofs`**

* `TypeCorrect`, where `JobFits` says which requests may be at which step.
* `AnAdministratorRemains`. The property alone is not inductive: the file is written from a copy made
  steps before. `Keeps(j, dict)` says that the administrator who asked for `j` (for a login, whoever was one)
  is an administrator with a password in `dict`; it holds of the file, of the shared dictionary and of the copy being
  written, at every step of the one request there is. It stays true because no edit of one's own
  account takes the role away and no request deletes its own account.
* `OnePasswordEach` and `OnlyAsAskedFor`. `Carries(t)` follows the one password a request changes
  (`Changes`, `Target`): to Samba, to the shared dictionary, to the copy being written and to the
  file, each stage naming the places that have it already. Every other password is the same in
  all the dictionaries (`Same`). What a failed request leaves in memory needs no clause, since the next
  request reads the file again before it does anything; the file is written at one stage only, from
  a copy that differs from it in that one password (`Written`).

**`AppUpdatesProofs`**

* `CleanupsAreAskedFor`. `Outstanding` counts the cleanups that may still happen without another click: one in
  the request file, and one read and not begun. While the service is between reading and removing
  the file the two count once, since the file is removed whatever it holds by then. Cleanups made
  plus outstanding never exceed the clicks, through kills, restarts and any number of admins.
* `TypeCorrect`. What is not a frame is `asked`, which has to stay within the bound on the requests:
  `QueueInv` says that the cleanups asked for, and the requests made but not queued yet, are
  together no more than the requests made.
* `BranchesKeepTheirCommits`, an action property. `CheckoutInv` says that a branch about to be made
  does not exist in the checkout, that one about to be tracked or checked out does, and that the
  branch checked out exists; whatever is then pulled or committed is only added.

**`BackupDriveProofs`**

* `DriveTypesCorrect`, `StoresAgree`, `SetupIsAllOrNothing`, `SharingIsRestored`, `ConfiguredDriveMounted`. `Agree`
  speaks of the time when no setup is at work, and of configuration and share only until an import, or an edit of
  the share, comes between. It is not inductive: what a setup leaves depends on every
  step that it has made. `WayForward` says what is written by each step (fstab, then the units made
  from it, the share, the mount point, the UUID), whatever the setup began from: a setup that gets to its end repairs
  what an interrupted one left. `WayBack` says of a setup that began from a coherent state, at
  each step forward and back, which stores still have, or have again, their old value, and that the
  request holds the old value of the others. A rollback step that raises, a crash or a restart set `driveTorn`, and
  `WayBack` ends there. `ShareKept` is the case that looks wrong and is not: a rollback with no old share in hand
  has none to put back, and then the share is still the old one: a setup creates none, and one at the
  right path stays.
* For the mount button, `AboutToMount`: from the check of the entry to the mount, the UUID that the request
  read is the configured one, is the one on its drive, and is the one of the fstab entry if the mount goes by that.
  One request is served at a time, so no setup intervenes; drives pulled out, plugged in and mounted by others can, and are
  in the proof.

**`ApplianceProofs`**, by part:

* Alert list: `AlertTypesCorrect`, `NewestAlertsAreKept`, `MarksTheAlertOnScreen`. The last two rest on `Window`: the
  list is exactly the newest of the events since the last clear, in order, and an alert's id is its
  event's number since that clear. Hence ids are distinct although retention drops the oldest.
  `ScreenIds` says the same of the alert on a screen, unless the list was cleared since: only then
  may the id it sends name another alert.
* Drive health: `HealthTypesCorrect`, `LatestCheckShown`, `ChangesAreAlerted`. `ShownIsLatest`: the stamp shown
  is one of the published ones and none of them is later; `publish` keeps it whichever check comes last.
  For the alerts, `Compared`: a scheduled check at any step has compared with the snapshot that it will replace, because only
  one check runs at a time and only its end writes the snapshot; `Alerted`: by the time it is about to save a
  change, the last alert was for that change.
* Onboarding: `SetupTypesCorrect`, `CompleteSetupIsReady`. A request writes the whole configuration from its own
  copy, so the mark is only as good as that copy: `Carries` says what a copy holds at each step
  (required values, and for a new admin that users and Samba know it), `Written` what the configuration
  has by then, and that a copy of a complete setup was right and stays so; `OneWriter` that, until two completions
  overlap, one request writes at a time. `SetupFrame` is the lemma every step goes through: other requests
  are disturbed only if users, timers or the share go away, or a required value does, and nothing does that.
* Cloud destination: `CloudTypesCorrect`, `SettingsMatchRclone`. Writes are a set of which some are done (`Underway`):
  the writes that a request has still to make are among those it means, and it has made all the others or found them so. No
  request means two values for one setting (`MeantDistinct`), hence a write undoes no other (`StepDone`). When
  nothing is left, all of them hold, and they tell one story (`WhatASaveLeaves`, `WhatAValidationLeaves`). The
  case worth the proof is `SaveFolder`, which leaves out the password, and the address when it is the same: what is
  stored is then what it means, even if a save that was cut short stored it.
* Server name: `NameTypesCorrect`, `ServerAnswersToItsName`. `NameProgress`: up to the change of the host name the old
  names are in the file or in the request's copy, afterwards the new one is in the file and the settings follow one by one.
* Tasks of fake mode: `TaskTypesCorrect`, `TaskRunsAlone`. The run that the dictionary names covers every live run
  (`Live` is within `active`, which holds at most one), and a run that has reported leaves a
  status other than running, unless a restart or a failed write has left "Running" since the last start (`stale`), which the theorem excepts.
* All together: `PartsBehave`, that a behaviour of `MCAppliance` is one of each part, step by step; with it
  `AllTypesCorrect`, and `PartsStaySafe`, the conjunction of what the run `appliance` checks.

Left to TLC: liveness under fairness (`ExpiredIsResolved`, `LockIsGranted`, `StopTakesEffect`,
`StaleRunningHeals`, `UpdatesArrive`), which the prover cannot do. The prover reaches neither ENABLED nor
RECURSIVE operators nor induction over data; no module here declares a RECURSIVE operator, and none of
the properties needs such an induction.

## Not modelled

Formatting, logging, HTML, the wording of messages and the permissions of files are left out
everywhere. `PROJECT.json` gives the reason for each component no module covers:

* *Schedule times*, *operating-system support dates*, *command runner*, *web shell*: no state of
  their own; a table, a parser or a wrapper. A command that fails or times out is an outcome of
  the actions that run it.
* *Dynamic DNS*, *alert mail*: one request to the outside and one file or mail; no step depends on
  an earlier one beyond a cached address.
* *Browser scripts*: layout, mostly. The polling of the updates page is an action of `SystemUpdates`.
* *Installation scripts*: sequential scripts run by root; their effect on the running system is
  `Install` of `AppUpdates` and the regeneration of `DisabledTimers`.

Inside the modelled components these are left out: `remove_stale_locks`, restart and shutdown (each
checks that apt is idle and then acts; nothing closes that window); the apt and Livepatch
settings; `durable=False` writes, which promise nothing; the setup wizard's own
`UserManager`; listing and making folders at MEGA; fake mode's imitation of drives and mounts.

## Plan

What would add most next, in this order:

1. Runs for the observations listed above, the request left behind and the two behaviours of `UserStore`
   first.
2. `PackageLocks`: the removal of stale locks, restart and shutdown as check-then-act against apt.
3. `DynamicDns`, and `ScheduleTimes` as an algorithm on times of day, checked against a definition
   on minutes.
