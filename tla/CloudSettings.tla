----------------------------- MODULE CloudSettings -----------------------------
(***************************************************************************)
(* The cloud destination (services/cloud_backup_service.py): rclone.conf,  *)
(* which rclone reads, and the settings in config.conf from which the      *)
(* pages and the next save work.  Every save writes rclone.conf first and  *)
(* then one setting after the other; each write may fail, or be the last.  *)
(* One admin at a time changes the destination.  The schedule that the     *)
(* same form may carry is saved as Onboarding shows.                       *)
(***************************************************************************)
EXTENDS Sequences, Naturals

CONSTANTS Emails, Passwords, Folders, Remotes,
          Blank,            \* the empty string
          MaxCloudRequests  \* bound: requests

ASSUME CloudAssumption == Blank \notin {"mega", "advanced"} /\ MaxCloudRequests \in Nat

VARIABLES rclone,     \* what rclone.conf configures
          cloud,      \* cloud_mode, mega_email, mega_pass, mega_folder, rclone_dir
          todo,       \* what is left of the request under way
          kind,       \* what the last request was
          cloudTorn,  \* whether it was cut short
          requests

cloudVars == <<rclone, cloud, todo, kind, cloudTorn, requests>>

(* rclone.conf has a remote for a MEGA account, or what the admin wrote,   *)
(* who also names a remote of it.                                          *)
Mega(email, pass) == [remote |-> "mega", user |-> email, pass |-> pass]

Own(remote) == [remote |-> remote, user |-> Blank, pass |-> Blank]

Ask(k, steps) ==
  /\ todo = <<>> /\ requests < MaxCloudRequests
  /\ requests' = requests + 1
  /\ kind' = k /\ cloudTorn' = TRUE
  /\ todo' = steps
  /\ UNCHANGED <<rclone, cloud>>

Write(content) == [file |-> "rclone.conf", value |-> content]

Put(key, value) == [file |-> "config.conf", key |-> key, value |-> value]

Destination(folder) ==
  <<Put("mode", "mega"), Put("folder", folder), Put("dir", <<"mega", folder>>)>>

(* _save_mega_config with a password. *)
SaveMega(email, pass, folder) ==
  Ask("save", <<Write(Mega(email, pass)), Put("email", email), Put("pass", pass)>>
                \o Destination(folder))

\* Mutant: rclone.conf is left alone when the password stays the same.
FolderOnly(email, folder) ==
  /\ cloud.email # Blank /\ cloud.pass # Blank
  /\ Ask("save", <<Put("email", email)>> \o Destination(folder))

(* _save_mega_config without one: the stored password is used again. *)
SaveFolder(email, folder) ==
  /\ cloud.email # Blank /\ cloud.pass # Blank
  /\ Ask("save", <<Write(Mega(email, cloud.pass))>>
                   \o (IF cloud.email = email THEN <<>> ELSE <<Put("email", email)>>)
                   \o Destination(folder))

_save_advanced_config(remote) ==
  Ask("save", <<Write(Own(remote)), Put("mode", "advanced"), Put("dir", <<remote>>)>>)

(* validate_mega saves the account when MEGA accepts it; the folder is     *)
(* chosen after that.                                                      *)
validate_mega(email, pass) ==
  Ask("validate", <<Write(Mega(email, pass)), Put("mode", "mega"), Put("email", email),
                    Put("pass", pass)>>)

(* The next write of the request. *)
CloudStep ==
  /\ todo # <<>>
  /\ LET s == Head(todo)
     IN IF s.file = "rclone.conf" THEN rclone' = s.value /\ UNCHANGED cloud
        ELSE cloud' = [cloud EXCEPT ![s.key] = s.value] /\ UNCHANGED rclone
  /\ todo' = Tail(todo)
  /\ cloudTorn' = (todo' # <<>>)
  /\ UNCHANGED <<kind, requests>>

(* A write fails, or the web service stops. *)
CloudCutShort ==
  /\ todo # <<>>
  /\ todo' = <<>>
  /\ UNCHANGED <<rclone, cloud, kind, cloudTorn, requests>>

(* At the start no cloud destination is set up. *)
CloudInit ==
  /\ rclone = Own(Blank)
  /\ cloud = [mode |-> Blank, email |-> Blank, pass |-> Blank, folder |-> Blank,
              dir |-> <<>>]
  /\ todo = <<>> /\ kind = "save" /\ cloudTorn = FALSE /\ requests = 0

CloudNext ==
  \/ \E email \in Emails, folder \in Folders :
       \/ SaveFolder(email, folder)
       \/ \E pass \in Passwords : SaveMega(email, pass, folder)
  \/ \E email \in Emails, pass \in Passwords : validate_mega(email, pass)
  \/ \E remote \in Remotes : _save_advanced_config(remote)
  \/ CloudStep \/ CloudCutShort

CloudSpec == CloudInit /\ [][CloudNext]_cloudVars

(***************************************************************************)
(* Properties.                                                             *)
(***************************************************************************)
(* The type of every variable. *)
CloudTypeOK ==
  /\ rclone.user \in Emails \cup {Blank} /\ rclone.pass \in Passwords \cup {Blank}
  /\ cloud.mode \in {Blank, "mega", "advanced"}
  /\ cloud.email \in Emails \cup {Blank} /\ cloud.pass \in Passwords \cup {Blank}
  /\ cloud.folder \in Folders \cup {Blank}
  /\ Len(todo) <= 6 /\ kind \in {"save", "validate"}
  /\ cloudTorn \in BOOLEAN /\ requests \in 0..MaxCloudRequests

(* A save that succeeds leaves rclone.conf, which the backup uses, and the *)
(* settings, which the page shows and the next save starts from, telling   *)
(* the same story, whatever earlier saves that were cut short have left    *)
(* behind.  (Validating an account leaves the old destination until a      *)
(* folder is saved.)                                                       *)
BackupUsesSettings ==
  ~cloudTorn =>
    /\ cloud.mode = "mega" => rclone = Mega(cloud.email, cloud.pass)
    /\ cloud.mode = "mega" /\ kind = "save" => cloud.dir = <<"mega", cloud.folder>>
    /\ cloud.mode = "advanced" => cloud.dir = <<rclone.remote>>
=============================================================================
