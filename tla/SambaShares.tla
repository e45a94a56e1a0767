---------------------------- MODULE SambaShares ----------------------------
(***************************************************************************)
(* The managed network shares (services/smb_manager.py and                 *)
(* services/samba_layout.py).  Three files: smb.conf, which belongs to the *)
(* administrator and includes the two others; the globals file; the shares *)
(* file.  A request first repairs the include lines, then reads the shares *)
(* file, works out its new content and publishes it: write, validate,      *)
(* reload smbd, and on failure write the old content back.  No lock spans  *)
(* these steps, and every one of them may fail.                            *)
(*                                                                         *)
(* The text of a share is the record [name, path, users]; what testparm    *)
(* thinks of a configuration is an oracle, because smb.conf may hold       *)
(* anything.                                                               *)
(***************************************************************************)
EXTENDS Naturals

CONSTANTS Workers,       \* threads of the web service that serve a request
          Names, Paths, UserLists,
          AdminNames,    \* names the administrator gives to shares of their own
          MaxRequests    \* bound: requests to change a share

ASSUME ShareAssumption == MaxRequests \in Nat

VARIABLES main,      \* smb.conf: its include lines, and the shares of the administrator
          globals,   \* whether the globals file exists
          shares,    \* the shares file
          smbd,      \* whether smbd runs, and the managed shares it has loaded
          web,       \* the request of each worker
          orderly,   \* fixed at the start: requests do not overlap
          unsettled, \* a failure was reported, or a crash happened, after smbd last loaded
          asked      \* requests so far

vars == <<main, globals, shares, smbd, web, orderly, unsettled, asked>>

Share == [name : Names, path : Paths, users : UserLists]

MainFile == [layout : {"plain", "wired", "malformed"}, admin : SUBSET AdminNames]

SharesFile == [exists : BOOLEAN, blocks : SUBSET Share]

(* A request: the share it names and what that share is to become. *)
Op == {[kind |-> "create", name |-> s.name, share |-> s] : s \in Share}
      \cup [kind : {"update"}, name : Names, share : Share]
      \cup {[kind |-> "users", name |-> s.name, share |-> s] : s \in Share}
      \cup [kind : {"delete"}, name : Names]

None == [kind |-> "none"]

Idle == [pc |-> "idle", op |-> None, snap |-> None, new |-> {}, orig |-> None]

Named(blocks, n) == {s \in blocks : s.name = n}

Busy(w) == web[w].pc # "idle"

AllIdle == \A w \in Workers : ~Busy(w)

At(w, pc) == web[w].pc = pc

Goto(w, pc) == web' = [web EXCEPT ![w].pc = pc]

(* The request is answered. *)
Answer(w) == web' = [web EXCEPT ![w] = Idle]

files == <<main, globals, shares>>

(***************************************************************************)
(* ensure_layout.                                                          *)
(***************************************************************************)
(* The routes: a share is created, changed, deleted, or given other users; *)
(* _validate_share_input has accepted the request.  The drive setup and    *)
(* the wizard call the same methods for the share "backup".                *)
Begin(w, op) ==
  /\ ~Busy(w) /\ (orderly => AllIdle)
  /\ asked < MaxRequests
  /\ asked' = asked + 1
  /\ web' = [web EXCEPT ![w] = [Idle EXCEPT !.pc = IF op.kind = "users" THEN "lookup"
                                                   ELSE "layout",
                                            !.op = op]]
  /\ UNCHANGED <<files, smbd, orderly, unsettled>>

(* update_share_users: the other fields are those the share has now. *)
Lookup(w) ==
  /\ At(w, "lookup")
  /\ LET op    == web[w].op
         found == Named(shares.blocks, op.name)
     IN \/ found = {} /\ Answer(w)
        \/ \E s \in found :
             web' = [web EXCEPT ![w].pc = "layout",
                                ![w].op.share = [s EXCEPT !.users = op.share.users]]
  /\ UNCHANGED <<files, smbd, orderly, unsettled, asked>>

(* The three files are snapshot and smb.conf is read.  Unpaired or doubled *)
(* markers are refused before anything is written.                         *)
Snapshot(w) ==
  /\ At(w, "layout")
  /\ web' = [web EXCEPT
        ![w].snap = [main |-> main, globals |-> globals, shares |-> shares],
        ![w].pc   = IF main.layout = "malformed" THEN "restoreMain" ELSE "globals"]
  /\ UNCHANGED <<files, smbd, orderly, unsettled, asked>>

\* Mutant: the header of the shares file is not written.
HeaderForgotten(w) ==
  /\ At(w, "globals")
  /\ globals' = TRUE
  /\ Goto(w, "main")
  /\ UNCHANGED <<main, shares, smbd, orderly, unsettled, asked>>

WriteGlobals(w) ==
  /\ At(w, "globals")
  /\ globals' = TRUE
  /\ Goto(w, "header")
  /\ UNCHANGED <<main, shares, smbd, orderly, unsettled, asked>>

(* A shares file that is not there gets a header without shares. *)
FindHeader(w) ==
  /\ At(w, "header")
  /\ Goto(w, IF shares.exists THEN "main" ELSE "newHeader")
  /\ UNCHANGED <<files, smbd, orderly, unsettled, asked>>

WriteHeader(w) ==
  /\ At(w, "newHeader")
  /\ shares' = [exists |-> TRUE, blocks |-> {}]
  /\ unsettled' = (unsettled \/ shares.blocks # {})
  /\ Goto(w, "main")
  /\ UNCHANGED <<main, globals, smbd, orderly, asked>>

(* The candidate validates and replaces smb.conf: the lines that were read, *)
(* with the include lines in place.                                         *)
WriteMain(w) ==
  /\ At(w, "main")
  /\ main' = [web[w].snap.main EXCEPT !.layout = "wired"]
  /\ Goto(w, "load")
  /\ UNCHANGED <<globals, shares, smbd, orderly, unsettled, asked>>

(* A write fails, or the candidate does not validate. *)
LayoutFails(w) ==
  /\ web[w].pc \in {"globals", "newHeader", "main"}
  /\ Goto(w, "restoreMain")
  /\ UNCHANGED <<files, smbd, orderly, unsettled, asked>>

RestoreMain(w) ==
  /\ At(w, "restoreMain")
  /\ main' = web[w].snap.main
  /\ Goto(w, "restoreGlobals")
  /\ UNCHANGED <<globals, shares, smbd, orderly, unsettled, asked>>

RestoreGlobals(w) ==
  /\ At(w, "restoreGlobals")
  /\ globals' = web[w].snap.globals
  /\ Goto(w, "restoreShares")
  /\ UNCHANGED <<main, shares, smbd, orderly, unsettled, asked>>

RestoreShares(w) ==
  /\ At(w, "restoreShares")
  /\ shares' = web[w].snap.shares
  /\ unsettled' = (unsettled \/ shares' # shares)
  /\ Answer(w)
  /\ UNCHANGED <<main, globals, smbd, orderly, asked>>

(***************************************************************************)
(* create_managed_share, update_managed_share, delete_managed_share.       *)
(***************************************************************************)
Accepted(op) ==
  LET mine  == Named(shares.blocks, op.name)
      taken == Named(shares.blocks, op.share.name) # {} \/ op.share.name \in main.admin
  IN CASE op.kind = "create" -> ~taken
       [] op.kind = "delete" -> mine # {}
       [] OTHER              -> mine # {} /\ (op.share.name = op.name \/ ~taken)

\* Mutant: an update adds the new block and keeps the old one.
OldBlockKept(op) ==
  IF op.kind = "delete" THEN shares.blocks \ Named(shares.blocks, op.name)
  ELSE shares.blocks \cup {op.share}

NewBlocks(op) ==
  CASE op.kind = "create" -> shares.blocks \cup {op.share}
    [] op.kind = "delete" -> shares.blocks \ Named(shares.blocks, op.name)
    [] OTHER -> (shares.blocks \ Named(shares.blocks, op.name)) \cup {op.share}

(* The shares file is read; a name that is taken, by a managed share or by *)
(* one of the administrator, is refused, and so is every request when the  *)
(* configuration cannot be inspected.                                      *)
Load(w) ==
  /\ At(w, "load")
  /\ \/ /\ Accepted(web[w].op)
        /\ web' = [web EXCEPT ![w].pc = "commit", ![w].new = NewBlocks(web[w].op)]
     \/ Answer(w)
  /\ UNCHANGED <<files, smbd, orderly, unsettled, asked>>

(***************************************************************************)
(* _commit_sss_shares_file.                                                *)
(***************************************************************************)
ReadOriginal(w) ==
  /\ At(w, "commit")
  /\ web' = [web EXCEPT ![w].orig = shares, ![w].pc = "write"]
  /\ UNCHANGED <<files, smbd, orderly, unsettled, asked>>

Publish(w) ==
  /\ At(w, "write")
  /\ shares' = [exists |-> TRUE, blocks |-> web[w].new]
  /\ Goto(w, "validate")
  /\ UNCHANGED <<main, globals, smbd, orderly, unsettled, asked>>

Validate(w) ==
  /\ At(w, "validate")
  /\ Goto(w, "reload")
  /\ UNCHANGED <<files, smbd, orderly, unsettled, asked>>

(* The write fails, or the validator rejects the configuration. *)
PublishFails(w) ==
  /\ web[w].pc \in {"write", "validate"}
  /\ Goto(w, "rollback")
  /\ UNCHANGED <<files, smbd, orderly, unsettled, asked>>

(* _reload_or_restart_smbd: a reload if smbd runs, a restart otherwise or  *)
(* if the reload fails.  The restarts of nmbd and wsdd2 that follow are    *)
(* best effort.                                                            *)
Reloaded == [up |-> TRUE, loaded |-> shares.blocks]

NotReloaded == [smbd EXCEPT !.up = FALSE]

\* Mutant: the exit status of the restart is not looked at.
ReloadUnchecked(w) ==
  /\ At(w, "reload")
  /\ smbd' \in {Reloaded, NotReloaded}
  /\ unsettled' = FALSE
  /\ Answer(w)
  /\ UNCHANGED <<files, orderly, asked>>

Reload(w) ==
  /\ At(w, "reload")
  /\ \/ /\ smbd' = Reloaded
        /\ unsettled' = FALSE
        /\ Answer(w)
     \/ /\ smbd' = NotReloaded
        /\ Goto(w, "rollback")
        /\ UNCHANGED unsettled
  /\ UNCHANGED <<files, orderly, asked>>

(* The original content goes back; a shares file that did not exist is     *)
(* removed.  This write can fail like the first.                           *)
Rollback(w) ==
  /\ At(w, "rollback")
  /\ \/ shares' = web[w].orig /\ Goto(w, "restart") /\ UNCHANGED unsettled
     \/ shares' = shares /\ Answer(w) /\ unsettled' = TRUE
  /\ UNCHANGED <<main, globals, smbd, orderly, asked>>

(* _restart_required_smbd_after_rollback. *)
RestartAfterRollback(w) ==
  /\ At(w, "restart")
  /\ \/ smbd' = Reloaded /\ Answer(w) /\ unsettled' = FALSE
     \/ smbd' = NotReloaded /\ Answer(w) /\ unsettled' = TRUE
  /\ UNCHANGED <<files, orderly, asked>>

(* The Restart Services button. *)
RestartServices ==
  /\ orderly => AllIdle
  /\ \/ smbd' = Reloaded /\ unsettled' = FALSE
     \/ smbd' = NotReloaded /\ unsettled' = TRUE
  /\ UNCHANGED <<files, web, orderly, asked>>

(* The web service is restarted, or the machine: requests stop where they  *)
(* are, and the files stay.                                                *)
WebDies ==
  /\ ~AllIdle
  /\ web' = [w \in Workers |-> Idle]
  /\ unsettled' = TRUE
  /\ UNCHANGED <<files, smbd, orderly, asked>>

(* The administrator edits smb.conf, between requests: the shares of their *)
(* own, and the include lines, which they may remove or damage.            *)
EditMain ==
  /\ AllIdle
  /\ main' \in [layout : {main.layout, "plain", "malformed"}, admin : SUBSET AdminNames]
  /\ UNCHANGED <<globals, shares, smbd, web, orderly, unsettled, asked>>

(***************************************************************************)
(* The specification.  Samba is installed, without managed shares.         *)
(***************************************************************************)
Init ==
  /\ main \in [layout : {"plain"}, admin : SUBSET AdminNames]
  /\ globals = FALSE
  /\ shares = [exists |-> FALSE, blocks |-> {}]
  /\ smbd = [up |-> TRUE, loaded |-> {}]
  /\ web = [w \in Workers |-> Idle]
  /\ orderly \in BOOLEAN
  /\ unsettled = FALSE
  /\ asked = 0

Step(w) ==
  \/ \E op \in Op : Begin(w, op)
  \/ Lookup(w) \/ Snapshot(w) \/ WriteGlobals(w) \/ FindHeader(w)
  \/ WriteHeader(w) \/ WriteMain(w)
  \/ LayoutFails(w) \/ RestoreMain(w) \/ RestoreGlobals(w) \/ RestoreShares(w)
  \/ Load(w) \/ ReadOriginal(w) \/ Publish(w) \/ Validate(w) \/ PublishFails(w)
  \/ Reload(w) \/ Rollback(w) \/ RestartAfterRollback(w)

Next ==
  \/ \E w \in Workers : Step(w)
  \/ RestartServices \/ WebDies \/ EditMain

Spec == Init /\ [][Next]_vars

(***************************************************************************)
(* Properties.                                                             *)
(***************************************************************************)
Pcs == {"idle", "lookup", "layout", "globals", "header", "newHeader", "main", "restoreMain",
        "restoreGlobals", "restoreShares", "load", "commit", "write", "validate",
        "reload", "rollback", "restart"}

(* The type of every variable. *)
TypeOK ==
  /\ main \in MainFile /\ globals \in BOOLEAN /\ shares \in SharesFile
  /\ smbd \in [up : BOOLEAN, loaded : SUBSET Share]
  /\ \A w \in Workers : /\ web[w].pc \in Pcs
                        /\ web[w].new \in SUBSET Share
  /\ orderly \in BOOLEAN /\ unsettled \in BOOLEAN /\ asked \in 0..MaxRequests

(* smb.conf never includes a file that does not exist, wherever a request  *)
(* fails or the machine stops: ensure_layout writes the two files before   *)
(* smb.conf and, when it undoes its work, restores smb.conf first.  The    *)
(* promise is for requests that do not overlap.                            *)
IncludesExist ==
  orderly /\ main.layout = "wired" => globals /\ shares.exists

(* When no request is under way, smbd runs and serves what the shares file *)
(* says: whatever request wrote last has loaded the file since.  Requests  *)
(* may overlap.  The exceptions are those the code reports: a crash, a     *)
(* rollback that failed, and an ensure_layout that overwrote the shares of *)
(* another request with those it had seen.                                 *)
Served ==
  AllIdle /\ ~unsettled => smbd.up /\ smbd.loaded = shares.blocks

(* A request that overlaps with no other either takes effect as a whole or *)
(* leaves every share as it was, at whatever step it fails or the machine  *)
(* stops: the published shares implement ShareStore.                       *)
Published ==
  IF \E w \in Workers : web[w].pc \in {"validate", "reload", "rollback"}
  THEN web[CHOOSE w \in Workers : web[w].pc \in {"validate", "reload", "rollback"}].orig.blocks
  ELSE shares.blocks

Store == INSTANCE ShareStore WITH store <- Published

AtomicShares == [][orderly => Store!Next]_Published
=============================================================================
