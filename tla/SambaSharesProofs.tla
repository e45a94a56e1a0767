-------------------------- MODULE SambaSharesProofs --------------------------
(***************************************************************************)
(* Proofs about SambaShares: for any number of workers, shares and         *)
(* requests, smb.conf includes only files that exist, smbd serves what is  *)
(* published, and the published shares implement ShareStore.               *)
(***************************************************************************)
EXTENDS SambaShares, TLAPS

-----------------------------------------------------------------------------
(* The invariant                                                           *)

Snapshots == [main : MainFile, globals : BOOLEAN, shares : SharesFile]

WebWork == [pc : Pcs, op : Op \cup {None}, snap : Snapshots \cup {None},
         new : SUBSET Share, orig : SharesFile \cup {None}]

InLayout == {"globals", "header", "newHeader", "main", "restoreMain", "restoreGlobals",
             "restoreShares"}
Committing == {"write", "validate", "reload", "rollback"}
Unsure     == {"validate", "reload", "rollback"}

\* What a worker has at hand fits the place where it is.
TypeInv ==
  /\ TypeOK
  /\ web \in [Workers -> WebWork]
  /\ \A w \in Workers :
       /\ web[w].pc # "idle" => web[w].op \in Op
       /\ web[w].pc = "lookup" => web[w].op.kind = "users"
       /\ web[w].pc \in InLayout => web[w].snap \in Snapshots
       /\ web[w].pc \in Committing => web[w].orig \in SharesFile

\* While smbd may not have loaded the shares file, some worker is about to see to
\* it, or the failure was reported.
ServedInv ==
  \/ unsettled
  \/ smbd.up /\ smbd.loaded = shares.blocks
  \/ \E w \in Workers : web[w].pc \in Unsure \cup {"restart"}

\* One of the three steps of ShareStore leads from one set of shares to the other.
StepTo(old, new) ==
  \/ \E s \in Share : Named(old, s.name) = {} /\ new = old \cup {s}
  \/ \E n \in Names, s \in Share :
       /\ Named(old, n) # {} /\ (s.name = n \/ Named(old, s.name) = {})
       /\ new = (old \ Named(old, n)) \cup {s}
  \/ \E n \in Names : Named(old, n) # {} /\ new = old \ Named(old, n)

\* The snapshot of ensure_layout is of a sound configuration, and restoring its
\* parts, smb.conf first, keeps it sound at every step and leaves the shares alone.
SnapshotInv(w) ==
  LET snap == web[w].snap
  IN  web[w].pc \in InLayout =>
        /\ snap.main.layout = "wired" => snap.globals /\ snap.shares.exists
        /\ ~snap.shares.exists => snap.shares.blocks = {}
        /\ shares.blocks = snap.shares.blocks
        /\ web[w].pc # "restoreShares" => (snap.globals => globals)
        /\ snap.shares.exists => shares.exists
        /\ web[w].pc = "restoreShares" => globals = snap.globals
        /\ web[w].pc \in {"restoreGlobals", "restoreShares"} => main = snap.main
        /\ web[w].pc \in {"header", "newHeader", "main"} => globals
        /\ web[w].pc = "newHeader" => ~shares.exists
        /\ web[w].pc = "main" => shares.exists

\* The shares about to be published, or just published, are one step of
\* ShareStore away from those that are put back on failure.
CommitInv(w) ==
  LET r == web[w]
  IN  /\ r.pc \in {"load", "commit"} => shares.exists
      /\ r.pc = "commit" => StepTo(shares.blocks, r.new)
      /\ r.pc \in Committing => r.orig.exists /\ StepTo(r.orig.blocks, r.new)
      /\ r.pc = "write" => shares = r.orig
      /\ r.pc \in {"validate", "reload"} => shares.exists /\ shares.blocks = r.new
      /\ r.pc = "rollback" => shares.exists /\ shares.blocks \in {r.new, r.orig.blocks}

OrderlyInv ==
  /\ \A v, w \in Workers : Busy(v) /\ Busy(w) => v = w
  /\ main.layout = "wired" => globals /\ shares.exists
  /\ ~shares.exists => shares.blocks = {}
  /\ \A w \in Workers : SnapshotInv(w) /\ CommitInv(w)

IInv == TypeInv /\ ServedInv /\ (orderly => OrderlyInv)

-----------------------------------------------------------------------------
(* Types                                                                   *)

LEMMA OpTypes ==
  ASSUME NEW op \in Op
  PROVE  /\ op.name \in Names
         /\ op.kind \in {"create", "update", "users", "delete"}
         /\ op.kind # "delete" => op.share \in Share
         /\ op.kind \in {"create", "users"} => op.name = op.share.name
BY DEF Op, Share

LEMMA WrittenTypes ==
  ASSUME NEW blocks \in SUBSET Share
  PROVE  [exists |-> TRUE, blocks |-> blocks] \in SharesFile
BY DEF SharesFile

\* A step that only sends a worker on changes nothing else of any request.
LEMMA GotoKeeps ==
  ASSUME TypeInv, NEW w \in Workers, NEW pc \in Pcs, Goto(w, pc)
  PROVE  /\ web' \in [Workers -> WebWork]
         /\ web'[w] = [web[w] EXCEPT !.pc = pc]
         /\ web'[w].pc = pc /\ web'[w].op = web[w].op /\ web'[w].snap = web[w].snap
         /\ web'[w].new = web[w].new /\ web'[w].orig = web[w].orig
         /\ \A v \in Workers \ {w} : web'[v] = web[v]
<1>1. web[w] \in WebWork /\ web \in [Workers -> WebWork]
  BY DEF TypeInv
<1>2. web' = [web EXCEPT ![w] = [web[w] EXCEPT !.pc = pc]]
  BY <1>1 DEF Goto
<1>3. [web[w] EXCEPT !.pc = pc] \in WebWork
  BY <1>1 DEF WebWork
<1>4. QED
  BY <1>1, <1>2, <1>3 DEF WebWork

LEMMA AnswerKeeps ==
  ASSUME TypeInv, NEW w \in Workers, Answer(w)
  PROVE  /\ web' \in [Workers -> WebWork]
         /\ web'[w].pc = "idle"
         /\ \A v \in Workers \ {w} : web'[v] = web[v]
<1>1. web \in [Workers -> WebWork]
  BY DEF TypeInv
<1>2. Idle \in WebWork /\ Idle.pc = "idle"
  BY DEF Idle, WebWork, Pcs
<1>3. QED
  BY <1>1, <1>2 DEF Answer

\* The part of TypeInv about one worker.
WorkerType(w) ==
  /\ web[w].pc # "idle" => web[w].op \in Op
  /\ web[w].pc = "lookup" => web[w].op.kind = "users"
  /\ web[w].pc \in InLayout => web[w].snap \in Snapshots
  /\ web[w].pc \in Committing => web[w].orig \in SharesFile

\* It is enough to look at the worker that moved, and at the other variables.
LEMMA TypesOf ==
  ASSUME TypeInv, NEW w \in Workers,
         web' \in [Workers -> WebWork], \A v \in Workers \ {w} : web'[v] = web[v],
         WorkerType(w)',
         main' \in MainFile, globals' \in BOOLEAN, shares' \in SharesFile,
         smbd' \in [up : BOOLEAN, loaded : SUBSET Share],
         orderly' \in BOOLEAN, unsettled' \in BOOLEAN, asked' \in 0..MaxRequests
  PROVE  TypeInv'
<1>1. \A v \in Workers : web'[v].pc \in Pcs /\ web'[v].new \in SUBSET Share
  BY DEF WebWork
<1>2. TypeOK'
  BY <1>1 DEF TypeOK
<1>3. \A v \in Workers : WorkerType(v)'
  BY DEF TypeInv, WorkerType
<1>4. QED
  BY <1>2, <1>3 DEF TypeInv, WorkerType

LEMMA BeginTypes == ASSUME TypeInv, NEW w \in Workers, NEW op \in Op, Begin(w, op)
                    PROVE  TypeInv'
<1> DEFINE r == [Idle EXCEPT !.pc = IF op.kind = "users" THEN "lookup" ELSE "layout", !.op = op]
<1>1. r \in WebWork /\ r.op = op /\ r.pc \in {"lookup", "layout"}
      /\ (r.pc = "lookup" => op.kind = "users")
  BY DEF Idle, WebWork, Pcs
<1>2. web' = [web EXCEPT ![w] = r] /\ web \in [Workers -> WebWork]
  BY DEF Begin, TypeInv
<1> HIDE DEF r
<1>3. web' \in [Workers -> WebWork] /\ web'[w] = r /\ \A v \in Workers \ {w} : web'[v] = web[v]
  BY <1>1, <1>2
<1>4. WorkerType(w)'
  BY <1>1, <1>3 DEF WorkerType, InLayout, Committing
<1>5. asked' \in 0..MaxRequests
  BY ShareAssumption DEF Begin, TypeInv, TypeOK
<1>6. /\ main' \in MainFile /\ globals' \in BOOLEAN /\ shares' \in SharesFile
      /\ smbd' \in [up : BOOLEAN, loaded : SUBSET Share]
      /\ orderly' \in BOOLEAN /\ unsettled' \in BOOLEAN
  BY DEF Begin, files, TypeInv, TypeOK
<1>7. QED
  BY <1>3, <1>4, <1>5, <1>6, TypesOf

LEMMA LookupTypes == ASSUME TypeInv, NEW w \in Workers, Lookup(w) PROVE TypeInv'
<1>1. CASE Answer(w)
  <2>1. WorkerType(w)'
    BY <1>1, AnswerKeeps DEF WorkerType, InLayout, Committing
  <2>2. QED
    BY <1>1, <2>1, AnswerKeeps, TypesOf DEF Lookup, files, TypeInv, TypeOK
<1>2. CASE ~Answer(w)
  <2>1. PICK s \in Named(shares.blocks, web[w].op.name) :
          web' = [web EXCEPT ![w].pc = "layout",
                             ![w].op.share = [s EXCEPT !.users = web[w].op.share.users]]
    BY <1>2 DEF Lookup
  <2>2. web[w].op \in Op /\ web[w].op.kind = "users" /\ web[w] \in WebWork
    BY DEF Lookup, At, TypeInv
  <2>3. s \in Share /\ s.name = web[w].op.name
    BY DEF TypeInv, TypeOK, SharesFile, Named
  <2> DEFINE t == [s EXCEPT !.users = web[w].op.share.users]
             o == [web[w].op EXCEPT !.share = t]
             r == [web[w] EXCEPT !.pc = "layout", !.op = o]
  <2>4. t \in Share /\ t.name = s.name
    BY <2>2, <2>3, OpTypes DEF Share
  <2>5. o \in Op
    <3>1. PICK s0 \in Share : web[w].op = [kind |-> "users", name |-> s0.name, share |-> s0]
      BY <2>2 DEF Op
    <3>2. o = [kind |-> "users", name |-> t.name, share |-> t]
      BY <3>1, <2>3, <2>4
    <3>3. QED
      BY <3>2, <2>4 DEF Op
  <2>6. r \in WebWork /\ r.pc = "layout" /\ r.op = o
    BY <2>2, <2>5 DEF WebWork, Pcs
  <2>7. web' = [web EXCEPT ![w] = r] /\ web \in [Workers -> WebWork]
    BY <2>1 DEF TypeInv
  <2> HIDE DEF r, o, t
  <2>8. WorkerType(w)'
    BY <2>5, <2>6, <2>7 DEF WorkerType, InLayout, Committing
  <2>9. QED
    BY <2>6, <2>7, <2>8, TypesOf DEF Lookup, files, TypeInv, TypeOK
<1>3. QED
  BY <1>1, <1>2

LEMMA SnapshotTypes == ASSUME TypeInv, NEW w \in Workers, Snapshot(w) PROVE TypeInv'
<1> DEFINE snap == [main |-> main, globals |-> globals, shares |-> shares]
           r == [web[w] EXCEPT !.snap = snap,
                   !.pc = IF main.layout = "malformed" THEN "restoreMain" ELSE "globals"]
<1>1. web[w].op \in Op /\ web[w] \in WebWork /\ web \in [Workers -> WebWork]
  BY DEF Snapshot, At, TypeInv
<1>2. snap \in Snapshots
  BY DEF TypeInv, TypeOK, Snapshots
<1> HIDE DEF snap
<1>3. r \in WebWork /\ r.op = web[w].op /\ r.snap = snap /\ r.pc \in {"restoreMain", "globals"}
  BY <1>1, <1>2 DEF WebWork, Pcs
<1>4. web' = [web EXCEPT ![w] = r]
  BY <1>1 DEF Snapshot, snap
<1> HIDE DEF r
<1>5. WorkerType(w)'
  BY <1>1, <1>2, <1>3, <1>4 DEF WorkerType, InLayout, Committing
<1>6. web' \in [Workers -> WebWork] /\ \A v \in Workers \ {w} : web'[v] = web[v]
  BY <1>1, <1>3, <1>4
<1>7. QED
  BY <1>5, <1>6, TypesOf DEF Snapshot, files, TypeInv, TypeOK

\* The steps that send the worker on from one place to another of the same
\* kind, or to one that needs nothing at hand.
LEMMA GotoTypes ==
  ASSUME TypeInv, NEW w \in Workers, NEW pc \in Pcs, Goto(w, pc),
         web[w].pc # "idle",
         pc # "lookup",
         pc \in InLayout => web[w].pc \in InLayout,
         pc \in Committing => web[w].pc \in Committing
  PROVE  WorkerType(w)'
BY GotoKeeps DEF WorkerType, TypeInv

LEMMA LayoutTypes ==
  ASSUME TypeInv, NEW w \in Workers,
         WriteGlobals(w) \/ FindHeader(w) \/ WriteHeader(w) \/ WriteMain(w) \/ LayoutFails(w)
           \/ RestoreMain(w) \/ RestoreGlobals(w) \/ RestoreShares(w)
  PROVE  TypeInv'
<1>1. web[w].pc \in InLayout /\ web[w].snap \in Snapshots
  BY DEF WriteGlobals, FindHeader, WriteHeader, WriteMain, LayoutFails, RestoreMain,
         RestoreGlobals, RestoreShares, At, InLayout, TypeInv
<1>2. web[w].snap.main \in MainFile /\ web[w].snap.globals \in BOOLEAN
      /\ web[w].snap.shares \in SharesFile
  BY <1>1 DEF Snapshots
<1>3. main' \in MainFile
  <2>1. main' = main \/ main' = web[w].snap.main \/ main' = [web[w].snap.main EXCEPT !.layout = "wired"]
    BY DEF WriteGlobals, FindHeader, WriteHeader, WriteMain, LayoutFails, RestoreMain,
           RestoreGlobals, RestoreShares, files
  <2>2. QED
    BY <1>2, <2>1 DEF TypeInv, TypeOK, MainFile
<1>4. globals' \in BOOLEAN
  BY <1>2 DEF WriteGlobals, FindHeader, WriteHeader, WriteMain, LayoutFails, RestoreMain,
              RestoreGlobals, RestoreShares, files, TypeInv, TypeOK
<1>5. shares' \in SharesFile
  <2>1. shares' = shares \/ shares' = web[w].snap.shares \/ shares' = [exists |-> TRUE, blocks |-> {}]
    BY DEF WriteGlobals, FindHeader, WriteHeader, WriteMain, LayoutFails, RestoreMain,
           RestoreGlobals, RestoreShares, files
  <2>2. [exists |-> TRUE, blocks |-> {}] \in SharesFile /\ shares \in SharesFile
    BY WrittenTypes DEF TypeInv, TypeOK
  <2>3. QED
    BY <1>2, <2>1, <2>2
<1>6. unsettled' \in BOOLEAN
  BY DEF WriteGlobals, FindHeader, WriteHeader, WriteMain, LayoutFails, RestoreMain,
         RestoreGlobals, RestoreShares, files, TypeInv, TypeOK
<1>7. smbd' = smbd /\ orderly' = orderly /\ asked' = asked
  BY DEF WriteGlobals, FindHeader, WriteHeader, WriteMain, LayoutFails, RestoreMain,
         RestoreGlobals, RestoreShares, files
<1>8. Answer(w) \/ (\E pc \in InLayout \cup {"load"} : Goto(w, pc))
  BY DEF WriteGlobals, FindHeader, WriteHeader, WriteMain, LayoutFails, RestoreMain,
         RestoreGlobals, RestoreShares, InLayout
<1>9. /\ web' \in [Workers -> WebWork] /\ \A v \in Workers \ {w} : web'[v] = web[v]
      /\ WorkerType(w)'
  <2>1. CASE Answer(w)
    BY <2>1, AnswerKeeps DEF WorkerType, InLayout, Committing
  <2>2. ASSUME NEW pc \in InLayout \cup {"load"}, Goto(w, pc)
        PROVE  /\ web' \in [Workers -> WebWork] /\ \A v \in Workers \ {w} : web'[v] = web[v]
               /\ WorkerType(w)'
    <3>1. pc \in Pcs /\ pc # "lookup" /\ pc \notin Committing /\ web[w].pc # "idle"
      BY <1>1 DEF InLayout, Pcs, Committing
    <3>2. QED
      BY <1>1, <2>2, <3>1, GotoKeeps, GotoTypes
  <2>3. QED
    BY <1>8, <2>1, <2>2
<1>10. QED
  BY <1>3, <1>4, <1>5, <1>6, <1>7, <1>9, TypesOf DEF TypeInv, TypeOK

LEMMA LoadTypes == ASSUME TypeInv, NEW w \in Workers, Load(w) PROVE TypeInv'
<1>1. web[w].op \in Op /\ web[w] \in WebWork /\ web \in [Workers -> WebWork]
  BY DEF Load, At, TypeInv
<1>2. NewBlocks(web[w].op) \in SUBSET Share
  <2>1. shares.blocks \in SUBSET Share
    BY DEF TypeInv, TypeOK, SharesFile
  <2>2. QED
    BY <1>1, <2>1, OpTypes DEF NewBlocks
<1>3. CASE Answer(w)
  <2>1. WorkerType(w)'
    BY <1>3, AnswerKeeps DEF WorkerType, InLayout, Committing
  <2>2. QED
    BY <1>3, <2>1, AnswerKeeps, TypesOf DEF Load, files, TypeInv, TypeOK
<1>4. CASE ~Answer(w)
  <2> DEFINE r == [web[w] EXCEPT !.pc = "commit", !.new = NewBlocks(web[w].op)]
  <2>1. web' = [web EXCEPT ![w] = r]
    BY <1>1, <1>4 DEF Load
  <2>2. r \in WebWork /\ r.pc = "commit" /\ r.op = web[w].op
    BY <1>1, <1>2 DEF WebWork, Pcs
  <2> HIDE DEF r
  <2>3. WorkerType(w)' /\ web' \in [Workers -> WebWork] /\ \A v \in Workers \ {w} : web'[v] = web[v]
    BY <1>1, <2>1, <2>2 DEF WorkerType, InLayout, Committing
  <2>4. QED
    BY <2>3, TypesOf DEF Load, files, TypeInv, TypeOK
<1>5. QED
  BY <1>3, <1>4

LEMMA ReadOriginalTypes == ASSUME TypeInv, NEW w \in Workers, ReadOriginal(w) PROVE TypeInv'
<1> DEFINE r == [web[w] EXCEPT !.orig = shares, !.pc = "write"]
<1>1. web[w].op \in Op /\ web[w] \in WebWork /\ web \in [Workers -> WebWork] /\ shares \in SharesFile
  BY DEF ReadOriginal, At, TypeInv, TypeOK
<1>2. r \in WebWork /\ r.pc = "write" /\ r.op = web[w].op /\ r.orig \in SharesFile
  BY <1>1 DEF WebWork, Pcs
<1>3. web' = [web EXCEPT ![w] = r]
  BY <1>1 DEF ReadOriginal
<1> HIDE DEF r
<1>4. WorkerType(w)' /\ web' \in [Workers -> WebWork] /\ \A v \in Workers \ {w} : web'[v] = web[v]
  BY <1>1, <1>2, <1>3 DEF WorkerType, InLayout, Committing
<1>5. QED
  BY <1>4, TypesOf DEF ReadOriginal, files, TypeInv, TypeOK

LEMMA CommitTypes ==
  ASSUME TypeInv, NEW w \in Workers,
         Publish(w) \/ Validate(w) \/ PublishFails(w) \/ Reload(w) \/ Rollback(w)
           \/ RestartAfterRollback(w)
  PROVE  TypeInv'
<1>1. web[w].pc \in Committing \cup {"restart"} /\ web[w].pc # "idle"
  BY DEF Publish, Validate, PublishFails, Reload, Rollback, RestartAfterRollback, At, Committing
<1>2. web[w] \in WebWork /\ web[w].new \in SUBSET Share
      /\ (web[w].pc \in Committing => web[w].orig \in SharesFile)
  BY DEF TypeInv, WebWork
<1>3. shares' \in SharesFile
  <2>1. \/ shares' = shares
        \/ shares' = [exists |-> TRUE, blocks |-> web[w].new]
        \/ shares' = web[w].orig /\ web[w].pc = "rollback"
    BY DEF Publish, Validate, PublishFails, Reload, Rollback, RestartAfterRollback, At, files
  <2>2. [exists |-> TRUE, blocks |-> web[w].new] \in SharesFile /\ shares \in SharesFile
    BY <1>2, WrittenTypes DEF TypeInv, TypeOK
  <2>3. QED
    BY <1>2, <2>1, <2>2 DEF Committing
<1>4. smbd' \in [up : BOOLEAN, loaded : SUBSET Share]
  <2>1. smbd' = smbd \/ smbd' = Reloaded \/ smbd' = NotReloaded
    BY DEF Publish, Validate, PublishFails, Reload, Rollback, RestartAfterRollback
  <2>2. smbd \in [up : BOOLEAN, loaded : SUBSET Share] /\ shares \in SharesFile
    BY DEF TypeInv, TypeOK
  <2>3. Reloaded \in [up : BOOLEAN, loaded : SUBSET Share]
    BY <2>2 DEF Reloaded, SharesFile
  <2>4. NotReloaded \in [up : BOOLEAN, loaded : SUBSET Share]
    BY <2>2 DEF NotReloaded
  <2>5. QED
    BY <2>1, <2>2, <2>3, <2>4
<1>5. unsettled' \in BOOLEAN
  BY DEF Publish, Validate, PublishFails, Reload, Rollback, RestartAfterRollback, TypeInv, TypeOK
<1>6. main' = main /\ globals' = globals /\ orderly' = orderly /\ asked' = asked
  BY DEF Publish, Validate, PublishFails, Reload, Rollback, RestartAfterRollback, files
<1>7. \/ Answer(w)
      \/ \E pc \in {"validate", "reload", "rollback"} : Goto(w, pc) /\ web[w].pc \in Committing
      \/ Goto(w, "restart")
  BY DEF Publish, Validate, PublishFails, Reload, Rollback, RestartAfterRollback, At, Committing
<1>8. /\ web' \in [Workers -> WebWork] /\ \A v \in Workers \ {w} : web'[v] = web[v]
      /\ WorkerType(w)'
  <2>1. CASE Answer(w)
    BY <2>1, AnswerKeeps DEF WorkerType, InLayout, Committing
  <2>2. ASSUME NEW pc \in {"validate", "reload", "rollback", "restart"}, Goto(w, pc),
               pc # "restart" => web[w].pc \in Committing
        PROVE  /\ web' \in [Workers -> WebWork] /\ \A v \in Workers \ {w} : web'[v] = web[v]
               /\ WorkerType(w)'
    <3>1. pc \in Pcs /\ pc # "lookup" /\ pc \notin InLayout
          /\ (pc \in Committing => web[w].pc \in Committing)
      BY <2>2 DEF InLayout, Pcs, Committing
    <3>2. QED
      BY <1>1, <2>2, <3>1, GotoKeeps, GotoTypes
  <2>3. QED
    BY <1>7, <2>1, <2>2
<1>9. QED
  BY <1>3, <1>4, <1>5, <1>6, <1>8, TypesOf DEF TypeInv, TypeOK

LEMMA OthersTypes == ASSUME TypeInv, RestartServices \/ WebDies \/ EditMain PROVE TypeInv'
<1>1. CASE RestartServices
  <2>1. smbd \in [up : BOOLEAN, loaded : SUBSET Share] /\ shares \in SharesFile
    BY DEF TypeInv, TypeOK
  <2>2. smbd' \in [up : BOOLEAN, loaded : SUBSET Share]
    <3>1. Reloaded \in [up : BOOLEAN, loaded : SUBSET Share]
      BY <2>1 DEF Reloaded, SharesFile
    <3>2. NotReloaded \in [up : BOOLEAN, loaded : SUBSET Share]
      BY <2>1 DEF NotReloaded
    <3>3. QED
      BY <1>1, <3>1, <3>2 DEF RestartServices
  <2>3. unsettled' \in BOOLEAN
    BY <1>1 DEF RestartServices
  <2>4. QED
    BY <1>1, <2>2, <2>3 DEF RestartServices, files, TypeInv, TypeOK
<1>2. CASE WebDies
  <2>1. Idle \in WebWork /\ Idle.pc = "idle"
    BY DEF Idle, WebWork, Pcs
  <2>2. web' \in [Workers -> WebWork] /\ \A w \in Workers : web'[w].pc = "idle"
    BY <1>2, <2>1 DEF WebDies
  <2>3. \A w \in Workers : web'[w].pc \in Pcs /\ web'[w].new \in SUBSET Share
    BY <2>2 DEF WebWork
  <2>4. TypeOK'
    BY <1>2, <2>3 DEF WebDies, files, TypeInv, TypeOK
  <2>5. QED
    BY <2>2, <2>4 DEF TypeInv, InLayout, Committing
<1>3. CASE EditMain
  <2>1. main' \in MainFile
    <3>1. main.layout \in {"plain", "wired", "malformed"}
      BY DEF TypeInv, TypeOK, MainFile
    <3>2. QED
      BY <1>3, <3>1 DEF EditMain, MainFile
  <2>2. QED
    BY <1>3, <2>1 DEF EditMain, TypeInv, TypeOK
<1>4. QED
  BY <1>1, <1>2, <1>3

LEMMA StepTypes == ASSUME TypeInv, [Next]_vars PROVE TypeInv'
<1>1. ASSUME NEW w \in Workers, Step(w) PROVE TypeInv'
  BY <1>1, BeginTypes, LookupTypes, SnapshotTypes, LayoutTypes, LoadTypes, ReadOriginalTypes,
     CommitTypes DEF Step
<1>2. CASE UNCHANGED vars
  BY <1>2 DEF vars, files, TypeInv, TypeOK
<1>3. QED
  BY <1>1, <1>2, OthersTypes DEF Next

LEMMA InitTypes == ASSUME Init PROVE TypeInv
<1>1. Idle \in WebWork /\ Idle.pc = "idle" /\ Idle.new = {}
  BY DEF Idle, WebWork, Pcs
<1>2. web \in [Workers -> WebWork] /\ \A w \in Workers : web[w].pc = "idle" /\ web[w].new = {}
  BY <1>1 DEF Init
<1>3. main \in MainFile
  BY DEF Init, MainFile
<1>4. shares \in SharesFile /\ smbd \in [up : BOOLEAN, loaded : SUBSET Share]
  BY DEF Init, SharesFile
<1>5. TypeOK
  <2>1. \A w \in Workers : web[w].pc \in Pcs /\ web[w].new \in SUBSET Share
    BY <1>2 DEF Pcs
  <2>2. globals \in BOOLEAN /\ unsettled \in BOOLEAN
    <3>1. globals = FALSE /\ unsettled = FALSE
      BY DEF Init
    <3>2. QED
      BY <3>1
  <2>5. asked \in 0..MaxRequests
    BY ShareAssumption DEF Init
  <2>3. orderly \in BOOLEAN
    BY DEF Init
  <2>4. QED
    BY <1>3, <1>4, <2>1, <2>2, <2>3, <2>5 DEF TypeOK
<1>6. QED
  BY <1>2, <1>5 DEF TypeInv, InLayout, Committing

-----------------------------------------------------------------------------
(* What smbd serves                                                        *)

\* A worker that stays where it can still settle things keeps ServedInv.
LEMMA StillUnsure ==
  ASSUME TypeInv, NEW w \in Workers, NEW pc \in Unsure \cup {"restart"}, Goto(w, pc)
  PROVE  ServedInv'
<1>1. pc \in Pcs
  BY DEF Unsure, Pcs
<1>2. web'[w].pc = pc
  BY <1>1, GotoKeeps
<1>3. QED
  BY <1>2 DEF ServedInv

\* Nor does a step disturb it that changes neither what is served nor the shares
\* and is taken by a worker that had nothing to settle.
LEMMA NotConcerned ==
  ASSUME ServedInv, NEW w \in Workers, web[w].pc \notin Unsure \cup {"restart"},
         \A v \in Workers \ {w} : web'[v] = web[v],
         smbd' = smbd, shares'.blocks = shares.blocks, unsettled' = unsettled
  PROVE  ServedInv'
<1>1. CASE unsettled
  BY <1>1 DEF ServedInv
<1>2. CASE smbd.up /\ smbd.loaded = shares.blocks
  BY <1>2 DEF ServedInv
<1>3. CASE \E v \in Workers : web[v].pc \in Unsure \cup {"restart"}
  <2>1. PICK v \in Workers : web[v].pc \in Unsure \cup {"restart"}
    BY <1>3
  <2>2. v # w /\ web'[v] = web[v]
    BY <2>1
  <2>3. QED
    BY <2>1, <2>2 DEF ServedInv
<1>4. QED
  BY <1>1, <1>2, <1>3 DEF ServedInv

LEMMA StepServed == ASSUME TypeInv, TypeInv', ServedInv, [Next]_vars PROVE ServedInv'
<1>1. ASSUME NEW w \in Workers, NEW op \in Op, Begin(w, op) PROVE ServedInv'
  <2>1. web[w].pc \notin Unsure \cup {"restart"} /\ \A v \in Workers \ {w} : web'[v] = web[v]
    BY <1>1 DEF Begin, Busy, Unsure, TypeInv
  <2>2. QED
    BY <1>1, <2>1, NotConcerned DEF Begin, files
<1>2. ASSUME NEW w \in Workers, Lookup(w) \/ Snapshot(w) \/ Load(w) \/ ReadOriginal(w)
      PROVE ServedInv'
  <2>1. web[w].pc \notin Unsure \cup {"restart"}
    BY <1>2 DEF Lookup, Snapshot, Load, ReadOriginal, At, Unsure
  <2>2. \A v \in Workers \ {w} : web'[v] = web[v]
    BY <1>2, AnswerKeeps DEF Lookup, Snapshot, Load, ReadOriginal, TypeInv
  <2>3. QED
    BY <1>2, <2>1, <2>2, NotConcerned DEF Lookup, Snapshot, Load, ReadOriginal, files
<1>3. ASSUME NEW w \in Workers,
             WriteGlobals(w) \/ FindHeader(w) \/ WriteHeader(w) \/ WriteMain(w)
               \/ LayoutFails(w) \/ RestoreMain(w) \/ RestoreGlobals(w) \/ RestoreShares(w)
      PROVE ServedInv'
  <2>1. web[w].pc \in InLayout /\ web[w].pc \notin Unsure \cup {"restart"} /\ smbd' = smbd
    BY <1>3 DEF WriteGlobals, FindHeader, WriteHeader, WriteMain, LayoutFails, RestoreMain,
                RestoreGlobals, RestoreShares, At, InLayout, Unsure, files
  <2>2. Answer(w) \/ (\E pc \in Pcs : Goto(w, pc))
    BY <1>3 DEF WriteGlobals, FindHeader, WriteHeader, WriteMain, LayoutFails, RestoreMain,
                RestoreGlobals, RestoreShares, Pcs
  <2>3. \A v \in Workers \ {w} : web'[v] = web[v]
    BY <2>2, AnswerKeeps, GotoKeeps
  <2>4. unsettled' \/ (unsettled' = unsettled /\ shares'.blocks = shares.blocks)
    <3>1. CASE WriteHeader(w)
      BY <3>1 DEF WriteHeader, TypeInv, TypeOK
    <3>2. CASE RestoreShares(w)
      BY <3>2 DEF RestoreShares, TypeInv, TypeOK
    <3>3. CASE ~WriteHeader(w) /\ ~RestoreShares(w)
      BY <1>3, <3>3 DEF WriteGlobals, FindHeader, WriteMain, LayoutFails, RestoreMain,
                        RestoreGlobals, files
    <3>4. QED
      BY <3>1, <3>2, <3>3
  <2>5. CASE unsettled'
    BY <2>5 DEF ServedInv
  <2>6. CASE unsettled' = unsettled /\ shares'.blocks = shares.blocks
    BY <2>1, <2>3, <2>6, NotConcerned
  <2>7. QED
    BY <2>4, <2>5, <2>6
<1>4. ASSUME NEW w \in Workers, Publish(w) \/ Validate(w) \/ PublishFails(w) PROVE ServedInv'
  <2>1. \E pc \in Unsure \cup {"restart"} : Goto(w, pc)
    BY <1>4 DEF Publish, Validate, PublishFails, Unsure
  <2>2. QED
    BY <2>1, StillUnsure
<1>5. ASSUME NEW w \in Workers, Reload(w) PROVE ServedInv'
  <2>1. CASE smbd' = Reloaded
    BY <1>5, <2>1 DEF Reload, Reloaded, files, ServedInv
  <2>2. CASE Goto(w, "rollback")
    BY <2>2, StillUnsure DEF Unsure
  <2>3. QED
    BY <1>5, <2>1, <2>2 DEF Reload
<1>6. ASSUME NEW w \in Workers, Rollback(w) PROVE ServedInv'
  <2>1. CASE Goto(w, "restart")
    BY <2>1, StillUnsure DEF Unsure
  <2>2. CASE unsettled'
    BY <2>2 DEF ServedInv
  <2>3. QED
    BY <1>6, <2>1, <2>2 DEF Rollback
<1>7. ASSUME NEW w \in Workers, RestartAfterRollback(w) PROVE ServedInv'
  <2>1. CASE smbd' = Reloaded
    BY <1>7, <2>1 DEF RestartAfterRollback, Reloaded, files, ServedInv
  <2>2. CASE unsettled'
    BY <2>2 DEF ServedInv
  <2>3. QED
    BY <1>7, <2>1, <2>2 DEF RestartAfterRollback
<1>8. CASE RestartServices
  <2>1. CASE smbd' = Reloaded
    BY <1>8, <2>1 DEF RestartServices, Reloaded, files, ServedInv
  <2>2. CASE unsettled'
    BY <2>2 DEF ServedInv
  <2>3. QED
    BY <1>8, <2>1, <2>2 DEF RestartServices
<1>9. CASE WebDies
  BY <1>9 DEF WebDies, ServedInv
<1>10. CASE EditMain \/ UNCHANGED vars
  <2>1. smbd' = smbd /\ shares' = shares /\ unsettled' = unsettled /\ web' = web
    BY <1>10 DEF EditMain, vars, files
  <2>2. QED
    BY <2>1 DEF ServedInv
<1>11. QED
  BY <1>1, <1>2, <1>3, <1>4, <1>5, <1>6, <1>7, <1>8, <1>9, <1>10 DEF Next, Step

-----------------------------------------------------------------------------
(* Requests that do not overlap                                            *)

\* An idle worker holds nothing up.
LEMMA IdleHolds ==
  ASSUME NEW v \in Workers, web'[v].pc = "idle"
  PROVE  SnapshotInv(v)' /\ CommitInv(v)'
BY DEF SnapshotInv, CommitInv, InLayout, Committing

\* Only the worker that moved has to be looked at, for the others are idle.
LEMMA OrderlyOf ==
  ASSUME OrderlyInv, NEW w \in Workers, Busy(w) \/ AllIdle,
         \A v \in Workers \ {w} : web'[v] = web[v],
         main'.layout = "wired" => globals' /\ shares'.exists,
         ~shares'.exists => shares'.blocks = {},
         SnapshotInv(w)', CommitInv(w)'
  PROVE  OrderlyInv'
<1>1. \A v \in Workers \ {w} : web'[v].pc = "idle"
  BY DEF OrderlyInv, Busy, AllIdle
<1>2. \A u, v \in Workers : Busy(u)' /\ Busy(v)' => u = v
  BY <1>1 DEF Busy
<1>3. \A v \in Workers : SnapshotInv(v)' /\ CommitInv(v)'
  BY <1>1, IdleHolds
<1>4. QED
  BY <1>2, <1>3 DEF OrderlyInv

\* A request that is accepted is one step of ShareStore.
LEMMA LoadSteps ==
  ASSUME NEW op \in Op, Accepted(op)
  PROVE  StepTo(shares.blocks, NewBlocks(op))
<1>1. CASE op.kind = "create"
  <2>1. op.share \in Share /\ Named(shares.blocks, op.share.name) = {}
        /\ NewBlocks(op) = shares.blocks \cup {op.share}
    BY <1>1, OpTypes DEF Accepted, NewBlocks
  <2>2. QED
    BY <2>1 DEF StepTo
<1>2. CASE op.kind = "delete"
  <2>1. op.name \in Names /\ Named(shares.blocks, op.name) # {}
        /\ NewBlocks(op) = shares.blocks \ Named(shares.blocks, op.name)
    BY <1>2, OpTypes DEF Accepted, NewBlocks
  <2>2. QED
    BY <2>1 DEF StepTo
<1>3. CASE op.kind \in {"update", "users"}
  <2>1. /\ op.name \in Names /\ op.share \in Share /\ Named(shares.blocks, op.name) # {}
        /\ op.share.name = op.name \/ Named(shares.blocks, op.share.name) = {}
        /\ NewBlocks(op) = (shares.blocks \ Named(shares.blocks, op.name)) \cup {op.share}
    BY <1>3, OpTypes DEF Accepted, NewBlocks
  <2>2. QED
    BY <2>1 DEF StepTo
<1>4. QED
  BY <1>1, <1>2, <1>3, OpTypes

\* An answer ends what the worker had at hand; the configuration has to be sound.
LEMMA AnswerOrderly ==
  ASSUME TypeInv, OrderlyInv, NEW w \in Workers, Busy(w), Answer(w),
         main'.layout = "wired" => globals' /\ shares'.exists,
         ~shares'.exists => shares'.blocks = {}
  PROVE  OrderlyInv'
BY AnswerKeeps, IdleHolds, OrderlyOf

LEMMA BeginOrderly ==
  ASSUME TypeInv, OrderlyInv, orderly, NEW w \in Workers, NEW op \in Op, Begin(w, op)
  PROVE  OrderlyInv'
<1>1. AllIdle /\ web \in [Workers -> WebWork]
  BY DEF Begin, TypeInv
<1>2. web'[w].pc \in {"lookup", "layout"} /\ \A v \in Workers \ {w} : web'[v] = web[v]
  BY <1>1 DEF Begin, Idle
<1>3. SnapshotInv(w)' /\ CommitInv(w)'
  BY <1>2 DEF SnapshotInv, CommitInv, InLayout, Committing
<1>4. main' = main /\ globals' = globals /\ shares' = shares
  BY DEF Begin, files
<1>5. QED
  BY <1>1, <1>2, <1>3, <1>4, OrderlyOf DEF OrderlyInv

LEMMA LookupOrderly ==
  ASSUME TypeInv, OrderlyInv, NEW w \in Workers, Lookup(w)
  PROVE  OrderlyInv'
<1>1. Busy(w) /\ web \in [Workers -> WebWork] /\ web[w] \in WebWork
  BY DEF Lookup, At, Busy, TypeInv
<1>2. main' = main /\ globals' = globals /\ shares' = shares
  BY DEF Lookup, files
<1>3. CASE Answer(w)
  BY <1>1, <1>2, <1>3, AnswerOrderly DEF OrderlyInv
<1>4. CASE ~Answer(w)
  <2>1. web'[w].pc = "layout" /\ \A v \in Workers \ {w} : web'[v] = web[v]
    BY <1>1, <1>4 DEF Lookup, WebWork
  <2>2. SnapshotInv(w)' /\ CommitInv(w)'
    BY <2>1 DEF SnapshotInv, CommitInv, InLayout, Committing
  <2>3. QED
    BY <1>1, <1>2, <2>1, <2>2, OrderlyOf DEF OrderlyInv
<1>5. QED
  BY <1>3, <1>4

LEMMA SnapshotOrderly ==
  ASSUME TypeInv, OrderlyInv, NEW w \in Workers, Snapshot(w)
  PROVE  OrderlyInv'
<1>1. Busy(w) /\ web \in [Workers -> WebWork] /\ web[w] \in WebWork
  BY DEF Snapshot, At, Busy, TypeInv
<1>2. main' = main /\ globals' = globals /\ shares' = shares
  BY DEF Snapshot, files
<1>3. /\ web'[w].snap = [main |-> main, globals |-> globals, shares |-> shares]
      /\ web'[w].pc = IF main.layout = "malformed" THEN "restoreMain" ELSE "globals"
      /\ \A v \in Workers \ {w} : web'[v] = web[v]
  BY <1>1 DEF Snapshot, WebWork
<1>4. SnapshotInv(w)'
  BY <1>2, <1>3 DEF SnapshotInv, OrderlyInv
<1>5. CommitInv(w)'
  BY <1>3 DEF CommitInv, Committing
<1>6. QED
  BY <1>1, <1>2, <1>3, <1>4, <1>5, OrderlyOf DEF OrderlyInv

\* A worker in ensure_layout: what it has at hand stays.
LEMMA LayoutGoto ==
  ASSUME TypeInv, NEW w \in Workers, NEW pc \in InLayout \cup {"load"}, Goto(w, pc)
  PROVE  /\ web'[w].pc = pc /\ web'[w].snap = web[w].snap
         /\ \A v \in Workers \ {w} : web'[v] = web[v]
         /\ pc \in InLayout => CommitInv(w)'
         /\ pc = "load" => SnapshotInv(w)' /\ (shares'.exists => CommitInv(w)')
<1>1. pc \in Pcs
  BY DEF InLayout, Pcs
<1>2. /\ web'[w].pc = pc /\ web'[w].snap = web[w].snap
      /\ \A v \in Workers \ {w} : web'[v] = web[v]
  BY <1>1, GotoKeeps
<1>3. QED
  BY <1>2 DEF CommitInv, SnapshotInv, InLayout, Committing

LEMMA LayoutOrderly ==
  ASSUME TypeInv, OrderlyInv, NEW w \in Workers,
         WriteGlobals(w) \/ FindHeader(w) \/ WriteHeader(w) \/ WriteMain(w) \/ LayoutFails(w)
           \/ RestoreMain(w) \/ RestoreGlobals(w) \/ RestoreShares(w)
  PROVE  OrderlyInv'
<1>1. Busy(w) /\ web[w].pc \in InLayout /\ web[w].snap \in Snapshots /\ SnapshotInv(w)
  BY DEF WriteGlobals, FindHeader, WriteHeader, WriteMain, LayoutFails, RestoreMain,
         RestoreGlobals, RestoreShares, At, Busy, InLayout, TypeInv, OrderlyInv
<1>2. web[w].snap.main \in MainFile
  BY <1>1 DEF Snapshots
<1> DEFINE snap == web[w].snap
<1>3. /\ main.layout = "wired" => globals /\ shares.exists
      /\ ~shares.exists => shares.blocks = {}
  BY DEF OrderlyInv
<1>4. CASE WriteGlobals(w)
  <2>1. Goto(w, "header") /\ main' = main /\ globals' /\ shares' = shares /\ At(w, "globals")
    BY <1>4 DEF WriteGlobals
  <2>2. web'[w].pc = "header" /\ web'[w].snap = snap /\ CommitInv(w)'
        /\ \A v \in Workers \ {w} : web'[v] = web[v]
    BY <2>1, LayoutGoto DEF InLayout
  <2>3. SnapshotInv(w)'
    BY <1>1, <2>1, <2>2 DEF SnapshotInv, At
  <2>4. QED
    BY <1>1, <1>3, <2>1, <2>2, <2>3, OrderlyOf
<1>5. CASE FindHeader(w)
  <2>1. PICK pc \in {"main", "newHeader"} :
          Goto(w, pc) /\ pc = IF shares.exists THEN "main" ELSE "newHeader"
    BY <1>5 DEF FindHeader
  <2>2. main' = main /\ globals' = globals /\ shares' = shares /\ At(w, "header")
    BY <1>5 DEF FindHeader, files
  <2>3. web'[w].pc = pc /\ web'[w].snap = snap /\ CommitInv(w)'
        /\ \A v \in Workers \ {w} : web'[v] = web[v]
    BY <2>1, LayoutGoto DEF InLayout
  <2>4. SnapshotInv(w)'
    BY <1>1, <2>1, <2>2, <2>3 DEF SnapshotInv, At
  <2>5. QED
    BY <1>1, <1>3, <2>2, <2>3, <2>4, OrderlyOf
<1>6. CASE WriteHeader(w)
  <2>1. /\ Goto(w, "main") /\ main' = main /\ globals' = globals /\ At(w, "newHeader")
        /\ shares'.exists /\ shares'.blocks = {}
    BY <1>6 DEF WriteHeader
  <2>2. web'[w].pc = "main" /\ web'[w].snap = snap /\ CommitInv(w)'
        /\ \A v \in Workers \ {w} : web'[v] = web[v]
    BY <2>1, LayoutGoto DEF InLayout
  <2>3. SnapshotInv(w)'
    BY <1>1, <1>3, <2>1, <2>2 DEF SnapshotInv, At, InLayout
  <2>4. QED
    BY <1>1, <1>3, <2>1, <2>2, <2>3, OrderlyOf
<1>7. CASE WriteMain(w)
  <2>1. Goto(w, "load") /\ globals' = globals /\ shares' = shares /\ At(w, "main")
    BY <1>7 DEF WriteMain
  <2>2. globals /\ shares.exists
    BY <1>1, <2>1 DEF SnapshotInv, At
  <2>3. SnapshotInv(w)' /\ CommitInv(w)' /\ \A v \in Workers \ {w} : web'[v] = web[v]
    BY <2>1, <2>2, LayoutGoto
  <2>4. QED
    BY <1>1, <2>1, <2>2, <2>3, OrderlyOf
<1>8. CASE LayoutFails(w)
  <2>1. /\ Goto(w, "restoreMain") /\ main' = main /\ globals' = globals /\ shares' = shares
        /\ web[w].pc \in {"globals", "newHeader", "main"}
    BY <1>8 DEF LayoutFails, files
  <2>2. web'[w].pc = "restoreMain" /\ web'[w].snap = snap /\ CommitInv(w)'
        /\ \A v \in Workers \ {w} : web'[v] = web[v]
    BY <2>1, LayoutGoto DEF InLayout
  <2>3. SnapshotInv(w)'
    BY <1>1, <2>1, <2>2 DEF SnapshotInv
  <2>4. QED
    BY <1>1, <1>3, <2>1, <2>2, <2>3, OrderlyOf
<1>9. CASE RestoreMain(w)
  <2>1. /\ Goto(w, "restoreGlobals") /\ main' = snap.main /\ globals' = globals
        /\ shares' = shares /\ At(w, "restoreMain")
    BY <1>9 DEF RestoreMain
  <2>2. web'[w].pc = "restoreGlobals" /\ web'[w].snap = snap /\ CommitInv(w)'
        /\ \A v \in Workers \ {w} : web'[v] = web[v]
    BY <2>1, LayoutGoto DEF InLayout
  <2>3. SnapshotInv(w)'
    BY <1>1, <2>1, <2>2 DEF SnapshotInv, At
  <2>4. main'.layout = "wired" => globals' /\ shares'.exists
    BY <1>1, <2>1 DEF SnapshotInv, At
  <2>5. QED
    BY <1>1, <1>3, <2>1, <2>2, <2>3, <2>4, OrderlyOf
<1>10. CASE RestoreGlobals(w)
  <2>1. /\ Goto(w, "restoreShares") /\ main' = main /\ globals' = snap.globals
        /\ shares' = shares /\ At(w, "restoreGlobals")
    BY <1>10 DEF RestoreGlobals
  <2>2. web'[w].pc = "restoreShares" /\ web'[w].snap = snap /\ CommitInv(w)'
        /\ \A v \in Workers \ {w} : web'[v] = web[v]
    BY <2>1, LayoutGoto DEF InLayout
  <2>3. SnapshotInv(w)'
    BY <1>1, <2>1, <2>2 DEF SnapshotInv, At
  <2>4. main'.layout = "wired" => globals' /\ shares'.exists
    BY <1>1, <2>1 DEF SnapshotInv, At
  <2>5. QED
    BY <1>1, <1>3, <2>1, <2>2, <2>3, <2>4, OrderlyOf
<1>11. CASE RestoreShares(w)
  <2>1. /\ Answer(w) /\ main' = main /\ globals' = globals
        /\ shares' = snap.shares /\ At(w, "restoreShares")
    BY <1>11 DEF RestoreShares
  <2>2. /\ main'.layout = "wired" => globals' /\ shares'.exists
        /\ ~shares'.exists => shares'.blocks = {}
    BY <1>1, <2>1 DEF SnapshotInv, At
  <2>3. QED
    BY <1>1, <2>1, <2>2, AnswerOrderly
<1>12. QED
  BY <1>4, <1>5, <1>6, <1>7, <1>8, <1>9, <1>10, <1>11

LEMMA LoadOrderly ==
  ASSUME TypeInv, OrderlyInv, NEW w \in Workers, Load(w)
  PROVE  OrderlyInv'
<1>1. Busy(w) /\ web \in [Workers -> WebWork] /\ web[w] \in WebWork /\ web[w].op \in Op
  BY DEF Load, At, Busy, TypeInv
<1>2. main' = main /\ globals' = globals /\ shares' = shares
  BY DEF Load, files
<1>3. CASE Answer(w)
  BY <1>1, <1>2, <1>3, AnswerOrderly DEF OrderlyInv
<1>4. CASE ~Answer(w)
  <2>1. Accepted(web[w].op) /\ web'[w].pc = "commit" /\ web'[w].new = NewBlocks(web[w].op)
        /\ \A v \in Workers \ {w} : web'[v] = web[v]
    BY <1>1, <1>4 DEF Load, WebWork
  <2>2. StepTo(shares.blocks, web'[w].new)
    BY <1>1, <2>1, LoadSteps
  <2>3. shares.exists
    BY DEF Load, At, OrderlyInv, CommitInv
  <2>4. SnapshotInv(w)'
    BY <2>1 DEF SnapshotInv, InLayout
  <2>5. CommitInv(w)'
    BY <1>2, <2>1, <2>2, <2>3 DEF CommitInv, Committing
  <2>6. QED
    BY <1>1, <1>2, <2>1, <2>4, <2>5, OrderlyOf DEF OrderlyInv
<1>5. QED
  BY <1>3, <1>4

LEMMA ReadOriginalOrderly ==
  ASSUME TypeInv, OrderlyInv, NEW w \in Workers, ReadOriginal(w)
  PROVE  OrderlyInv'
<1>1. Busy(w) /\ web \in [Workers -> WebWork] /\ web[w] \in WebWork
  BY DEF ReadOriginal, At, Busy, TypeInv
<1>2. main' = main /\ globals' = globals /\ shares' = shares
  BY DEF ReadOriginal, files
<1>3. web'[w].pc = "write" /\ web'[w].new = web[w].new /\ web'[w].orig = shares
      /\ \A v \in Workers \ {w} : web'[v] = web[v]
  BY <1>1 DEF ReadOriginal, WebWork
<1>4. shares.exists /\ StepTo(shares.blocks, web[w].new)
  BY DEF ReadOriginal, At, OrderlyInv, CommitInv
<1>5. SnapshotInv(w)'
  BY <1>3 DEF SnapshotInv, InLayout
<1>6. CommitInv(w)'
  BY <1>2, <1>3, <1>4 DEF CommitInv, Committing
<1>7. QED
  BY <1>1, <1>2, <1>3, <1>5, <1>6, OrderlyOf DEF OrderlyInv

\* A worker that has started to publish is sent on.
LEMMA CommitGoto ==
  ASSUME TypeInv, NEW w \in Workers, NEW pc \in Unsure \cup {"restart"}, Goto(w, pc)
  PROVE  /\ web'[w].pc = pc /\ web'[w].new = web[w].new /\ web'[w].orig = web[w].orig
         /\ \A v \in Workers \ {w} : web'[v] = web[v]
         /\ SnapshotInv(w)'
<1>1. pc \in Pcs
  BY DEF Unsure, Pcs
<1>2. /\ web'[w].pc = pc /\ web'[w].new = web[w].new /\ web'[w].orig = web[w].orig
      /\ \A v \in Workers \ {w} : web'[v] = web[v]
  BY <1>1, GotoKeeps
<1>3. QED
  BY <1>2 DEF SnapshotInv, InLayout, Unsure

LEMMA CommitOrderly ==
  ASSUME TypeInv, OrderlyInv, NEW w \in Workers,
         Publish(w) \/ Validate(w) \/ PublishFails(w) \/ Reload(w) \/ Rollback(w)
           \/ RestartAfterRollback(w)
  PROVE  OrderlyInv'
<1>1. Busy(w) /\ CommitInv(w)
  BY DEF Publish, Validate, PublishFails, Reload, Rollback, RestartAfterRollback, At, Busy,
         OrderlyInv
<1>2. main' = main /\ globals' = globals
  BY DEF Publish, Validate, PublishFails, Reload, Rollback, RestartAfterRollback, files
<1>3. /\ main.layout = "wired" => globals /\ shares.exists
      /\ ~shares.exists => shares.blocks = {}
  BY DEF OrderlyInv
<1>4. CASE Answer(w) /\ shares' = shares
  BY <1>1, <1>2, <1>3, <1>4, AnswerOrderly
<1>5. CASE Publish(w)
  <2>1. At(w, "write") /\ Goto(w, "validate") /\ shares'.exists /\ shares'.blocks = web[w].new
    BY <1>5 DEF Publish
  <2>2. web'[w].pc = "validate" /\ web'[w].new = web[w].new /\ web'[w].orig = web[w].orig
        /\ SnapshotInv(w)' /\ \A v \in Workers \ {w} : web'[v] = web[v]
    BY <2>1, CommitGoto DEF Unsure
  <2>3. CommitInv(w)'
    BY <1>1, <2>1, <2>2 DEF CommitInv, At, Committing
  <2>4. QED
    BY <1>1, <1>2, <1>3, <2>1, <2>2, <2>3, OrderlyOf
<1>6. CASE \E pc \in {"reload", "rollback"} : Goto(w, pc) /\ web[w].pc \in Committing
                                              /\ (pc = "reload" => web[w].pc = "validate")
                                              /\ shares' = shares
  <2>1. PICK pc \in {"reload", "rollback"} : Goto(w, pc) /\ web[w].pc \in Committing
                                             /\ (pc = "reload" => web[w].pc = "validate")
                                             /\ shares' = shares
    BY <1>6
  <2>2. web'[w].pc = pc /\ web'[w].new = web[w].new /\ web'[w].orig = web[w].orig
        /\ SnapshotInv(w)' /\ \A v \in Workers \ {w} : web'[v] = web[v]
    BY <2>1, CommitGoto DEF Unsure
  <2>3. CommitInv(w)'
    BY <1>1, <2>1, <2>2 DEF CommitInv, Committing
  <2>4. QED
    BY <1>1, <1>2, <1>3, <2>1, <2>2, <2>3, OrderlyOf
<1>7. CASE Goto(w, "restart") /\ Rollback(w)
  <2>1. CASE shares' = shares
    <3>1. web'[w].pc = "restart" /\ SnapshotInv(w)' /\ \A v \in Workers \ {w} : web'[v] = web[v]
      BY <1>7, CommitGoto
    <3>2. CommitInv(w)'
      BY <3>1 DEF CommitInv, Committing
    <3>3. QED
      BY <1>1, <1>2, <1>3, <2>1, <3>1, <3>2, OrderlyOf
  <2>2. CASE shares' = web[w].orig
    <3>1. web'[w].pc = "restart" /\ SnapshotInv(w)' /\ \A v \in Workers \ {w} : web'[v] = web[v]
      BY <1>7, CommitGoto
    <3>2. CommitInv(w)'
      BY <3>1 DEF CommitInv, Committing
    <3>3. web[w].orig.exists
      BY <1>1, <1>7 DEF CommitInv, Rollback, At, Committing
    <3>4. main'.layout = "wired" => globals' /\ shares'.exists
      BY <1>2, <1>3, <2>2, <3>3
    <3>5. QED
      BY <1>1, <2>2, <3>1, <3>2, <3>3, <3>4, OrderlyOf
  <2>3. QED
    BY <1>7, <2>1, <2>2 DEF Rollback
<1>8. QED
  BY <1>4, <1>5, <1>6, <1>7 DEF Publish, Validate, PublishFails, Reload, Rollback,
     RestartAfterRollback, At, Committing, files

LEMMA OthersOrderly ==
  ASSUME TypeInv, OrderlyInv, RestartServices \/ WebDies \/ EditMain \/ UNCHANGED vars
  PROVE  OrderlyInv'
<1>1. /\ main.layout = "wired" => globals /\ shares.exists
      /\ ~shares.exists => shares.blocks = {}
  BY DEF OrderlyInv
<1>2. CASE RestartServices \/ UNCHANGED vars
  <2>1. main' = main /\ globals' = globals /\ shares' = shares /\ web' = web
    BY <1>2 DEF RestartServices, vars, files
  <2>2. \A v, w \in Workers : Busy(v)' /\ Busy(w)' => v = w
    BY <2>1 DEF Busy, OrderlyInv
  <2>3. ASSUME NEW w \in Workers PROVE SnapshotInv(w)' /\ CommitInv(w)'
    BY <2>1 DEF OrderlyInv, SnapshotInv, CommitInv
  <2>4. QED
    BY <1>1, <2>1, <2>2, <2>3 DEF OrderlyInv
<1>3. CASE WebDies \/ EditMain
  <2>1. \A w \in Workers : web'[w].pc = "idle"
    BY <1>3 DEF WebDies, EditMain, AllIdle, Busy, Idle
  <2>2. globals' = globals /\ shares' = shares
    BY <1>3 DEF WebDies, EditMain, files
  <2>3. main'.layout = "wired" => main.layout = "wired"
    BY <1>3 DEF WebDies, EditMain, files, TypeInv, TypeOK, MainFile
  <2>4. \A w \in Workers : SnapshotInv(w)' /\ CommitInv(w)'
    BY <2>1, IdleHolds
  <2>5. \A v, w \in Workers : Busy(v)' /\ Busy(w)' => v = w
    BY <2>1 DEF Busy
  <2>6. QED
    BY <1>1, <2>2, <2>3, <2>4, <2>5 DEF OrderlyInv
<1>4. QED
  BY <1>2, <1>3

LEMMA StepOrderly == ASSUME TypeInv, OrderlyInv, orderly, [Next]_vars PROVE OrderlyInv'
<1>1. ASSUME NEW w \in Workers, Step(w) PROVE OrderlyInv'
  BY <1>1, BeginOrderly, LookupOrderly, SnapshotOrderly, LayoutOrderly, LoadOrderly,
     ReadOriginalOrderly, CommitOrderly DEF Step
<1>2. QED
  BY <1>1, OthersOrderly DEF Next

LEMMA OrderlyStays == ASSUME [Next]_vars PROVE orderly' = orderly
<1>1. ASSUME NEW w \in Workers, Step(w) PROVE orderly' = orderly
  BY <1>1 DEF Step, Begin, Lookup, Snapshot, WriteGlobals, FindHeader, WriteHeader, WriteMain,
     LayoutFails, RestoreMain, RestoreGlobals, RestoreShares, Load, ReadOriginal, Publish,
     Validate, PublishFails, Reload, Rollback, RestartAfterRollback
<1>2. QED
  BY <1>1 DEF Next, RestartServices, WebDies, EditMain, vars

LEMMA Invariant == Spec => []IInv
<1>1. ASSUME Init PROVE IInv
  <2>1. TypeInv
    BY <1>1, InitTypes
  <2>2. ServedInv
    BY <1>1 DEF Init, ServedInv
  <2>3. \A w \in Workers : web[w].pc = "idle"
    BY <1>1 DEF Init, Idle
  <2>4. main.layout = "plain" /\ shares.blocks = {}
    BY <1>1 DEF Init
  <2>5. \A w \in Workers : SnapshotInv(w) /\ CommitInv(w)
    BY <2>3 DEF SnapshotInv, CommitInv, InLayout, Committing
  <2>6. OrderlyInv
    BY <2>3, <2>4, <2>5 DEF OrderlyInv, Busy
  <2>7. QED
    BY <2>1, <2>2, <2>6 DEF IInv
<1>2. ASSUME IInv, [Next]_vars PROVE IInv'
  <2>1. TypeInv'
    BY <1>2, StepTypes DEF IInv
  <2>2. ServedInv'
    BY <1>2, <2>1, StepServed DEF IInv
  <2>3. orderly' => OrderlyInv'
    BY <1>2, StepOrderly, OrderlyStays DEF IInv
  <2>4. QED
    BY <2>1, <2>2, <2>3 DEF IInv
<1>3. QED
  BY <1>1, <1>2, PTL DEF Spec

-----------------------------------------------------------------------------
(* Theorems                                                                *)

\* The types: what a request has at hand is of the right kind at every step.
THEOREM TypeCorrect == Spec => []TypeOK
<1>1. IInv => TypeOK
  BY DEF IInv, TypeInv
<1>2. QED
  BY <1>1, Invariant, PTL

\* ensure_layout never lets smb.conf include a file that does not exist, whatever
\* step fails and wherever the machine stops, while requests do not overlap.
THEOREM IncludesAlwaysExist == Spec => []IncludesExist
<1>1. IInv => IncludesExist
  BY DEF IInv, OrderlyInv, IncludesExist
<1>2. QED
  BY <1>1, Invariant, PTL

\* With no request under way smbd serves the published shares, or the failure was
\* reported.  This holds for requests that overlap too.
THEOREM PublishedIsServed == Spec => []Served
<1>1. IInv => Served
  BY DEF IInv, ServedInv, Served, AllIdle, Busy, Unsure
<1>2. QED
  BY <1>1, Invariant, PTL

\* With the other workers idle, what is published is known by the place of one.
LEMMA TheOnlyOne ==
  ASSUME NEW S, NEW f, NEW w \in S, f[w].pc \in Unsure, \A v \in S \ {w} : f[v].pc = "idle"
  PROVE  (CHOOSE v \in S : f[v].pc \in {"validate", "reload", "rollback"}) = w
<1>1. \A v \in S : f[v].pc \in {"validate", "reload", "rollback"} <=> v = w
  BY DEF Unsure
<1>2. QED
  BY <1>1

LEMMA PublishedNow ==
  ASSUME NEW w \in Workers, \A v \in Workers \ {w} : web[v].pc = "idle"
  PROVE  Published = IF web[w].pc \in Unsure THEN web[w].orig.blocks ELSE shares.blocks
BY TheOnlyOne DEF Published, Unsure

LEMMA PublishedNext ==
  ASSUME NEW w \in Workers, \A v \in Workers \ {w} : web'[v].pc = "idle"
  PROVE  Published' = IF web'[w].pc \in Unsure THEN web'[w].orig.blocks ELSE shares'.blocks
BY TheOnlyOne DEF Published, Unsure

LEMMA StepToNext ==
  ASSUME StepTo(Published, Published')
  PROVE  Store!Next
BY DEF StepTo, Named, Store!Next, Store!Create, Store!Change, Store!Delete, Store!Named,
       Store!Share, Share

\* What a step of a worker does to what is published.
LEMMA StepPublishes ==
  ASSUME TypeInv, OrderlyInv, orderly, NEW w \in Workers, Step(w)
  PROVE  Published' = Published \/ StepTo(Published, Published')
<1>1. web \in [Workers -> WebWork] /\ SnapshotInv(w) /\ CommitInv(w)
  BY DEF TypeInv, OrderlyInv
<1>2. Busy(w) \/ AllIdle
  BY DEF Step, Begin, Lookup, Snapshot, WriteGlobals, FindHeader, WriteHeader, WriteMain,
     LayoutFails, RestoreMain, RestoreGlobals, RestoreShares, Load, ReadOriginal, Publish,
     Validate, PublishFails, Reload, Rollback, RestartAfterRollback, At, Busy
<1>3. \A v \in Workers \ {w} : web[v].pc = "idle"
  BY <1>2 DEF OrderlyInv, Busy, AllIdle
<1>4. \A v \in Workers \ {w} : web'[v] = web[v]
  BY <1>1 DEF Step, Begin, Lookup, Snapshot, WriteGlobals, FindHeader, WriteHeader, WriteMain,
     LayoutFails, RestoreMain, RestoreGlobals, RestoreShares, Load, ReadOriginal, Publish,
     Validate, PublishFails, Reload, Rollback, RestartAfterRollback, Goto, Answer
<1>5. Published = IF web[w].pc \in Unsure THEN web[w].orig.blocks ELSE shares.blocks
  BY <1>3, PublishedNow
<1>6. Published' = IF web'[w].pc \in Unsure THEN web'[w].orig.blocks ELSE shares'.blocks
  BY <1>3, <1>4, PublishedNext
<1>7. CASE web[w].pc \notin Unsure /\ web'[w].pc \notin Unsure /\ shares'.blocks = shares.blocks
  BY <1>5, <1>6, <1>7
<1>8. CASE /\ web[w].pc \in Unsure /\ web'[w].pc \in Unsure /\ web'[w].orig = web[w].orig
  BY <1>5, <1>6, <1>8
<1>9. CASE /\ web[w].pc = "write" /\ web'[w].pc \in Unsure /\ web'[w].orig = web[w].orig
  <2>1. shares = web[w].orig
    BY <1>1, <1>9 DEF CommitInv
  <2>2. QED
    BY <1>5, <1>6, <1>9, <2>1 DEF Unsure
<1>10. CASE web[w].pc \in Unsure /\ Answer(w) /\ shares' = shares
            /\ web[w].pc # "validate"
  <2>1. web'[w].pc = "idle"
    BY <1>10, AnswerKeeps
  <2>2. StepTo(web[w].orig.blocks, web[w].new)
        /\ shares.blocks \in {web[w].new, web[w].orig.blocks}
    BY <1>1, <1>10 DEF CommitInv, Unsure, Committing
  <2>3. QED
    BY <1>5, <1>6, <1>10, <2>1, <2>2 DEF Unsure
<1>11. CASE web[w].pc = "rollback" /\ web'[w].pc = "restart" /\ shares' = web[w].orig
  BY <1>5, <1>6, <1>11 DEF Unsure
<1>12. CASE \E op \in Op : Begin(w, op)
  <2>1. web[w].pc = "idle" /\ web'[w].pc \in {"lookup", "layout"} /\ shares' = shares
    BY <1>1, <1>12 DEF Begin, Busy, Idle, files
  <2>2. QED
    BY <1>7, <2>1 DEF Unsure
<1>13. CASE Lookup(w) \/ Snapshot(w) \/ Load(w) \/ ReadOriginal(w)
  <2>1. web[w].pc \notin Unsure /\ shares' = shares
    BY <1>13 DEF Lookup, Snapshot, Load, ReadOriginal, At, Unsure, files
  <2>2. web[w] \in WebWork
    BY <1>1
  <2>3. CASE Answer(w)
    BY <1>7, <2>1, <2>3, AnswerKeeps DEF Unsure
  <2>4. CASE ~Answer(w)
    <3>1. web'[w].pc \in {"layout", "restoreMain", "globals", "commit", "write"}
      <4>1. CASE Lookup(w)
        BY <1>1, <2>2, <2>4, <4>1 DEF Lookup, WebWork
      <4>2. CASE Snapshot(w)
        BY <1>1, <2>2, <4>2 DEF Snapshot, WebWork
      <4>3. CASE Load(w)
        BY <1>1, <2>2, <2>4, <4>3 DEF Load, WebWork
      <4>4. CASE ReadOriginal(w)
        BY <1>1, <2>2, <4>4 DEF ReadOriginal, WebWork
      <4>5. QED
        BY <1>13, <4>1, <4>2, <4>3, <4>4
    <3>2. QED
      BY <1>7, <2>1, <3>1 DEF Unsure
  <2>5. QED
    BY <2>3, <2>4
<1>14. CASE WriteGlobals(w) \/ FindHeader(w) \/ WriteHeader(w) \/ WriteMain(w)
              \/ LayoutFails(w) \/ RestoreMain(w) \/ RestoreGlobals(w) \/ RestoreShares(w)
  <2>1. web[w].pc \in InLayout /\ web[w].pc \notin Unsure
    BY <1>14 DEF WriteGlobals, FindHeader, WriteHeader, WriteMain, LayoutFails, RestoreMain,
       RestoreGlobals, RestoreShares, At, InLayout, Unsure
  <2>2. Answer(w) \/ \E pc \in InLayout \cup {"load"} : Goto(w, pc)
    BY <1>14 DEF WriteGlobals, FindHeader, WriteHeader, WriteMain, LayoutFails, RestoreMain,
       RestoreGlobals, RestoreShares, InLayout
  <2>3. web'[w].pc \in InLayout \cup {"load", "idle"}
    BY <2>2, AnswerKeeps, LayoutGoto
  <2>4. shares'.blocks = shares.blocks
    <3>1. CASE WriteHeader(w)
      <4>1. ~shares.exists
        BY <1>1, <3>1 DEF WriteHeader, At, SnapshotInv, InLayout
      <4>2. QED
        BY <3>1, <4>1 DEF WriteHeader, OrderlyInv
    <3>2. CASE RestoreShares(w)
      BY <1>1, <3>2 DEF RestoreShares, At, SnapshotInv, InLayout
    <3>3. CASE ~WriteHeader(w) /\ ~RestoreShares(w)
      BY <1>14, <3>3 DEF WriteGlobals, FindHeader, WriteMain, LayoutFails, RestoreMain,
         RestoreGlobals, files
    <3>4. QED
      BY <3>1, <3>2, <3>3
  <2>5. QED
    BY <1>7, <2>1, <2>3, <2>4 DEF InLayout, Unsure
<1>15. CASE Publish(w) \/ Validate(w) \/ PublishFails(w)
  <2>1. PICK pc \in Unsure : Goto(w, pc)
    BY <1>15 DEF Publish, Validate, PublishFails, Unsure
  <2>2. web'[w].pc = pc /\ web'[w].orig = web[w].orig
    BY <2>1, CommitGoto
  <2>3. web[w].pc \in Unsure \cup {"write"}
    BY <1>15 DEF Publish, Validate, PublishFails, At, Unsure
  <2>4. QED
    BY <1>8, <1>9, <2>2, <2>3
<1>16. CASE Reload(w)
  <2>1. web[w].pc = "reload" /\ shares' = shares
    BY <1>16 DEF Reload, At, files
  <2>2. CASE Answer(w)
    BY <1>10, <2>1, <2>2 DEF Unsure
  <2>3. CASE Goto(w, "rollback")
    <3>1. web'[w].pc = "rollback" /\ web'[w].orig = web[w].orig
      BY <2>3, CommitGoto DEF Unsure
    <3>2. QED
      BY <1>8, <2>1, <3>1 DEF Unsure
  <2>4. QED
    BY <1>16, <2>2, <2>3 DEF Reload
<1>17. CASE Rollback(w)
  <2>1. web[w].pc = "rollback"
    BY <1>17 DEF Rollback, At
  <2>2. CASE Goto(w, "restart") /\ shares' = web[w].orig
    BY <1>11, <2>1, <2>2, CommitGoto
  <2>3. CASE Answer(w) /\ shares' = shares
    BY <1>10, <2>1, <2>3 DEF Unsure
  <2>4. QED
    BY <1>17, <2>2, <2>3 DEF Rollback
<1>18. CASE RestartAfterRollback(w)
  <2>1. web[w].pc = "restart" /\ shares' = shares /\ Answer(w)
    BY <1>18 DEF RestartAfterRollback, At, files
  <2>2. QED
    BY <1>7, <2>1, AnswerKeeps DEF Unsure
<1>19. QED
  BY <1>12, <1>13, <1>14, <1>15, <1>16, <1>17, <1>18 DEF Step

\* What the other steps do: only a crash may change what counts as published.
LEMMA OthersPublish ==
  ASSUME TypeInv, OrderlyInv, RestartServices \/ WebDies \/ EditMain \/ UNCHANGED vars
  PROVE  Published' = Published \/ StepTo(Published, Published')
<1>1. CASE RestartServices \/ EditMain \/ UNCHANGED vars
  <2>1. web' = web /\ shares' = shares
    BY <1>1 DEF RestartServices, EditMain, vars, files
  <2>2. QED
    BY <2>1 DEF Published
<1>2. CASE WebDies
  <2>1. PICK w \in Workers : Busy(w)
    BY <1>2 DEF WebDies, AllIdle
  <2>2. CommitInv(w) /\ \A v \in Workers \ {w} : web[v].pc = "idle"
    BY <2>1 DEF OrderlyInv, Busy
  <2>3. Published = IF web[w].pc \in Unsure THEN web[w].orig.blocks ELSE shares.blocks
    BY <2>2, PublishedNow
  <2>4. \A v \in Workers : web'[v].pc = "idle"
    BY <1>2 DEF WebDies, Idle
  <2>5. Published' = shares.blocks
    <3>1. Published' = IF web'[w].pc \in Unsure THEN web'[w].orig.blocks ELSE shares'.blocks
      BY <2>4, PublishedNext
    <3>2. web'[w].pc \notin Unsure /\ shares' = shares
      BY <1>2, <2>4 DEF WebDies, files, Unsure
    <3>3. QED
      BY <3>1, <3>2
  <2>6. CASE web[w].pc \in Unsure
    <3>1. StepTo(web[w].orig.blocks, web[w].new)
          /\ shares.blocks \in {web[w].new, web[w].orig.blocks}
      BY <2>2, <2>6 DEF CommitInv, Unsure, Committing
    <3>2. QED
      BY <2>3, <2>5, <2>6, <3>1
  <2>7. QED
    BY <2>3, <2>5, <2>6
<1>3. QED
  BY <1>1, <1>2

\* A request that overlaps with no other takes effect as a whole or not at all: the
\* published shares implement ShareStore, one request a step.
THEOREM ImplementsShareStore == Spec => AtomicShares
<1>1. ASSUME IInv, [Next]_vars PROVE [orderly => Store!Next]_Published
  <2>1. CASE orderly
    <3>1. Published' = Published \/ StepTo(Published, Published')
      BY <1>1, <2>1, StepPublishes, OthersPublish DEF IInv, Next
    <3>2. QED
      BY <3>1, StepToNext
  <2>2. QED
    BY <2>1
<1>2. QED
  BY <1>1, Invariant, PTL DEF Spec, AtomicShares

===============================================================================
