----------------------------- MODULE ShareStore -----------------------------
(***************************************************************************)
(* What the network file shares page promises: the managed shares are a    *)
(* set with one share per name, and a request creates, changes or deletes  *)
(* exactly one of them.  SambaShares implements this with three files, a   *)
(* validator and a daemon.                                                 *)
(***************************************************************************)
CONSTANTS Names, Paths, UserLists

VARIABLE store

Share == [name : Names, path : Paths, users : UserLists]

Named(n) == {s \in store : s.name = n}

Create(s) == Named(s.name) = {} /\ store' = store \cup {s}

(* A change may rename the share, to a name no other share has. *)
Change(n, s) == /\ Named(n) # {}
                /\ s.name = n \/ Named(s.name) = {}
                /\ store' = (store \ Named(n)) \cup {s}

Delete(n) == Named(n) # {} /\ store' = store \ Named(n)

Init == store = {}

Next == \/ \E s \in Share : Create(s) \/ \E n \in Names : Change(n, s)
        \/ \E n \in Names : Delete(n)

Spec == Init /\ [][Next]_store
=============================================================================
