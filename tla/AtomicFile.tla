------------------------------ MODULE AtomicFile ------------------------------
(***************************************************************************)
(* What locked_json_update promises its callers, and what the other        *)
(* modules of this project assume of alerts.json, disabled_timers.json and *)
(* the configuration: each update is applied at one instant to the result  *)
(* of those before it, and once it has returned it outlives a power cut.   *)
(***************************************************************************)
CONSTANT Updates \* the update calls that are ever made

VARIABLES
    content, \* the updates the file holds
    acked    \* the updates whose call has returned

vars == <<content, acked>>

Init == content = {} /\ acked = {}

Apply(u) ==
    /\ u \notin content
    /\ content' = content \cup {u}
    /\ UNCHANGED acked

Acknowledge(u) ==
    /\ u \in content
    /\ acked' = acked \cup {u}
    /\ UNCHANGED content

\* The file goes back to some earlier state, never past what was acknowledged.
PowerCut ==
    /\ content' \in SUBSET content
    /\ acked \subseteq content'
    /\ UNCHANGED acked

Next == PowerCut \/ \E u \in Updates : Apply(u) \/ Acknowledge(u)

Spec == Init /\ [][Next]_vars

=============================================================================
