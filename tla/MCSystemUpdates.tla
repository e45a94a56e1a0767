---------------------------- MODULE MCSystemUpdates ----------------------------
(* Two browsers on the System Updates page; the second operation is what   *)
(* a late step of the first one's requests can collide with.               *)
EXTENDS SystemUpdates

CONSTANTS w1, w2

MCWeb == {w1, w2}

=============================================================================
