--------------------------- MODULE MCFilePersistence ---------------------------
(* Three processes that each make one of three calls, in any order: two    *)
(* callers overlap while a third has yet to begin or has already returned. *)
EXTENDS FilePersistence

CONSTANTS p1, p2, p3, u1, u2, u3

MCProcs   == {p1, p2, p3}
MCUpdates == {u1, u2, u3}

=============================================================================
