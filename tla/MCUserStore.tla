------------------------------ MODULE MCUserStore ------------------------------
(* Instances of UserStore: two threads, users and passwords; threads and     *)
(* passwords are interchangeable, and so are users.                          *)
EXTENDS UserStore, TLC

Symmetry == Permutations(Threads) \cup Permutations(Users) \cup Permutations(Passwords)

=============================================================================
