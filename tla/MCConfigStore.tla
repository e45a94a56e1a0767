----------------------------- MODULE MCConfigStore -----------------------------
(* Instances of ConfigStore; the request threads are interchangeable.        *)
EXTENDS ConfigStore, TLC

MCSettings == {"schedule", "setup_complete", "managed"}
MCCarried  == {"schedule", "setup_complete"}

Symmetry == Permutations(Threads)

=============================================================================
