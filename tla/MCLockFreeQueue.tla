--------------------------- MODULE MCLockFreeQueue ---------------------------
(* Instances of the lock-free queue for TLC; see the .cfg files.            *)
EXTENDS LockFreeQueue, TLC

\* Threads and elements are interchangeable (safety runs only).
Symmetry == Permutations(Threads) \cup Permutations(Elems)
=============================================================================
