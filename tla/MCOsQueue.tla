------------------------------- MODULE MCOsQueue -------------------------------
(* Instance of OsQueue for TLC: three threads, any of which may send or     *)
(* receive, two values and two slots, so that the ring wraps, several       *)
(* threads wait on the same condition and all three compete for the mutex.  *)
EXTENDS OsQueue, TLC

Symmetry == Permutations(Threads)
================================================================================
