------------------------------ MODULE MCStatusRepo ------------------------------
(* Instance of StatusRepo for TLC: two tasks, two variables of three copies *)
(* each, one corrupted cell at a time, and restarts that keep the table as  *)
(* well as restarts that lose it.                                          *)
EXTENDS StatusRepo, TLC

Zero(x) == 0
Symmetry == Permutations(Tasks)
================================================================================
