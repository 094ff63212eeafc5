--------------------------- MODULE MCCommandPipeline ---------------------------
(* Instances of CommandPipeline for TLC.  The number of allocations (Cmds)  *)
(* bounds a behaviour; a dispatcher queue of two fills up with two clients  *)
(* sending, or with a client and a command that sends commands.             *)
EXTENDS CommandPipeline
================================================================================
