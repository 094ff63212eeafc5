------------------------------ MODULE MCFlightPlan ------------------------------
(* Instances of FlightPlan for TLC: a table of one or two slots that fills   *)
(* up, a few seconds, an entry that runs once and one that repeats.          *)
EXTENDS FlightPlan, TLC

Once == [wait |-> 2, executions |-> 1, periodical |-> 0]
Periodic == [wait |-> 1, executions |-> 2, periodical |-> 1]

OnceOrPeriodic == {Once, Periodic}

Symmetry == Permutations(Ids)
================================================================================
