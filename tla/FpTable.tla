-------------------------------- MODULE FpTable --------------------------------
(***************************************************************************)
(* What repoData.c expects of the table of the flight plan, whatever       *)
(* stores it: a row put can be read until an operation asks for it to go,  *)
(* and then it is gone.  Nothing is promised after a fault that loses      *)
(* rows, and a row that is there twice may survive a delete.               *)
(***************************************************************************)
CONSTANT Rows   \* every row that may be put: [time, id]

VARIABLES rows,    \* the rows that can be read
          asked,   \* the rows the last operation was to delete or to replace
          spoilt,  \* a fault that loses rows has happened
          twice    \* a fault that may leave a row twice has happened

(* A row put may replace the rows of its time. *)
Put(r) == rows' = (rows \ {q \in asked' : q.time = r.time}) \cup {r}

Drop == rows' = rows \ asked' \/ (twice /\ rows' = rows)

Fault == spoilt' = TRUE /\ rows' \subseteq Rows

TableSpec ==
    /\ rows = {} /\ spoilt = FALSE
    /\ [][(\E r \in Rows \ rows : Put(r)) \/ Drop \/ Fault]_rows

================================================================================
