--------------------------------- MODULE SqlPlan ---------------------------------
(***************************************************************************)
(* The flight plan in SQLite (storage_sqlite.c) under repoData.c.  The     *)
(* time is the primary key of a row; a row put at a time that is taken     *)
(* replaces the old one.  The repository reaches rows by time, or by       *)
(* rowid = index + 1 with an index below SCH_FP_MAX_ENTRIES.               *)
(*                                                                         *)
(* The flight-plan task and the executer call the repository at the same   *)
(* time, taskInit before both.  A call reads dat_fpl_queue in a critical   *)
(* zone of its own, edits the table in another and writes the count in a   *)
(* third; dat_purge_fp edits the table in no critical zone at all.         *)
(***************************************************************************)
EXTENDS Integers, Sequences, FiniteSets

CONSTANTS Entries,    \* SCH_FP_MAX_ENTRIES
          RowTimes,   \* times of the rows
          MaxInserts, \* bound on the rows put
          MinQueue    \* the count is followed down to -MinQueue

ASSUME SqlAssumption ==
    Entries \in Nat \ {0} /\ RowTimes \subseteq Nat /\ MaxInserts \in Nat /\ MinQueue \in Nat

Callers == {"init", "fp", "executer"}

VARIABLES
    fp_table,   \* the rows: [rowid, time, id]
    queue,      \* dat_fpl_queue
    call,       \* of each caller: where it is and its locals
    inserts,    \* rows put so far; numbers the rows
    stale,      \* history: callers whose count is out of date: the variable was
                \* written since they read it, or the table edited since they
                \* began to reset or to purge it
    drift,      \* history: the count went wrong since the last purge or reset
    asked,      \* history: the rows the last step was to delete or to replace
    raced       \* history: the last step deleted another row than it had read

sqlVars == <<fp_table, queue, call, inserts, stale, drift, asked, raced>>

(* pc: the next step; t: timetodo or time_min; n: entries or fp_entries,   *)
(* to be written in the end; i: the index of the purge; d: by how much the *)
(* call changed the table, 0 for a call that writes a count of its own.    *)
Local(pc, t, n, i, d) == [pc |-> pc, t |-> t, n |-> n, i |-> i, d |-> d]
NoCall == Local("idle", 0, 0, 0, 0)

SqlInit ==
    /\ fp_table = {} /\ queue = 0 /\ inserts = 0
    /\ call = [p \in Callers |-> NoCall]
    /\ stale = {} /\ drift = FALSE /\ asked = {} /\ raced = FALSE

At(t) == {r \in fp_table : r.time = t}
Index(i) == {r \in fp_table : r.rowid = i + 1}
Row(r) == [time |-> r.time, id |-> r.id]

(* repo_data_sem is held between two steps only by dat_get_fp. *)
SemFree(p) == call["fp"].pc = "take" => p = "fp"

Whole(p) == call[p].pc \in {"reset", "look", "drop"} \/ (call[p].pc = "write" /\ call[p].d = 0)
Relative(p) == call[p].pc # "idle" /\ ~Whole(p)

Goto(p, local) == call' = [call EXCEPT ![p] = local]

(* A step that reads, or calls nothing. *)
NoEdit == asked' = {} /\ raced' = FALSE /\ UNCHANGED <<fp_table, inserts, drift>>

(* The table was edited: who rewrites the whole count may miss it. *)
Edit(p) == stale' = stale \cup {q \in Callers \ {p} : Whole(q)}

--------------------------------------------------------------------------------
(* A call begins.  dat_set_fp, dat_get_fp and dat_del_fp read the count.   *)
Begin(p, pc, t) ==
    /\ call[p] = NoCall /\ call["init"] = NoCall
    /\ SemFree(p)
    /\ pc \in {"get", "del"} => queue > -MinQueue
    /\ Goto(p, Local(pc, t, queue, 0, 0))
    /\ stale' = stale \ {p}
    /\ NoEdit /\ UNCHANGED queue

(* dat_reset_fp and dat_purge_fp do not. *)
BeginWhole(p, pc, t) ==
    /\ call[p] = NoCall /\ call["init"] = NoCall
    /\ Goto(p, Local(pc, t, 0, 0, 0))
    /\ stale' = stale \ {p}
    /\ NoEdit /\ UNCHANGED queue

(* Seeded fault: the row is replaced whatever its time. *)
InsertOrReplaceAny(t) ==
    LET next == 1 + Cardinality(fp_table) IN
    {r \in fp_table : r.rowid # next /\ r.time # t} \cup {[rowid |-> next, time |-> t, id |-> inserts + 1]}

(* INSERT OR REPLACE: the row of that time goes, the new one gets the      *)
(* rowid after the largest.                                                *)
InsertOrReplace(t) ==
    LET last == CHOOSE n \in {0} \cup {r.rowid : r \in fp_table} : \A r \in fp_table : r.rowid <= n
    IN (fp_table \ At(t)) \cup {[rowid |-> last + 1, time |-> t, id |-> inserts + 1]}

(* dat_set_fp with storage_flight_plan_set_st.  The count grows also when  *)
(* the row replaces another.                                               *)
dat_set_fp(p) ==
    LET t == call[p].t IN
    /\ call[p].pc = "set" /\ SemFree(p) /\ inserts < MaxInserts
    /\ fp_table' = InsertOrReplace(t)
    /\ inserts' = inserts + 1
    /\ drift' = (drift \/ At(t) # {})
    /\ asked' = {Row(r) : r \in At(t)} /\ raced' = FALSE
    /\ Goto(p, Local("write", t, call[p].n + 1, 0, 1))
    /\ Edit(p) /\ UNCHANGED queue

(* dat_get_fp: storage_flight_plan_get_args, ... *)
dat_get_fp(p) ==
    LET t == call[p].t IN
    /\ call[p].pc = "get" /\ SemFree(p)
    /\ Goto(p, IF At(t) = {} THEN NoCall ELSE Local("take", t, call[p].n, 0, 0))
    /\ NoEdit /\ UNCHANGED <<queue, stale>>

(* ... then storage_flight_plan_delete_row, as in dat_del_fp.  DELETE      *)
(* succeeds for a time without a row too.                                  *)
dat_del_fp(p) ==
    LET t == call[p].t IN
    /\ call[p].pc \in {"take", "del"} /\ SemFree(p)
    /\ fp_table' = fp_table \ At(t)
    /\ drift' = (drift \/ At(t) = {})
    /\ asked' = {Row(r) : r \in At(t)} /\ raced' = FALSE
    /\ Goto(p, Local("write", t, call[p].n - 1, 0, -1))
    /\ Edit(p) /\ UNCHANGED <<queue, inserts>>

(* dat_reset_fp: the table is dropped and created. *)
dat_reset_fp(p) ==
    /\ call[p].pc = "reset" /\ SemFree(p)
    /\ fp_table' = {}
    /\ asked' = {Row(r) : r \in fp_table} /\ raced' = FALSE
    /\ Goto(p, Local("write", 0, 0, 0, 0))
    /\ Edit(p) /\ UNCHANGED <<queue, inserts, drift>>

(* Seeded fault: the rows deleted are counted too. *)
dat_purge_fp_all(p) ==
    LET c == call[p]
        after == {r \in Index(c.i) : r.time > c.t}
    IN /\ c.pc = "look"
       /\ Goto(p, IF c.i = Entries THEN Local("write", 0, c.n, 0, 0)
                  ELSE IF after # {} THEN Local("look", c.t, c.n + 1, c.i + 1, 0)
                  ELSE Local("drop", c.t, c.n + Cardinality(Index(c.i)), c.i, 0))
       /\ NoEdit /\ UNCHANGED <<queue, stale>>

(* dat_purge_fp goes through the indices: a row after `now' is counted,    *)
(* another is deleted.  Where no row is, fp_i keeps what it held, so that  *)
(* index may be deleted too.                                               *)
dat_purge_fp(p) ==
    LET c == call[p]
        after == {r \in Index(c.i) : r.time > c.t}
    IN /\ c.pc = "look"
       /\ \/ c.i = Entries /\ Goto(p, Local("write", 0, c.n, 0, 0))
          \/ c.i < Entries /\ after # {} /\ Goto(p, Local("look", c.t, c.n + 1, c.i + 1, 0))
          \/ c.i < Entries /\ after = {} /\ Goto(p, Local("drop", c.t, c.n, c.i, 0))
          \/ c.i < Entries /\ Index(c.i) = {} /\ Goto(p, Local("look", c.t, c.n, c.i + 1, 0))
       /\ NoEdit /\ UNCHANGED <<queue, stale>>

(* storage_flight_plan_delete_row_idx, in no critical zone: the row may be *)
(* another than the one looked at.                                         *)
PurgeRow(p) ==
    LET c == call[p] IN
    /\ c.pc = "drop"
    /\ fp_table' = fp_table \ Index(c.i)
    /\ asked' = {Row(r) : r \in {q \in Index(c.i) : q.time <= c.t}}
    /\ raced' = \E r \in Index(c.i) : r.time > c.t
    /\ Goto(p, Local("look", c.t, c.n, c.i + 1, 0))
    /\ Edit(p) /\ UNCHANGED <<queue, inserts, drift>>

(* dat_set_system_var(dat_fpl_queue, ...): who has read the count before   *)
(* has an old one.  A count of the whole table makes up for what was wrong *)
(* before, but for rows that no index reaches.                             *)
SetQueue(p) ==
    /\ call[p].pc = "write" /\ SemFree(p)
    /\ queue' = call[p].n
    /\ stale' = (stale \cup {q \in Callers \ {p} : Relative(q)}) \ {p}
    /\ drift' = (p \in stale \/ IF Whole(p) THEN \E r \in fp_table : r.rowid > Entries ELSE drift)
    /\ Goto(p, NoCall)
    /\ asked' = {} /\ raced' = FALSE
    /\ UNCHANGED <<fp_table, inserts>>

(* A restart at any moment: taskInit purges the plan before any task runs. *)
RestartSql(now) ==
    /\ call' = [p \in Callers |-> IF p = "init" THEN Local("look", now, 0, 0, 0) ELSE NoCall]
    /\ stale' = {}
    /\ NoEdit /\ UNCHANGED queue

--------------------------------------------------------------------------------
(* taskFlightPlan takes rows and puts periodic ones back; the executer     *)
(* runs the commands of cmdFP.c.                                           *)
Calls ==
    \E t \in RowTimes :
        \/ \E pc \in {"get", "set"} : Begin("fp", pc, t)
        \/ \E pc \in {"set", "del"} : Begin("executer", pc, t)
        \/ \E pc \in {"reset", "look"} : BeginWhole("executer", pc, t)

Steps ==
    \E p \in Callers :
        \/ dat_set_fp(p) \/ dat_get_fp(p) \/ dat_del_fp(p) \/ dat_reset_fp(p)
        \/ dat_purge_fp(p) \/ PurgeRow(p) \/ SetQueue(p)

SqlNext == Calls \/ Steps \/ \E t \in RowTimes : RestartSql(t)

SqlSpec == SqlInit /\ [][SqlNext]_sqlVars

--------------------------------------------------------------------------------
SqlTable == INSTANCE FpTable WITH
    rows <- {Row(r) : r \in fp_table}, spoilt <- raced, twice <- FALSE, Rows <- [time : RowTimes, id : 1 .. MaxInserts]

(* SQLite keeps the promise of the table, whoever calls at the same time:  *)
(* a row put replaces at most the row of its time, and every other         *)
(* operation drops what it is asked to; only a purge may drop a row put    *)
(* between its look at an index and its delete.                            *)
SqlIsTable == SqlTable!TableSpec

(* repoData.c:220-226, 237-252, 256-264, 281-297: tm_send_fp takes the     *)
(* count for the number of rows.  When no call is under way it is, through *)
(* restarts at any step and calls of two tasks in any order, unless since  *)
(* the last purge or reset a row was replaced or one was deleted that was  *)
(* not there, a count was written over one written since it was read, the  *)
(* table was edited under a purge or reset, or no index reached a row.     *)
Counted == call = [p \in Callers |-> NoCall] /\ ~drift => queue = Cardinality(fp_table)

================================================================================
