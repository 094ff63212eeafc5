------------------------------- MODULE FlightPlan -------------------------------
(***************************************************************************)
(* The flight plan: a table of commands to run at given times, kept in RAM *)
(* (storage_ram.c), the repository functions over it (repoData.c), the     *)
(* task that looks every second for an entry of that second                *)
(* (taskFlightPlan.c) and the ground commands that edit the table, which   *)
(* run in the executer (cmdFP.c).                                          *)
(*                                                                         *)
(* repo_data_sem covers each access to the table and each access to the    *)
(* status variable dat_fpl_queue, but not the two together: a repository   *)
(* function reads the count, then edits the table, then writes the count,  *)
(* in three steps between which the other task may run.  dat_get_fp reads  *)
(* an entry and deletes one in two steps under the semaphore; dat_purge_fp *)
(* takes no lock at all: each of its table accesses is a step, and may     *)
(* fall between those two.  An access to one slot is a step: that a copy   *)
(* of its strings may meet their release (fp_entry_copy, fp_entry_clear)   *)
(* is not modelled.                                                        *)
(***************************************************************************)
EXTENDS Integers, Sequences, FiniteSets

CONSTANTS Slots,       \* SCH_FP_MAX_ENTRIES, the size of the table
          MaxTime,     \* bound on the clock
          Ids,         \* the entries ground sends; the bound on how many
          Requests,    \* what ground asks for: [wait, executions, periodical]
          Deletes,     \* the times for which ground deletes an entry
          Operations   \* the ground commands in use

NoId == "none"

ASSUME FlightPlanAssumption ==
    /\ NoId \notin Ids
    /\ Slots \in Nat \ {0}
    /\ MaxTime \in Nat
    /\ Requests \subseteq [wait : Nat, executions : Nat, periodical : Nat]
    /\ Deletes \subseteq Nat
    /\ Operations \subseteq {"set", "delete", "reset", "purge"}

VARIABLES
    db,          \* flightplan_db: entry of each slot
    fpl_queue,   \* status variable dat_fpl_queue, "Flight plan queue length"
    fpl_last,    \* status variable dat_fpl_last
    now,         \* the clock
    served,      \* an iteration of the task began in this second
    pc,          \* pc["fp"]: the task, pc["cmd"]: the command in the executer
    entries,     \* entries[p]: the count p read
    row,         \* row[p]: the entry p inserts or took
    sec,         \* the task's elapsed_sec
    i, fp_entries, time_min,   \* locals of dat_purge_fp
    asked,       \* history: asked[d], the entry ground stored under d
    runs,        \* history: runs[d], the seconds in which d was sent to run
    removed,     \* history: entries taken away by a ground command
    seen         \* history: whether a ground command overlapped an iteration
                 \* of the task, the task missed a second, fp_reset was used

status == <<fpl_queue, fpl_last>>
purge == <<i, fp_entries, time_min>>
history == <<asked, runs, removed>>
vars == <<db, status, now, served, pc, entries, row, sec, purge, history,
          seen>>

Index == 0 .. Slots - 1
Procs == {"fp", "cmd"}
ST_FP_NULL == -1
Clear == [id |-> NoId, unixtime |-> ST_FP_NULL, executions |-> 0,
          periodical |-> 0, since |-> 0]

Init ==
    /\ db = [s \in Index |-> Clear]
    /\ fpl_queue = 0
    /\ fpl_last = 0
    /\ now = 0
    /\ served = TRUE
    /\ pc = [p \in Procs |-> "idle"]
    /\ entries = [p \in Procs |-> 0]
    /\ row = [p \in Procs |-> Clear]
    /\ sec = 0
    /\ i = 0 /\ fp_entries = 0 /\ time_min = 0
    /\ asked = [d \in Ids |-> Clear]
    /\ runs = [d \in Ids |-> <<>>]
    /\ removed = {}
    /\ seen = {}

Goto(p, step) == pc' = [pc EXCEPT ![p] = step]

(* A repository function returns to its caller, which goes on at step; the *)
(* locals that nobody reads any more are forgotten.                        *)
ReturnTo(p, step) ==
    /\ Goto(p, step)
    /\ entries' = [entries EXCEPT ![p] = 0]
    /\ row' = IF step = "idle" THEN [row EXCEPT ![p] = Clear] ELSE row
    /\ sec' = IF p = "fp" /\ step = "idle" THEN 0 ELSE sec

(* The task keeps repo_data_sem from reading an entry to deleting one: no  *)
(* other step that takes it may run, which is all of them but the purge's. *)
SemFree(p) == pc["fp"] = "take_delete" => p = "fp"

(* The first slot of the table whose entry is at time t: ST_FP_NULL finds  *)
(* the first free one.                                                     *)
SlotsAt(t) == {s \in Index : db[s].unixtime = t}
First(S) == CHOOSE s \in S : \A r \in S : s <= r

(* Seeded fault: the entry stays in the table. *)
DeleteRowKeeps(s) == UNCHANGED db

(* storage_flight_plan_delete_row_idx: the slot is free again. *)
DeleteRow(s) == db' = [db EXCEPT ![s] = Clear]

--------------------------------------------------------------------------------
(* dat_set_fp, run by process p on row[p]: read the count, store, count. *)

SetRead(p) ==
    /\ pc[p] = "set_read" /\ SemFree(p)
    /\ entries' = [entries EXCEPT ![p] = fpl_queue]
    /\ Goto(p, "set_store")
    /\ UNCHANGED <<db, status, now, served, row, sec, purge, history, seen>>

(* The caller goes on after a failed store: the task sends the command it  *)
(* took, a ground command returns CMD_ERROR.                               *)
AfterSet(p) == IF p = "fp" THEN "send" ELSE "idle"

SetStore(p) ==
    /\ pc[p] = "set_store" /\ SemFree(p)
    /\ \/ /\ SlotsAt(ST_FP_NULL) # {}
          /\ db' = [db EXCEPT ![First(SlotsAt(ST_FP_NULL))] = [row[p] EXCEPT !.since = now]]
          /\ asked' = IF p = "cmd" THEN [asked EXCEPT ![row[p].id] = row[p]] ELSE asked
          /\ Goto(p, "set_count")
          /\ UNCHANGED <<entries, row, sec>>
       \/ /\ SlotsAt(ST_FP_NULL) = {}
          /\ ReturnTo(p, AfterSet(p))
          /\ UNCHANGED <<db, asked>>
    /\ UNCHANGED <<status, now, served, purge, runs, removed, seen>>

SetCount(p) ==
    /\ pc[p] = "set_count" /\ SemFree(p)
    /\ fpl_queue' = entries[p] + 1
    /\ ReturnTo(p, AfterSet(p))
    /\ UNCHANGED <<db, fpl_last, now, served, purge, history, seen>>

--------------------------------------------------------------------------------
(* dat_get_fp (the task) reads the first entry of a second, then deletes   *)
(* the first entry of that second; dat_del_fp (a ground command) deletes.  *)

TakeRead(p) ==
    /\ pc[p] = "take_read" /\ SemFree(p)
    /\ entries' = [entries EXCEPT ![p] = fpl_queue]
    /\ Goto(p, IF p = "fp" THEN "take_entry" ELSE "take_delete")
    /\ UNCHANGED <<db, status, now, served, row, sec, purge, history, seen>>

(* storage_flight_plan_get_args: an entry of this second is copied. *)
TakeEntry ==
    LET hits == SlotsAt(row["fp"].unixtime) IN
    /\ pc["fp"] = "take_entry"
    /\ \/ /\ hits # {}
          /\ row' = [row EXCEPT !["fp"] = db[First(hits)]]
          /\ Goto("fp", "take_delete")
          /\ UNCHANGED <<entries, sec>>
       \/ /\ hits = {}
          /\ ReturnTo("fp", "idle")
    /\ UNCHANGED <<db, status, now, served, purge, history, seen>>

(* storage_flight_plan_delete_row: the first entry of the second, which is *)
(* another one if the purge has cleared the slot of the entry that was     *)
(* read.  If there is none the function fails and the task sends nothing.  *)
TakeDelete(p) ==
    LET hits == SlotsAt(row[p].unixtime) IN
    /\ pc[p] = "take_delete" /\ SemFree(p)
    /\ \/ /\ hits # {}
          /\ DeleteRow(First(hits))
          /\ removed' = IF p = "cmd" THEN removed \cup {db[First(hits)].id} ELSE removed
          /\ Goto(p, "take_count")
          /\ UNCHANGED <<entries, row, sec>>
       \/ /\ hits = {}
          /\ ReturnTo(p, "idle")
          /\ UNCHANGED <<db, removed>>
    /\ UNCHANGED <<status, now, served, purge, asked, runs, seen>>

(* Seeded fault: the last execution is not put back. *)
AfterTakeShort(p) ==
    IF p = "cmd" THEN "idle"
    ELSE IF row[p].periodical > 0 /\ row[p].executions > 2 THEN "again" ELSE "send"

AfterTake(p) ==
    IF p = "cmd" THEN "idle"
    ELSE IF row[p].periodical > 0 /\ row[p].executions > 1 THEN "again" ELSE "send"

(* Seeded fault: dat_del_fp does not write the count. *)
TakeCountMissing(p) ==
    /\ pc[p] = "take_count" /\ SemFree(p)
    /\ fpl_queue' = IF p = "fp" THEN entries[p] - 1 ELSE fpl_queue
    /\ fpl_last' = IF p = "fp" THEN sec ELSE fpl_last
    /\ ReturnTo(p, AfterTake(p))
    /\ UNCHANGED <<db, now, served, purge, history, seen>>

TakeCount(p) ==
    /\ pc[p] = "take_count" /\ SemFree(p)
    /\ fpl_queue' = entries[p] - 1
    /\ fpl_last' = IF p = "fp" THEN sec ELSE fpl_last
    /\ ReturnTo(p, AfterTake(p))
    /\ UNCHANGED <<db, now, served, purge, history, seen>>

--------------------------------------------------------------------------------
(* taskFlightPlan *)

(* What is seen by a process that begins while p may not be idle. *)
Overlap(p) == IF pc[p] = "idle" THEN seen ELSE seen \cup {"overlap"}

(* Seeded fault: the time is read before the delay. *)
TaskWakeStale ==
    /\ pc["fp"] = "idle"
    /\ now > 0
    /\ served' = TRUE
    /\ sec' = now - 1
    /\ row' = [row EXCEPT !["fp"] = [Clear EXCEPT !.unixtime = now - 1]]
    /\ Goto("fp", "take_read")
    /\ seen' = Overlap("cmd")
    /\ UNCHANGED <<db, status, now, entries, purge, history>>

(* osTaskDelayUntil returns; look for an entry of this very second.  Its   *)
(* period is a second less the part of a millisecond it cuts off, and its  *)
(* backlog is made up at once, so a second may see two iterations, and one *)
(* that the task was late for sees none.                                   *)
TaskWake ==
    /\ pc["fp"] = "idle"
    /\ served' = TRUE
    /\ sec' = now
    /\ row' = [row EXCEPT !["fp"] = [Clear EXCEPT !.unixtime = now]]
    /\ Goto("fp", "take_read")
    /\ seen' = Overlap("cmd")
    /\ UNCHANGED <<db, status, now, entries, purge, history>>

(* Seeded fault: the next execution counts from the current time. *)
NextTimeDrifts == now + row["fp"].periodical

NextTime == sec + row["fp"].periodical

(* A periodic entry is put back for its next execution. *)
TaskAgain ==
    /\ pc["fp"] = "again"
    /\ row' = [row EXCEPT !["fp"].unixtime = NextTime,
                          !["fp"].executions = @ - 1]
    /\ Goto("fp", "set_read")
    /\ UNCHANGED <<db, status, now, served, entries, sec, purge, history, seen>>

(* cmd_send; it may block while dispatcher_queue is full. *)
TaskSend ==
    /\ pc["fp"] = "send"
    /\ runs' = [runs EXCEPT ![row["fp"].id] = Append(@, sec)]
    /\ ReturnTo("fp", "idle")
    /\ UNCHANGED <<db, status, now, served, purge, asked, removed, seen>>

--------------------------------------------------------------------------------
(* The ground commands *)

CmdIdle(o) == pc["cmd"] = "idle" /\ o \in Operations

(* fp_set, fp_set_unix, fp_set_dt *)
FpSet(d, r) ==
    /\ CmdIdle("set")
    /\ asked[d] = Clear
    /\ row' = [row EXCEPT !["cmd"] =
                  [id |-> d, unixtime |-> now + r.wait, executions |-> r.executions,
                   periodical |-> r.periodical, since |-> 0]]
    /\ Goto("cmd", "set_read")
    /\ seen' = Overlap("fp")
    /\ UNCHANGED <<db, status, now, served, entries, sec, purge, history>>

(* fp_delete, fp_delete_unix *)
FpDelete(t) ==
    /\ CmdIdle("delete")
    /\ row' = [row EXCEPT !["cmd"] = [Clear EXCEPT !.unixtime = t]]
    /\ Goto("cmd", "take_read")
    /\ seen' = Overlap("fp")
    /\ UNCHANGED <<db, status, now, served, entries, sec, purge, history>>

(* storage_flight_plan_reset returns in the first turn of its loop: only   *)
(* the first slot is cleared.                                              *)
ResetTable == DeleteRow(0)

(* fp_reset *)
FpReset ==
    /\ CmdIdle("reset") /\ SemFree("cmd")
    /\ ResetTable
    /\ removed' = removed \cup {db[0].id}
    /\ Goto("cmd", "reset_count")
    /\ seen' = Overlap("fp") \cup {"reset"}
    /\ UNCHANGED <<status, now, served, entries, row, sec, purge, asked, runs>>

ResetCount ==
    /\ pc["cmd"] = "reset_count" /\ SemFree("cmd")
    /\ fpl_queue' = 0
    /\ Goto("cmd", "idle")
    /\ UNCHANGED <<db, fpl_last, now, served, entries, row, sec, purge, history, seen>>

(* fp_purge: dat_purge_fp *)
FpPurge ==
    /\ CmdIdle("purge")
    /\ i' = 0
    /\ fp_entries' = 0
    /\ time_min' = now + 1
    /\ Goto("cmd", "purge_read")
    /\ seen' = Overlap("fp")
    /\ UNCHANGED <<db, status, now, served, entries, row, sec, history>>

(* Seeded fault: the comparison with time_min is the wrong way round. *)
FutureInverted(e) == e.unixtime < time_min

(* The entry is still to come: it is counted and kept. *)
Future(e) == e.unixtime > time_min

PurgeRead ==
    /\ pc["cmd"] = "purge_read"
    /\ i < Slots
    /\ \/ /\ Future(db[i])
          /\ fp_entries' = fp_entries + 1
          /\ i' = i + 1
          /\ UNCHANGED pc
       \/ /\ ~Future(db[i])
          /\ db[i].unixtime # ST_FP_NULL
          /\ Goto("cmd", "purge_delete")
          /\ UNCHANGED <<fp_entries, i>>
       \/ /\ ~Future(db[i])
          /\ db[i].unixtime = ST_FP_NULL
          /\ i' = i + 1
          /\ UNCHANGED <<pc, fp_entries>>
    /\ UNCHANGED <<db, status, now, served, entries, row, sec, time_min, history, seen>>

(* Seeded fault: the index is advanced by the body and by the loop. *)
PurgeDeleteSkips ==
    /\ pc["cmd"] = "purge_delete"
    /\ DeleteRow(i)
    /\ removed' = removed \cup {db[i].id}
    /\ i' = i + 2
    /\ Goto("cmd", "purge_read")
    /\ UNCHANGED <<status, now, served, entries, row, sec, fp_entries, time_min,
                   asked, runs, seen>>

(* storage_flight_plan_delete_row_idx, on whatever is in the slot by now. *)
PurgeDelete ==
    /\ pc["cmd"] = "purge_delete"
    /\ DeleteRow(i)
    /\ removed' = removed \cup {db[i].id}
    /\ i' = i + 1
    /\ Goto("cmd", "purge_read")
    /\ UNCHANGED <<status, now, served, entries, row, sec, fp_entries, time_min,
                   asked, runs, seen>>

PurgeCount ==
    /\ pc["cmd"] = "purge_read" /\ SemFree("cmd")
    /\ i = Slots
    /\ fpl_queue' = fp_entries
    /\ Goto("cmd", "idle")
    /\ i' = 0 /\ fp_entries' = 0 /\ time_min' = 0
    /\ UNCHANGED <<db, fpl_last, now, served, entries, row, sec, history, seen>>

--------------------------------------------------------------------------------

Tick ==
    /\ now < MaxTime
    /\ now' = now + 1
    /\ served' = FALSE
    /\ seen' = IF served /\ pc["fp"] = "idle" THEN seen ELSE seen \cup {"missed"}
    /\ UNCHANGED <<db, status, pc, entries, row, sec, purge, history>>

Step(p) ==
    SetRead(p) \/ SetStore(p) \/ SetCount(p) \/ TakeRead(p) \/ TakeDelete(p) \/ TakeCount(p)

Next ==
    \/ \E p \in Procs : Step(p)
    \/ TaskWake \/ TakeEntry \/ TaskAgain \/ TaskSend
    \/ \E d \in Ids, r \in Requests : FpSet(d, r)
    \/ \E t \in Deletes : FpDelete(t)
    \/ FpReset \/ ResetCount
    \/ FpPurge \/ PurgeRead \/ PurgeDelete \/ PurgeCount
    \/ Tick

Spec == Init /\ [][Next]_vars

--------------------------------------------------------------------------------
(* Properties *)

Entry == [id : Ids \cup {NoId}, unixtime : Nat \cup {ST_FP_NULL}, executions : Nat,
          periodical : Nat, since : Nat]

Steps == {"idle", "set_read", "set_store", "set_count", "take_read", "take_entry",
          "take_delete", "take_count", "again", "send", "reset_count", "purge_read",
          "purge_delete"}

TypeOK ==
    /\ db \in [Index -> Entry]
    /\ fpl_queue \in Int
    /\ fpl_last \in Nat
    /\ now \in Nat
    /\ served \in BOOLEAN
    /\ pc \in [Procs -> Steps]
    /\ entries \in [Procs -> Int]
    /\ row \in [Procs -> Entry]
    /\ sec \in Nat
    /\ i \in 0 .. Slots
    /\ fp_entries \in 0 .. Slots
    /\ time_min \in Nat
    /\ asked \in [Ids -> Entry]
    /\ runs \in [Ids -> Seq(Nat)]
    /\ removed \subseteq Ids \cup {NoId}
    /\ seen \subseteq {"overlap", "missed", "reset"}

Holding(d) == {s \in Index : db[s].id = d}

(* How often an entry is still to be sent: once at least, and only once    *)
(* if it is not periodic.                                                  *)
Left(e) == IF e.periodical > 0 /\ e.executions > 1 THEN e.executions ELSE 1

(* How often ground asked for d. *)
AskedFor(d) == IF asked[d] = Clear THEN 0 ELSE Left(asked[d])

(* ... counting the entry d in the table, *)
TableLeft(d) == IF Holding(d) = {} THEN 0 ELSE Left(db[First(Holding(d))])

(* ... and in the hands of the task, which has a copy of the entry before  *)
(* it is out of the table.                                                 *)
HandLeft(d) ==
    CASE row["fp"].id # d -> 0
      [] row["fp"].id = d /\ pc["fp"] = "take_delete" ->
             IF Holding(d) = {} THEN Left(row["fp"]) ELSE 0
      [] row["fp"].id = d /\ pc["fp"] \in {"take_count", "again"} -> Left(row["fp"])
      [] row["fp"].id = d /\ pc["fp"] \in {"set_read", "set_store"} -> 1 + Left(row["fp"])
      [] row["fp"].id = d /\ pc["fp"] \in {"set_count", "send"} -> 1
      [] OTHER -> 0

(* taskFlightPlan.c:42-63, repoData.c:238-246: the semaphore is kept from  *)
(* reading an entry to deleting the first one of its second, and the purge *)
(* that runs in between without it only clears slots.  So however          *)
(* iterations of the task, clock ticks and ground commands interleave, an  *)
(* entry is in one slot at most and is never sent more often than ground   *)
(* asked: what is sent is not what stays in the table.                     *)
AtMostAsked ==
    \A d \in Ids :
        /\ \A s, r \in Holding(d) : s = r
        /\ Len(runs[d]) + TableLeft(d) + HandLeft(d) <= AskedFor(d)

(* docs/flightplan.md:27: "Commands only execute when the system time and  *)
(* their `time` values match": the k-th execution of an entry is sent in   *)
(* its own second, k - 1 periods after the first one, even when the task   *)
(* runs late.                                                              *)
ExactTimes ==
    \A d \in Ids : \A k \in 1 .. Len(runs[d]) :
        runs[d][k] = asked[d].unixtime + (k - 1) * asked[d].periodical

(* As long as the task missed no second, an entry stored before its        *)
(* second is executed in that second, unless another entry of the same     *)
(* second was (docs/flightplan.md:39: it is left as trash).                *)
OnTime ==
    served /\ pc["fp"] = "idle" /\ "missed" \notin seen =>
        \A s \in Index :
            db[s].unixtime \in 0 .. now =>
                \/ db[s].since >= db[s].unixtime
                \/ \E d \in Ids \ {db[s].id} : \E k \in 1 .. Len(runs[d]) :
                       runs[d][k] = db[s].unixtime

(* An entry is sent in its seconds, and in each of them that the task did  *)
(* not miss.                                                               *)
SentOnTime == ExactTimes /\ OnTime

Occupied == {s \in Index : db[s].unixtime # ST_FP_NULL}

(* repoDataSchema.h:70: dat_fpl_queue is the "Flight plan queue length":   *)
(* with nothing in progress it is the number of entries in the table, if   *)
(* no ground command has overlapped an iteration of the task (each reads   *)
(* the count before it changes the table and writes it after) and fp_reset *)
(* was not used.                                                           *)
CountExact ==
    (\A p \in Procs : pc[p] = "idle") /\ seen \subseteq {"missed"}
        => fpl_queue = Cardinality(Occupied)

(* The entry d was stored, is nowhere any more, and ground did not take it *)
(* away.                                                                   *)
Gone(d) ==
    asked[d] # Clear /\ d \notin removed /\ TableLeft(d) = 0 /\ HandLeft(d) = 0

(* docs/flightplan.md:32: a periodic entry stays in the plan "until it's   *)
(* removed by another command": it leaves only when it was sent as often   *)
(* as asked.                                                               *)
StaysInPlan ==
    \A d \in Ids : Gone(d) /\ asked[d].periodical > 0 => Len(runs[d]) = AskedFor(d)

(* The same, if no ground command has overlapped an iteration of the task. *)
PeriodicDelivered == "overlap" \notin seen => StaysInPlan

(* repoData.h:200: dat_purge_fp removes old entries; the entry it is about *)
(* to clear is one whose time has come, if no ground command has           *)
(* overlapped an iteration of the task (the purge takes no lock).          *)
PurgeOnlyOld ==
    pc["cmd"] = "purge_delete" /\ "overlap" \notin seen => db[i].unixtime <= time_min

(* What holds of the plan while no ground command overlaps an iteration of *)
(* the task: the count, the periodic entries and the purge.                *)
Undisturbed == CountExact /\ PeriodicDelivered /\ PurgeOnlyOld

================================================================================
