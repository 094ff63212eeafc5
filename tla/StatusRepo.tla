------------------------------- MODULE StatusRepo -------------------------------
(***************************************************************************)
(* The status variables of the data repository (repoData.c) and the table  *)
(* that stores them.  With SCH_STORAGE_TRIPLE_WR each variable is stored   *)
(* three times, the copies dat_status_last_address cells apart; a read     *)
(* loads the three copies and takes a vote.  repo_data_sem is held over    *)
(* the stores of a write and over the loads of a read.                     *)
(*                                                                         *)
(* What triple writing is for (docs/tripled_writing_report.md) is the      *)
(* damage that happens by itself: a cell is corrupted at any time, and the *)
(* power may fail between two stores of a write.                           *)
(***************************************************************************)
EXTENDS Integers, FiniteSets

CONSTANTS Tasks,        \* the tasks that use the repository
          NoTask,       \* repo_data_sem is free
          Values,       \* the values of a status variable
          DefaultOf(_), \* the value of a variable in dat_status_list
          LastAddress,  \* dat_status_last_address, the distance a write uses
          LastVar,      \* dat_status_last_var, the distance a read uses
          Copies,       \* status_copies: 3, or 1 without triple writing
          Survives,     \* whether the table survives a restart: {TRUE} in flash
                        \* or a database, {FALSE} in RAM (SCH_STORAGE_MODE)
          MaxDamage     \* bound on the cells that are corrupted at a time

Vars == 0 .. LastAddress - 1
Cells == 0 .. Copies * LastVar - 1
CopyNumbers == 0 .. Copies - 1

ASSUME StatusAssumption ==
    /\ NoTask \notin Tasks
    /\ LastAddress \in Nat \ {0}
    /\ LastVar = LastAddress
    /\ Copies \in {1, 3}
    /\ Survives \subseteq BOOLEAN
    /\ MaxDamage \in Nat
    /\ \A x \in Vars : DefaultOf(x) \in Values

VARIABLES
    table,      \* status_db
    sem,        \* the holder of repo_data_sem
    pc,         \* pc[t]: where in a repository function t is
    whole,      \* whole[t]: t is inside dat_reset_status_vars
    idx, val,   \* idx[t], val[t]: the variable t accesses, the value it writes
    k,          \* k[t]: the next copy to store or to load
    loaded,     \* loaded[t]: value_1, value_2, value_3
    committed,  \* history: the value last written completely
    torn,       \* history: values of writes that a power failure cut short
    bad         \* history: cells corrupted since they were last stored

locals == <<pc, whole, idx, val, k, loaded>>
history == <<committed, torn, bad>>
vars == <<table, sem, locals, history>>

Blank == [c \in CopyNumbers |-> DefaultOf(0)]

(* A repository function returns to its caller; its locals are gone. *)
Return(t) ==
    /\ pc' = [pc EXCEPT ![t] = "idle"]
    /\ whole' = [whole EXCEPT ![t] = FALSE]
    /\ idx' = [idx EXCEPT ![t] = 0]
    /\ val' = [val EXCEPT ![t] = DefaultOf(0)]
    /\ k' = [k EXCEPT ![t] = 0]
    /\ loaded' = [loaded EXCEPT ![t] = Blank]

Init ==
    /\ table = [a \in Cells |-> DefaultOf(a % LastVar)]
    /\ sem = NoTask
    /\ pc = [t \in Tasks |-> "idle"]
    /\ whole = [t \in Tasks |-> FALSE]
    /\ idx = [t \in Tasks |-> 0]
    /\ val = [t \in Tasks |-> DefaultOf(0)]
    /\ k = [t \in Tasks |-> 0]
    /\ loaded = [t \in Tasks |-> Blank]
    /\ committed = [x \in Vars |-> DefaultOf(x)]
    /\ torn = [x \in Vars |-> {}]
    /\ bad = {}

(* Seeded fault: the copies of a variable are written side by side. *)
StoreCellPacked(x, c) == x * Copies + c

(* The cell of copy c of variable x, as a write and as a read compute it. *)
StoreCell(x, c) == x + c * LastAddress
LoadCell(x, c) == x + c * LastVar

--------------------------------------------------------------------------------
(* dat_set_status_var and dat_reset_status_vars *)

SetStatusVar(t, x, v) ==
    /\ pc[t] = "idle"
    /\ pc' = [pc EXCEPT ![t] = "set"]
    /\ idx' = [idx EXCEPT ![t] = x]
    /\ val' = [val EXCEPT ![t] = v]
    /\ UNCHANGED <<table, sem, whole, k, loaded, history>>

ResetStatusVars(t) ==
    /\ pc[t] = "idle"
    /\ pc' = [pc EXCEPT ![t] = "set"]
    /\ whole' = [whole EXCEPT ![t] = TRUE]
    /\ idx' = [idx EXCEPT ![t] = 0]
    /\ val' = [val EXCEPT ![t] = DefaultOf(0)]
    /\ UNCHANGED <<table, sem, k, loaded, history>>

Take(t) ==
    /\ pc[t] \in {"set", "get"}
    /\ sem = NoTask
    /\ sem' = t
    /\ pc' = [pc EXCEPT ![t] = IF pc[t] = "set" THEN "store" ELSE "load"]
    /\ UNCHANGED <<table, whole, idx, val, k, loaded, history>>

Store(t) ==
    /\ pc[t] = "store"
    /\ k[t] < Copies
    /\ table' = [table EXCEPT ![StoreCell(idx[t], k[t])] = val[t]]
    /\ bad' = bad \ {StoreCell(idx[t], k[t])}
    /\ k' = [k EXCEPT ![t] = @ + 1]
    /\ UNCHANGED <<sem, pc, whole, idx, val, loaded, committed, torn>>

(* Seeded fault: the loop over the variables goes one too far. *)
MoreToResetPast(t) == whole[t] /\ idx[t] < LastAddress

MoreToReset(t) == whole[t] /\ idx[t] + 1 < LastAddress

(* The last copy is stored: give the semaphore and return, or go on to the *)
(* next variable of dat_reset_status_vars.                                 *)
SetDone(t) ==
    /\ pc[t] = "store"
    /\ k[t] = Copies
    /\ sem' = NoTask
    /\ committed' = [committed EXCEPT ![idx[t]] = val[t]]
    /\ torn' = [torn EXCEPT ![idx[t]] = {}]
    /\ \/ /\ MoreToReset(t)
          /\ pc' = [pc EXCEPT ![t] = "set"]
          /\ idx' = [idx EXCEPT ![t] = idx[t] + 1]
          /\ val' = [val EXCEPT ![t] = DefaultOf(idx[t] + 1)]
          /\ k' = [k EXCEPT ![t] = 0]
          /\ UNCHANGED <<whole, loaded>>
       \/ /\ ~MoreToReset(t)
          /\ Return(t)
    /\ UNCHANGED <<table, bad>>

--------------------------------------------------------------------------------
(* dat_get_status_var *)

GetStatusVar(t, x) ==
    /\ pc[t] = "idle"
    /\ pc' = [pc EXCEPT ![t] = "get"]
    /\ idx' = [idx EXCEPT ![t] = x]
    /\ UNCHANGED <<table, sem, whole, val, k, loaded, history>>

Load(t) ==
    /\ pc[t] = "load"
    /\ k[t] < Copies
    /\ loaded' = [loaded EXCEPT ![t][k[t]] = table[LoadCell(idx[t], k[t])]]
    /\ k' = [k EXCEPT ![t] = @ + 1]
    /\ UNCHANGED <<table, sem, pc, whole, idx, val, history>>

(* Seeded fault: the second copy is not compared with the third. *)
VoteFirst(v) == v[0]

(* value_1 unless the other two agree against it. *)
Vote(v) ==
    IF Copies = 1 \/ v[0] = v[1] \/ v[0] = v[2] THEN v[0]
    ELSE IF v[1] = v[2] THEN v[1]
    ELSE v[0]

(* The copies are loaded: give the semaphore; Vote(loaded[t]) is returned. *)
GetDone(t) ==
    /\ pc[t] = "load"
    /\ k[t] = Copies
    /\ sem' = NoTask
    /\ Return(t)
    /\ UNCHANGED <<table, history>>

--------------------------------------------------------------------------------
(* What happens by itself *)

(* A cell is corrupted. *)
Corrupt(a, v) ==
    /\ Cardinality(bad \cup {a}) <= MaxDamage
    /\ v # table[a]
    /\ table' = [table EXCEPT ![a] = v]
    /\ bad' = bad \cup {a}
    /\ UNCHANGED <<sem, locals, committed, torn>>

(* The variables whose write is between its first and its last store. *)
InWrite(x) == {t \in Tasks : pc[t] = "store" /\ idx[t] = x /\ k[t] > 0}

(* The table is still there, with what writes cut short left behind. *)
KeepTable ==
    /\ TRUE \in Survives
    /\ torn' = [x \in Vars |-> torn[x] \cup {val[t] : t \in InWrite(x)}]
    /\ UNCHANGED <<table, committed, bad>>

(* The table is allocated again, and dat_repo_init resets it. *)
LoseTable ==
    /\ FALSE \in Survives
    /\ table' = [a \in Cells |-> DefaultOf(a % LastVar)]
    /\ committed' = [x \in Vars |-> DefaultOf(x)]
    /\ torn' = [x \in Vars |-> {}]
    /\ bad' = {}

(* The power fails and the system boots: every task starts over. *)
Restart ==
    /\ sem' = NoTask
    /\ pc' = [t \in Tasks |-> "idle"]
    /\ whole' = [t \in Tasks |-> FALSE]
    /\ idx' = [t \in Tasks |-> 0]
    /\ val' = [t \in Tasks |-> DefaultOf(0)]
    /\ k' = [t \in Tasks |-> 0]
    /\ loaded' = [t \in Tasks |-> Blank]
    /\ KeepTable \/ LoseTable

Step(t) ==
    \/ \E x \in Vars, v \in Values : SetStatusVar(t, x, v)
    \/ ResetStatusVars(t)
    \/ \E x \in Vars : GetStatusVar(t, x)
    \/ Take(t) \/ Store(t) \/ SetDone(t) \/ Load(t) \/ GetDone(t)

Next ==
    \/ \E t \in Tasks : Step(t)
    \/ \E a \in Cells, v \in Values : Corrupt(a, v)
    \/ Restart

Spec == Init /\ [][Next]_vars

--------------------------------------------------------------------------------
(* Properties *)

TypeOK ==
    /\ table \in [Cells -> Values]
    /\ sem \in Tasks \cup {NoTask}
    /\ pc \in [Tasks -> {"idle", "set", "store", "get", "load"}]
    /\ whole \in [Tasks -> BOOLEAN]
    /\ idx \in [Tasks -> Vars]
    /\ val \in [Tasks -> Values]
    /\ k \in [Tasks -> 0 .. Copies]
    /\ loaded \in [Tasks -> [CopyNumbers -> Values]]
    /\ committed \in [Vars -> Values]
    /\ torn \in [Vars -> SUBSET Values]
    /\ bad \in SUBSET Cells

(* Nothing but the copies already stored by a write in progress may differ *)
(* from the value written last, in a cell that is not corrupted and on a   *)
(* variable whose last write was not cut short.                            *)
Intact(x, c) ==
    LoadCell(x, c) \in bad
        \/ table[LoadCell(x, c)] \in {committed[x]} \cup torn[x]
        \/ \E t \in InWrite(x) : c < k[t] /\ table[LoadCell(x, c)] = val[t]

(* repoData.c:135-153, 32-51: the stores of one variable never land in the *)
(* copies of another, whatever writes, resets, power failures and          *)
(* corruptions came before: every sound cell that a read of a variable     *)
(* will load holds a value of that variable.                               *)
CopiesIntact == \A x \in Vars, c \in CopyNumbers : Intact(x, c)

(* The copies of x that are corrupted. *)
Damage(x) == {c \in CopyNumbers : LoadCell(x, c) \in bad}

(* The damage that a read of x has to mask. *)
Tolerated(x) ==
    IF Copies = 3 /\ torn[x] = {} THEN \A c, d \in Damage(x) : c = d ELSE Damage(x) = {}

(* docs/tripled_writing_report.md, "the third replica act as a tie         *)
(* breaker": with triple writing, a read returns the value last written    *)
(* although one copy was corrupted, before or while it is read; and with   *)
(* no corrupted copy, a write that a power failure cut short is read       *)
(* either as done or as not done, never as anything else.                  *)
ReadsMasked ==
    \A t \in Tasks :
        pc[t] = "load" /\ k[t] = Copies /\ Tolerated(idx[t])
            => Vote(loaded[t]) \in {committed[idx[t]]} \cup torn[idx[t]]

================================================================================
