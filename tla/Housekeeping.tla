------------------------------ MODULE Housekeeping ------------------------------
(***************************************************************************)
(* The housekeeping task of the sample application and the commands on the *)
(* status variables.  The task counts seconds and sends a command each     *)
(* minute and each hour; the executer runs them, with those of the ground, *)
(* one after the other; the hours command reads and writes two variables.  *)
(* The satellite may restart between any two writes, and what is left of   *)
(* the variables depends on the storage of the build.                      *)
(***************************************************************************)
EXTENDS Integers, Sequences, FiniteSets

CONSTANTS Minute,      \* _1min_check
          Hour,        \* _1hour_check
          QueueLen,    \* length of the dispatcher queue
          Exact,       \* integers a float holds exactly, 2^24 in the code
          Given,       \* values the ground gives, in halves
          MaxElapsed,  \* bound on the seconds of a boot
          MaxOrders,   \* bound on the commands of the ground
          MaxStarts    \* bound on the boots

ASSUME HousekeepingAssumption ==
    /\ Minute \in Nat \ {0} /\ Hour \in Nat /\ Hour > 1 /\ QueueLen \in Nat \ {0}
    /\ Exact \in Nat /\ Given \subseteq Nat
    /\ MaxElapsed \in Nat /\ MaxOrders \in Nat /\ MaxStarts \in Nat

(* dat_status_list, as far as it matters here. *)
HrsAlive == 0
HrsWoReset == 1
ResetCounter == 2
Temp == 3
DateTime == 4
dat_status_list == <<
    [address |-> HrsAlive,     name |-> "obc_hrs_alive",     type |-> "u", value |-> 0],
    [address |-> HrsWoReset,   name |-> "obc_hrs_wo_reset",  type |-> "u", value |-> 0],
    [address |-> ResetCounter, name |-> "obc_reset_counter", type |-> "u", value |-> 0],
    [address |-> Temp,         name |-> "obc_temp_1",        type |-> "f", value |-> -1],
    [address |-> DateTime,     name |-> "rtc_date_time",     type |-> "d", value |-> -1] >>
Definitions == {dat_status_list[i] : i \in DOMAIN dat_status_list}
Addresses == {d.address : d \in Definitions}

VARIABLES
    store,    \* SCH_STORAGE_MODE: "ram", "flash" or "sqlite"
    verbose,  \* log_lvl > LOG_LVL_DEBUG
    row,      \* the value of each status variable that has one
    phase,    \* where the boot is: "repo", "hours", "resets", "run"
    elapsed_sec,  \* seconds counted by taskHousekeeping
    tosend,   \* commands it has still to send in this turn
    pending,  \* commands in the queues, oldest first
    doing,    \* the command in execution
    base,     \* history: what the hours are counted on
    orders, starts  \* commands of the ground, boots so far

houseVars == <<store, verbose, row, phase, elapsed_sec, tosend, pending, doing, base, orders, starts>>

Command(c) == [c |-> c, at |-> -1, v |-> 0]
Waiting == [cmd |-> Command("none"), pc |-> "idle", current |-> 0]

(* Flash keeps what was in it, a new database is empty. *)
HouseInit ==
    /\ store \in {"ram", "flash", "sqlite"} /\ verbose \in BOOLEAN
    /\ row = [x \in IF store = "sqlite" THEN {} ELSE Addresses |-> 0]
    /\ phase = "repo" /\ elapsed_sec = 1
    /\ tosend = <<>> /\ pending = <<>> /\ doing = Waiting
    /\ base = [x \in {HrsAlive, HrsWoReset} |-> 0]
    /\ orders = 0 /\ starts = 1

--------------------------------------------------------------------------------
(* Status variables *)

(* storage_status_get_value_idx: with no row the caller's variable keeps   *)
(* what was on the stack.                                                  *)
StatusRead(x) == IF x \in DOMAIN row THEN {row[x]} ELSE {0, 7}

(* storage_status_set_value_idx: INSERT OR REPLACE. *)
StatusWrite(x, v) ==
    row' = [y \in DOMAIN row \cup {x} |-> IF y = x THEN v ELSE row[y]]

(* The definition of an address or of a name, when the list has one; none  *)
(* is there twice.                                                         *)
dat_get_status_var_def(a) == {d \in Definitions : d.address = a}
dat_get_status_var_def_name(n) == {d \in Definitions : d.name = n}
Default(x) == (CHOOSE d \in dat_get_status_var_def(x) : TRUE).value

(* The nearest float of a value in halves: beyond Exact it is even, and of *)
(* two as near the multiple of four.                                       *)
ToFloat(h) ==
    IF h <= 2 * Exact THEN h
    ELSE LET even == (h \div 4) * 4
         IN IF h - even < 2 \/ (h - even = 2 /\ (even \div 4) % 2 = 0) THEN even ELSE even + 4

(* A float stays as it is, in halves; an integer loses its fraction. *)
Typed(type, h) == IF type = "f" THEN ToFloat(h) ELSE ToFloat(h) \div 2

--------------------------------------------------------------------------------
(* Boot *)

(* dat_repo_init: only in RAM the variables are set to their defaults. *)
dat_repo_init ==
    /\ phase = "repo"
    /\ row' = IF store = "ram"
              THEN [x \in Addresses |-> Default(x)] ELSE row
    /\ base' = [base EXCEPT ![HrsAlive] = IF store = "ram" THEN 0 ELSE @]
    /\ phase' = "hours"
    /\ UNCHANGED <<store, verbose, elapsed_sec, tosend, pending, doing, orders, starts>>

init_update_status_vars ==
    /\ \/ phase = "hours" /\ StatusWrite(HrsWoReset, 0) /\ phase' = "resets"
          /\ base' = [base EXCEPT ![HrsWoReset] = 0]
       \/ /\ phase = "resets" /\ phase' = "run" /\ UNCHANGED base
          /\ \E n \in StatusRead(ResetCounter) : StatusWrite(ResetCounter, n + 1)
    /\ UNCHANGED <<store, verbose, elapsed_sec, tosend, pending, doing, orders, starts>>

--------------------------------------------------------------------------------
(* The housekeeping task *)

(* One turn: the date, and the commands of this second. *)
taskHousekeeping ==
    /\ phase = "run" /\ tosend = <<>> /\ elapsed_sec < MaxElapsed
    /\ elapsed_sec' = elapsed_sec + 1
    /\ StatusWrite(DateTime, 1)
    /\ tosend' = (IF verbose THEN <<Command("obc_debug")>> ELSE <<>>)
              \o (IF elapsed_sec' % Minute = 0
                  THEN <<Command("obc_get_sensors"), Command("obc_update_status")>> ELSE <<>>)
              \o (IF elapsed_sec' % Hour = 0 THEN <<Command("drp_add_hrs_alive")>> ELSE <<>>)
    /\ UNCHANGED <<store, verbose, phase, pending, doing, base, orders, starts>>

(* cmd_send waits for room in the queue. *)
SendHousekeeping ==
    /\ tosend # <<>> /\ Len(pending) < QueueLen
    /\ pending' = Append(pending, Head(tosend))
    /\ tosend' = Tail(tosend)
    /\ UNCHANGED <<store, verbose, row, phase, elapsed_sec, doing, base, orders, starts>>

Orders ==
    [c : {"drp_set_var"}, at : {HrsAlive, Temp, Len(dat_status_list)}, v : Given]
    \cup [c : {"drp_set_var_name"}, at : {"obc_hrs_wo_reset", "no_such_var"}, v : Given]
    \cup {Command("drp_reset_status")}

GroundOrders(o) ==
    /\ phase = "run" /\ Len(pending) < QueueLen /\ orders < MaxOrders
    /\ pending' = Append(pending, o) /\ orders' = orders + 1
    /\ UNCHANGED <<store, verbose, row, phase, elapsed_sec, tosend, doing, base, starts>>

--------------------------------------------------------------------------------
(* The executer *)

HourCommands(s) == Cardinality({i \in DOMAIN s : s[i].c = "drp_add_hrs_alive"})

(* Hours not added to x yet: to be sent, queued, or in execution. *)
Outstanding(x) ==
    HourCommands(tosend) + HourCommands(pending)
    + (IF \/ doing.pc \in {"alive", "setAlive"}
          \/ x = HrsWoReset /\ doing.pc \in {"wo", "setWo"} THEN 1 ELSE 0)

(* The hours added to x in this boot. *)
HoursAdded(x) == elapsed_sec \div Hour - Outstanding(x)

Rebase(x, v) == base' = IF x \in DOMAIN base THEN [base EXCEPT ![x] = v] ELSE base

(* drp_update_sys_var_idx and drp_update_sys_var_name: a variable that is  *)
(* in the list gets the value in its type.                                 *)
SetVar(defs, h) ==
    \/ defs = {} /\ UNCHANGED <<row, base>>
    \/ \E d \in defs : /\ StatusWrite(d.address, Typed(d.type, h))
                      /\ Rebase(d.address, Typed(d.type, h) - HoursAdded(d.address))

drp_update_sys_var_idx(o) ==
    o.c = "drp_set_var" /\ SetVar(dat_get_status_var_def(o.at), o.v)

drp_update_sys_var_name(o) ==
    o.c = "drp_set_var_name" /\ SetVar(dat_get_status_var_def_name(o.at), o.v)

(* obc_update_status: the temperature, when it can be read. *)
obc_update_status(o) ==
    /\ o.c = "obc_update_status" /\ UNCHANGED base
    /\ StatusWrite(Temp, 2) \/ UNCHANGED row

(* obc_debug calls the cpu driver, obc_get_sensors adds a payload sample. *)
NoStatus(o) == o.c \in {"obc_debug", "obc_get_sensors"} /\ UNCHANGED <<row, base>>

(* The next command; the ones that write more than once go on below. *)
RunCommand ==
    /\ doing = Waiting /\ pending # <<>>
    /\ pending' = Tail(pending)
    /\ LET o == Head(pending) IN
       \/ /\ \/ drp_update_sys_var_idx(o) \/ drp_update_sys_var_name(o)
             \/ obc_update_status(o) \/ NoStatus(o)
          /\ UNCHANGED doing
       \/ /\ o.c = "drp_add_hrs_alive" /\ UNCHANGED <<row, base>>
          /\ doing' = [Waiting EXCEPT !.cmd = o, !.pc = "alive"]
       \/ /\ o.c = "drp_reset_status" /\ UNCHANGED <<row, base>>
          /\ doing' = [Waiting EXCEPT !.cmd = o, !.pc = "reset"]
    /\ UNCHANGED <<store, verbose, phase, elapsed_sec, tosend, orders, starts>>

(* Seeded fault: the second variable is not read before it is written. *)
drp_update_hours_alive_once ==
    /\ \/ /\ doing.pc = "alive" /\ UNCHANGED <<row, base>>
          /\ \E n \in StatusRead(HrsAlive) :
             doing' = [doing EXCEPT !.pc = "setAlive", !.current = n + 1]
       \/ /\ doing.pc = "setAlive"
          /\ StatusWrite(HrsAlive, doing.current)
          /\ IF HrsAlive \in DOMAIN row THEN UNCHANGED base
             ELSE Rebase(HrsAlive, doing.current - HoursAdded(HrsAlive) - 1)
          /\ doing' = [doing EXCEPT !.pc = "setWo", !.current = @ + 1]
       \/ /\ doing.pc = "setWo" /\ UNCHANGED base
          /\ StatusWrite(HrsWoReset, doing.current)
          /\ doing' = Waiting
    /\ UNCHANGED <<store, verbose, phase, elapsed_sec, tosend, pending, orders, starts>>

(* drp_update_hours_alive: the hours alive, then those without reset, each *)
(* read and written.                                                       *)
drp_update_hours_alive ==
    /\ \/ /\ doing.pc = "alive" /\ UNCHANGED <<row, base>>
          /\ \E n \in StatusRead(HrsAlive) :
             doing' = [doing EXCEPT !.pc = "setAlive", !.current = n + 1]
       \/ /\ doing.pc = "setAlive"
          /\ StatusWrite(HrsAlive, doing.current)
          /\ IF HrsAlive \in DOMAIN row THEN UNCHANGED base
             ELSE Rebase(HrsAlive, doing.current - HoursAdded(HrsAlive) - 1)
          /\ doing' = [doing EXCEPT !.pc = "wo"]
       \/ /\ doing.pc = "wo" /\ UNCHANGED <<row, base>>
          /\ \E n \in StatusRead(HrsWoReset) :
             doing' = [doing EXCEPT !.pc = "setWo", !.current = n + 1]
       \/ /\ doing.pc = "setWo" /\ UNCHANGED base
          /\ StatusWrite(HrsWoReset, doing.current)
          /\ doing' = Waiting
    /\ UNCHANGED <<store, verbose, phase, elapsed_sec, tosend, pending, orders, starts>>

(* drp_reset_status: the variables one after the other. *)
drp_reset_status ==
    /\ doing.pc = "reset"
    /\ LET x == doing.current IN
       /\ StatusWrite(x, Default(x))
       /\ Rebase(x, Default(x) - HoursAdded(x))
       /\ doing' = IF x + 1 \in Addresses THEN [doing EXCEPT !.current = x + 1] ELSE Waiting
    /\ UNCHANGED <<store, verbose, phase, elapsed_sec, tosend, pending, orders, starts>>

(* The hours of a boot that were added stay; the others are lost. *)
RestartHouse ==
    /\ starts < MaxStarts /\ starts' = starts + 1
    /\ base' = [x \in DOMAIN base |-> base[x] + HoursAdded(x)]
    /\ phase' = "repo" /\ elapsed_sec' = 1
    /\ tosend' = <<>> /\ pending' = <<>> /\ doing' = Waiting
    /\ UNCHANGED <<store, verbose, row, orders>>

HouseNext ==
    \/ dat_repo_init \/ init_update_status_vars
    \/ taskHousekeeping \/ SendHousekeeping \/ \E o \in Orders : GroundOrders(o)
    \/ RunCommand \/ drp_update_hours_alive \/ drp_reset_status \/ RestartHouse

HouseSpec == HouseInit /\ [][HouseNext]_houseVars

--------------------------------------------------------------------------------
(* taskHousekeeping.c:63-67, cmdDRP.c:242-274: every full hour the task    *)
(* counted is in obc_hrs_alive once and in obc_hrs_wo_reset once, but for  *)
(* those still on their way, whatever the ground sets or resets meanwhile  *)
(* and wherever a restart cuts the two updates; a restart loses only hours *)
(* that were on their way, and starts the second counter again.            *)
HoursExact ==
    phase = "run" => \A x \in DOMAIN base \cap DOMAIN row : row[x] = base[x] + HoursAdded(x)

================================================================================
