-------------------------------- MODULE Sensors --------------------------------
(***************************************************************************)
(* The sampling state machine of the SUCHAI application.  taskSensors      *)
(* wakes every second, applies the action ground asked for, takes a round  *)
(* of samples every `step' seconds and saves the machine in the status     *)
(* repository, field by field.  The commands sen_set_machine and           *)
(* sen_activate run in the executer and change the same machine under      *)
(* repo_machine_sem; taskSensors reads it without that lock.  A reboot may *)
(* come at any step and leaves only the saved fields.                      *)
(***************************************************************************)
EXTENDS Integers, Sequences

CONSTANTS DefaultStep,  \* sampling period of the default machine, 5
          Sensors,      \* 0 .. nsensors - 1; the bit mask is a set of sensors
          Steps,        \* sampling periods ground may ask for, in seconds
          Samples,      \* numbers of samples ground may ask for, besides -1
          Period,       \* the seconds are counted modulo a common multiple
          MaxSets,      \* bound on the sen_set_machine commands
          MaxActivates, \* bound on the sen_activate commands
          MaxReboots    \* bound on the reboots

ASSUME SensorsAssumption ==
    /\ DefaultStep \in Nat \ {0} /\ Steps \subseteq Nat \ {0}
    /\ Samples \subseteq Nat
    /\ Period \in Nat \ {0} /\ \A s \in Steps \cup {DefaultStep} : Period % s = 0
    /\ MaxSets \in Nat /\ MaxActivates \in Nat /\ MaxReboots \in Nat

VARIABLES
    machine,  \* status_machine
    sem,      \* who holds repo_machine_sem across steps
    tpc,      \* what taskSensors does next, and on which field
    elapsed,  \* its elapsed_sec
    copy,     \* its locals, copied before they are saved
    saved,    \* the five dat_drp_mach_* status variables
    bounds,   \* commands and reboots so far
    ask       \* history: the last accepted sen_set_machine

sensorsVars == <<machine, sem, tpc, elapsed, copy, saved, bounds, ask>>

Fields == <<"action", "state", "step", "payloads", "left">>
Actions == {"PAUSE", "START", "STAND_BY"}
None == [f \in {} |-> 0]   \* no field copied or saved yet
Free == <<>>

(* Fields r with field f set to v. *)
SetField(r, f, v) == [g \in DOMAIN r \cup {f} |-> IF g = f THEN v ELSE r[g]]

(* The machine on boot: the saved one, or the default when a field was     *)
(* never saved and reads -1.                                               *)
Restored ==
    IF {"action", "state", "payloads", "step"} \subseteq DOMAIN saved
    THEN [f \in DOMAIN saved \cup {"left"} |-> IF f \in DOMAIN saved THEN saved[f] ELSE -1]
    ELSE [action |-> "START", state |-> "PAUSE", step |-> DefaultStep, payloads |-> {}, left |-> -1]

SensorsInit ==
    /\ saved = None
    /\ machine = Restored
    /\ sem = Free /\ tpc = <<"wake", 0>>
    /\ elapsed = 0 /\ copy = None
    /\ bounds = [sets |-> 0, activates |-> 0, reboots |-> 0]
    /\ ask = [limit |-> -1, taken |-> 0, crossed |-> FALSE, save |-> "no", start |-> FALSE]

--------------------------------------------------------------------------------
(* taskSensors *)

(* Seeded fault: the START action is not applied. *)
ApplyDropped ==
    /\ tpc[1] = "wake"
    /\ machine.action = "STAND_BY" \/ sem = Free
    /\ machine' = IF machine.action = "PAUSE"
                  THEN [machine EXCEPT !.state = "PAUSE", !.action = "STAND_BY"]
                  ELSE machine
    /\ tpc' = <<"left", 0>>
    /\ UNCHANGED <<sem, elapsed, copy, saved, bounds, ask>>

(* Apply action. *)
Apply ==
    /\ tpc[1] = "wake"
    /\ machine.action = "STAND_BY" \/ sem = Free
    /\ machine' = CASE machine.action = "START" ->
                            [machine EXCEPT !.state = "SAMPLING", !.action = "STAND_BY"]
                    [] machine.action = "PAUSE" ->
                            [machine EXCEPT !.state = "PAUSE", !.action = "STAND_BY"]
                    [] OTHER -> machine
    /\ ask' = [ask EXCEPT !.start = @ /\ machine.action # "START"]
    /\ tpc' = <<"left", 0>>
    /\ UNCHANGED <<sem, elapsed, copy, saved, bounds>>

(* Check the state and the samples left, without the lock. *)
CheckLeft ==
    /\ tpc[1] = "left"
    /\ tpc' = CASE machine.state # "SAMPLING" -> <<"copy", 1>>
                [] machine.left = 0           -> <<"close", 0>>
                [] OTHER                      -> <<"step", 0>>
    /\ UNCHANGED <<machine, sem, elapsed, copy, saved, bounds, ask>>

(* No samples left: pause, and stand by whatever was asked meanwhile. *)
Close ==
    /\ tpc[1] = "close"
    /\ sem = Free
    /\ machine' = [machine EXCEPT !.state = "PAUSE", !.action = "STAND_BY"]
    /\ tpc' = <<"copy", 1>>
    /\ UNCHANGED <<sem, elapsed, copy, saved, bounds, ask>>

(* The history counts the rounds of a request, up to a few too many. *)
Counted == sem = Free /\ ask.limit >= 0 /\ ask.taken < ask.limit + MaxReboots + 2

(* Check for step; a round sends sen_take_sample for the active sensors. *)
CheckStep ==
    /\ tpc[1] = "step"
    /\ IF elapsed % machine.step = 0
       THEN /\ tpc' = <<"count", 0>>
            /\ ask' = [ask EXCEPT !.crossed = @ \/ sem # Free,
                                  !.taken = IF Counted THEN @ + 1 ELSE @]
       ELSE /\ tpc' = <<"copy", 1>>
            /\ UNCHANGED ask
    /\ UNCHANGED <<machine, sem, elapsed, copy, saved, bounds>>

CheckCount ==
    /\ tpc[1] = "count"
    /\ tpc' = IF machine.left # -1 THEN <<"decrement", 0>> ELSE <<"copy", 1>>
    /\ UNCHANGED <<machine, sem, elapsed, copy, saved, bounds, ask>>

(* Seeded fault: the decrement is skipped. *)
DecrementSkipped ==
    /\ tpc[1] = "decrement"
    /\ sem = Free
    /\ tpc' = <<"copy", 1>>
    /\ UNCHANGED <<machine, sem, elapsed, copy, saved, bounds, ask>>

(* A count below -1 is never 0 or -1 again and is kept at -2. *)
Decrement ==
    /\ tpc[1] = "decrement"
    /\ sem = Free
    /\ machine' = [machine EXCEPT !.left = IF @ = -2 THEN -2 ELSE @ - 1]
    /\ tpc' = <<"copy", 1>>
    /\ UNCHANGED <<sem, elapsed, copy, saved, bounds, ask>>

(* The fields are copied one by one, without the lock. *)
CopyField ==
    /\ tpc[1] = "copy"
    /\ LET i == tpc[2] f == Fields[i] IN
        /\ copy' = SetField(copy, f, machine[f])
        /\ tpc' = IF i = Len(Fields) THEN <<"save", 1>> ELSE <<"copy", i + 1>>
        /\ ask' = [ask EXCEPT !.save = IF f = "left" /\ sem = Free /\ @ = "no"
                                       THEN "copied" ELSE @]
    /\ UNCHANGED <<machine, sem, elapsed, saved, bounds>>

(* dat_set_system_var, once per field; the second is over after the last. *)
SaveField ==
    /\ tpc[1] = "save"
    /\ LET i == tpc[2] f == Fields[i] IN
        /\ saved' = SetField(saved, f, copy[f])
        /\ tpc' = IF i = Len(Fields) THEN <<"wake", 0>> ELSE <<"save", i + 1>>
        /\ elapsed' = IF i = Len(Fields) THEN (elapsed + 1) % Period ELSE elapsed
        /\ copy' = IF i = Len(Fields) THEN None ELSE copy
        /\ ask' = [ask EXCEPT !.save = IF f = "left" /\ @ = "copied" THEN "yes" ELSE @]
    /\ UNCHANGED <<machine, sem, bounds>>

--------------------------------------------------------------------------------
(* Commands, in the executer *)

(* set_state, dat_set_stmachine_state: the fields are written under the    *)
(* lock, in two steps so that taskSensors may read in between.  Values out *)
(* of range are refused and change nothing.                                *)
set_state(a, s, n) ==
    /\ sem = Free
    /\ bounds.sets < MaxSets
    /\ a \in Actions /\ s > 0 /\ n > -2
    /\ sem' = <<n>>
    /\ machine' = [machine EXCEPT !.action = a, !.step = s]
    /\ bounds' = [bounds EXCEPT !.sets = @ + 1]
    /\ ask' = [limit |-> n, taken |-> 0, save |-> "no",
               crossed |-> tpc[1] \in {"step", "count", "decrement"},
               start |-> a = "START" /\ n # 0 /\ tpc[1] # "close"]
    /\ UNCHANGED <<tpc, elapsed, copy, saved>>

set_state_end ==
    /\ sem # Free
    /\ machine' = [machine EXCEPT !.left = sem[1]]
    /\ sem' = Free
    /\ ask' = [ask EXCEPT !.crossed = @ \/ tpc[1] \in {"step", "count", "decrement"},
                          !.start = @ /\ tpc[1] # "close"]
    /\ UNCHANGED <<tpc, elapsed, copy, saved, bounds>>

dat_stmachine_is_sensor_active(i) == i \in machine.payloads

(* activate_sensor: all or none, or one sensor that is not so already. *)
activate_sensor(S, on) ==
    /\ sem = Free
    /\ bounds.activates < MaxActivates
    /\ S = Sensors \/ \A i \in S : dat_stmachine_is_sensor_active(i) # on
    /\ machine' = [machine EXCEPT !.payloads = IF on THEN @ \cup S ELSE @ \ S]
    /\ bounds' = [bounds EXCEPT !.activates = @ + 1]
    /\ UNCHANGED <<sem, tpc, elapsed, copy, saved, ask>>

--------------------------------------------------------------------------------
(* A reboot; the request that is not saved yet is lost. *)
SensorsReboot ==
    /\ bounds.reboots < MaxReboots
    /\ bounds' = [bounds EXCEPT !.reboots = @ + 1]
    /\ machine' = Restored
    /\ sem' = Free /\ tpc' = <<"wake", 0>> /\ elapsed' = 0 /\ copy' = None
    /\ ask' = [ask EXCEPT !.crossed = @ \/ ask.save # "yes", !.start = FALSE]
    /\ UNCHANGED saved

TaskSensors ==
    \/ Apply \/ CheckLeft \/ Close \/ CheckStep \/ CheckCount \/ Decrement
    \/ CopyField \/ SaveField

SensorsNext ==
    \/ TaskSensors
    \/ \E a \in Actions, s \in Steps, n \in Samples \cup {-1} : set_state(a, s, n)
    \/ set_state_end
    \/ \E S \in {Sensors} \cup {{i} : i \in Sensors}, on \in BOOLEAN : activate_sensor(S, on)
    \/ SensorsReboot

SensorsSpec == SensorsInit /\ [][SensorsNext]_sensorsVars

--------------------------------------------------------------------------------
(* dat_set_stmachine_state promises at most nsamples rounds.  Each reboot   *)
(* may repeat one round, the one whose count was not saved.  This is what  *)
(* the code keeps when ground's command does not land in the middle of a   *)
(* round and is saved before a reboot.                                     *)
SamplesBudget ==
    ask.limit >= 0 /\ ~ask.crossed => ask.taken <= ask.limit + bounds.reboots

(* A START of some samples that is accepted, and does not land between the *)
(* test of the samples left and the pause that follows it, is applied,     *)
(* unless ground asks for something else or the computer reboots.          *)
StartServed == ask.start ~> ~ask.start

================================================================================
