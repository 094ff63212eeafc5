------------------------------ MODULE Interstages ------------------------------
(***************************************************************************)
(* The antenna release boards (interstages) on the GSSB bus, and the       *)
(* commands of cmdGSSB.c and cmdRW.c that drive them.  A handler is the    *)
(* script of device calls it makes: they run in order, and a call that     *)
(* fails ends the handler with CMD_ERROR, unless its name ends in "?" and  *)
(* the code ignores its result.  A call may fail after it had its effect.  *)
(* All handlers run in the executer, one at a time; the boards release     *)
(* their antennas meanwhile.  cmd_gssb_init registers the handlers; the    *)
(* ones it does not register cannot run.                                   *)
(***************************************************************************)
EXTENDS Integers, Sequences, FiniteSets

CONSTANTS Stages,      \* the interstages gssb_update_status polls, by address
          Spare,       \* another bus address, and the one selected on boot
          MaxHandlers  \* bound on the commands executed

ASSUME InterstagesAssumption ==
    /\ Stages \subseteq Nat /\ IsFiniteSet(Stages) /\ Spare \notin Stages
    /\ MaxHandlers \in Nat

VARIABLES
    board,     \* the boards: address, lock, settings, arming, burn, release
    powered,   \* the supply of the bus
    i2c_addr,  \* the selected address
    run,       \* the handler that runs: its script, what it reads and counts
    deployed,  \* status variable dat_dep_ant_deployed
    handled,   \* commands executed
    notes      \* history: why a board was left unlocked, and how many
               \* antennas were out when the last count began

stagesVars == <<board, powered, i2c_addr, run, deployed, handled, notes>>

Idle == [name |-> "idle"]

StagesInit ==
    /\ board = [d \in Stages |-> [addr |-> d, locked |-> TRUE, set |-> "old",
                                  armed |-> FALSE, burning |-> FALSE, released |-> FALSE]]
    /\ powered = TRUE
    /\ i2c_addr = Spare
    /\ run = Idle
    /\ deployed = 0
    /\ handled = 0
    /\ notes = [why |-> [d \in Stages |-> "locked"], low |-> 0]

--------------------------------------------------------------------------------
(* Scripts of the handlers *)

gssb_pwr == <<"power?">>
gssb_select_addr == <<"select?">>
gssb_bus_scan == <<"scan?">>
gssb_read_sunsensor == <<"sample", "read">>
gssb_get_temp == <<"sample", "read">>
gssb_sunsensor_conf == <<"write">>
gssb_sunsensor_conf_save == <<"write">>
gssb_set_i2c_addr == <<"readdress?", "uuid", "follow?">>
gssb_commit_i2c_addr == <<"write">>
gssb_get_version == <<"read">>
gssb_get_uuid == <<"read">>
gssb_get_model == <<"read">>
gssb_interstage_temp == <<"read">>
gssb_msp_outside_temp == <<"read">>
gssb_msp_outside_temp_calibrate == <<"range", "write">>
gssb_internal_temp == <<"read">>
gssb_interstage_burn == <<"burn">>
gssb_common_sun_voltage == <<"read">>
gssb_interstage_get_burn_settings == <<"read">>

(* Seeded fault: the settings are not locked again. *)
gssb_interstage_set_burn_settings_open ==
    <<"read", "range", "unlock", "set", "cnt", "reset?">>

gssb_interstage_set_burn_settings ==
    <<"read", "range", "unlock", "set", "cnt", "lock", "reset?">>

gssb_interstage_arm == <<"unlock", "arm", "lock">>
gssb_interstage_state == <<"unlock", "arm", "lock">>
gssb_interstage_settings_unlock(on) == IF on THEN <<"unlock">> ELSE <<"lock">>
gssb_soft_reset == <<"reset">>
gssb_interstage_get_status == <<"read">>
gssb_update_status == <<"poll", "save?">>

(* Seeded fault: the settings are written before they are unlocked. *)
gssb_antenna_release_order ==
    <<"read", "unlock", "arm", "burn", "set", "cnt", "lock", "reset?">>

gssb_antenna_release ==
    <<"read", "unlock", "set", "cnt", "lock", "reset?", "unlock", "arm", "burn">>

rw_get_speed == <<"wheel?", "wheel?", "wheel?">>
rw_get_current == <<"wheel?", "wheel?", "wheel?">>
rw_set_speed == <<"wheel">>
istage2_get_temp == <<"panel", "panel", "panel">>
istage2_get_state_panel == <<"panel">>
istage2_deploy_panel == <<"panel">>
istage2_set_deploy == <<"panel">>
istage2_get_sensors_status == <<"panel">>

(* cmd_gssb_init and cmd_rw_init: the registered handlers, those without   *)
(* an effect the model keeps taken together by their scripts.              *)
cmd_gssb_init ==
    {<<"query", s>> : s \in {gssb_bus_scan, gssb_read_sunsensor, gssb_get_temp,
        gssb_sunsensor_conf, gssb_sunsensor_conf_save, gssb_commit_i2c_addr,
        gssb_get_version, gssb_get_uuid, gssb_get_model, gssb_interstage_temp,
        gssb_msp_outside_temp, gssb_msp_outside_temp_calibrate, gssb_internal_temp,
        gssb_common_sun_voltage, gssb_interstage_get_burn_settings,
        gssb_interstage_get_status}}
    \cup {<<"pwr", gssb_pwr>>, <<"select", gssb_select_addr>>,
          <<"set_addr", gssb_set_i2c_addr>>, <<"burn", gssb_interstage_burn>>,
          <<"config", gssb_interstage_set_burn_settings>>,
          <<"arm", gssb_interstage_arm>>, <<"arm", gssb_interstage_state>>,
          <<"unlock", gssb_interstage_settings_unlock(TRUE)>>,
          <<"lock", gssb_interstage_settings_unlock(FALSE)>>,
          <<"reset", gssb_soft_reset>>, <<"update", gssb_update_status>>,
          <<"release", gssb_antenna_release>>}

cmd_rw_init ==
    {<<"query", s>> : s \in {rw_get_speed, rw_get_current, rw_set_speed,
        istage2_get_temp, istage2_get_state_panel, istage2_deploy_panel,
        istage2_set_deploy, istage2_get_sensors_status}}

--------------------------------------------------------------------------------
(* The executer *)

Released == Cardinality({d \in Stages : board[d].released})

(* A handler starts; one whose parameters do not parse makes no call and   *)
(* is not modelled.  The argument is an address or a switch, and the       *)
(* parameters are in range or not.                                         *)
StartHandler(h, a, in) ==
    /\ run = Idle
    /\ handled < MaxHandlers
    /\ handled' = handled + 1
    /\ run' = [name |-> h[1], left |-> h[2], arg |-> a, inRange |-> in,
               todo |-> Stages, sum |-> 0, began |-> Released]
    /\ UNCHANGED <<board, powered, i2c_addr, deployed, notes>>

(* The boards a call reaches: the release names its address. *)
Target == IF run.name = "release" THEN run.arg
          ELSE IF Head(run.left) = "uuid" THEN run.arg ELSE i2c_addr
Reached == IF powered THEN {d \in Stages : board[d].addr = Target} ELSE {}

(* What a call does to a board it reaches; settings and arming only change *)
(* while unlocked.                                                         *)
Effect(call, b) ==
    CASE call = "unlock" -> {[b EXCEPT !.locked = FALSE]}
      [] call = "lock" -> {[b EXCEPT !.locked = TRUE]}
      [] call = "set" /\ ~b.locked -> {[b EXCEPT !.set = run.name]}
      [] call = "arm" /\ ~b.locked -> {[b EXCEPT !.armed = TRUE]}
      [] call = "burn" /\ b.armed -> {[b EXCEPT !.burning = TRUE]}
      [] call \in {"reset", "reset?"} -> {[b EXCEPT !.burning = FALSE, !.locked = l] :
                                              l \in {TRUE, b.locked}}
      [] call = "readdress?" -> {[b EXCEPT !.addr = run.arg]}
      [] OTHER -> {b}

(* Why a board that a handler unlocked may stay so when the handler ends. *)
Leave(how) ==
    /\ run' = Idle
    /\ notes' = [notes EXCEPT !.why = [d \in Stages |->
           IF d \in Reached /\ run.name \in {"config", "arm", "unlock", "lock", "release"}
           THEN how ELSE @[d]]]

DeviceCalls == {"sample", "read", "write", "uuid", "burn", "unlock", "lock", "set",
                "cnt", "arm", "reset", "reset?", "readdress?", "scan?"}

(* A device call that succeeds, on every board it reaches. *)
CallOK ==
    /\ run # Idle /\ Head(run.left) \in DeviceCalls
    /\ Reached # {} \/ Head(run.left) \in {"reset?", "readdress?", "scan?"}
    /\ LET call == Head(run.left) IN
        /\ \E f \in [Reached -> UNION {Effect(call, board[d]) : d \in Reached}] :
              /\ \A d \in Reached : f[d] \in Effect(call, board[d])
              /\ board' = [d \in Stages |-> IF d \in Reached THEN f[d] ELSE board[d]]
        /\ IF Len(run.left) = 1
           THEN Leave(IF run.name \in {"unlock", "release"} THEN "asked" ELSE "locked")
           ELSE run' = [run EXCEPT !.left = Tail(@)] /\ UNCHANGED notes
    /\ UNCHANGED <<powered, i2c_addr, deployed, handled>>

(* A device call that fails, whether or not the board took it. *)
CallFails ==
    /\ run # Idle /\ Head(run.left) \in DeviceCalls
    /\ LET call == Head(run.left) IN
        /\ \/ UNCHANGED board
           \/ \E d \in Reached : \E b \in Effect(call, board[d]) : board' = [board EXCEPT ![d] = b]
        /\ IF call \in {"reset?", "readdress?", "scan?"} /\ Len(run.left) > 1
           THEN run' = [run EXCEPT !.left = Tail(@)] /\ UNCHANGED notes
           ELSE Leave("failed")
    /\ UNCHANGED <<powered, i2c_addr, deployed, handled>>

(* The range checks of the parameters; out of range ends the handler. *)
CheckRange ==
    /\ run # Idle /\ Head(run.left) = "range"
    /\ run' = IF run.inRange THEN [run EXCEPT !.left = Tail(@)] ELSE Idle
    /\ UNCHANGED <<board, powered, i2c_addr, deployed, handled, notes>>

(* The steps that change the computer's own state. *)
OwnStep ==
    /\ run # Idle /\ Head(run.left) \in {"power?", "select?", "follow?", "wheel", "wheel?", "panel"}
    /\ powered' = IF Head(run.left) = "power?" THEN run.inRange ELSE powered
    /\ board' = IF powered' THEN board ELSE [d \in Stages |-> [board[d] EXCEPT !.burning = FALSE]]
    /\ i2c_addr' = IF Head(run.left) \in {"select?", "follow?"} THEN run.arg ELSE i2c_addr
    /\ \/ run' = IF Len(run.left) = 1 THEN Idle ELSE [run EXCEPT !.left = Tail(@)]
       \/ Head(run.left) \in {"wheel", "panel"} /\ run' = Idle
    /\ UNCHANGED <<deployed, handled, notes>>

(* gssb_update_status: the interstages one after the other. *)
Poll(d, ok) ==
    /\ run # Idle /\ Head(run.left) = "poll"
    /\ d \in run.todo /\ \A e \in run.todo : d <= e
    /\ ok => powered /\ \E e \in Stages : board[e].addr = d
    /\ run' = IF ~ok THEN Idle
              ELSE [run EXCEPT !.todo = @ \ {d},
                    !.left = IF run.todo = {d} THEN Tail(@) ELSE @,
                    !.sum = @ + Cardinality({e \in Stages : board[e].addr = d
                                                          /\ board[e].released})]
    /\ UNCHANGED <<board, powered, i2c_addr, deployed, handled, notes>>

(* Seeded fault: the new count is added to the old one. *)
SaveCountTwice ==
    /\ run # Idle /\ Head(run.left) = "save?"
    /\ deployed' = deployed + run.sum
    /\ notes' = [notes EXCEPT !.low = run.began]
    /\ run' = Idle
    /\ UNCHANGED <<board, powered, i2c_addr, handled>>

SaveCount ==
    /\ run # Idle /\ Head(run.left) = "save?"
    /\ deployed' = run.sum
    /\ notes' = [notes EXCEPT !.low = run.began]
    /\ run' = Idle
    /\ UNCHANGED <<board, powered, i2c_addr, handled>>

--------------------------------------------------------------------------------
(* A burning board releases its antenna, at its own time. *)
Release(d) ==
    /\ powered /\ board[d].burning /\ ~board[d].released
    /\ board' = [board EXCEPT ![d].released = TRUE]
    /\ UNCHANGED <<powered, i2c_addr, run, deployed, handled, notes>>

StagesNext ==
    \/ \E h \in cmd_gssb_init \cup cmd_rw_init, a \in Stages \cup {Spare}, in \in BOOLEAN :
           StartHandler(h, a, in)
    \/ CallOK \/ CallFails \/ CheckRange \/ OwnStep \/ SaveCount
    \/ \E d \in Stages, ok \in BOOLEAN : Poll(d, ok)
    \/ \E d \in Stages : Release(d)

StagesSpec == StagesInit /\ [][StagesNext]_stagesVars

--------------------------------------------------------------------------------
(* The settings of a board are open only while a handler works on it, or   *)
(* after a call failed, after ground asked for it, or after a release,     *)
(* which ends unlocked: a handler that reports success otherwise leaves    *)
(* the board locked, whatever failed before it.                            *)
OpenForAReason ==
    \A d \in Stages :
        \/ board[d].locked
        \/ notes.why[d] # "locked"
        \/ run # Idle /\ run.name \in {"config", "arm", "unlock", "release"}

(* An antenna is burnt by a release only with the settings of a release:   *)
(* they were written while the board was open.                             *)
BurnsAsConfigured ==
    [][\A d \in Stages :
          run # Idle /\ run.name = "release" /\ ~board[d].burning /\ board'[d].burning
              => board[d].set = "release" /\ board[d].armed]_stagesVars

(* dat_dep_ant_deployed is never more than the antennas that are out, nor  *)
(* less than those out when the command that counted them began, though    *)
(* the boards release while they are polled.                               *)
DeployedSound == notes.low <= deployed /\ deployed <= Released

================================================================================
