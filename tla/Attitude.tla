-------------------------------- MODULE Attitude --------------------------------
(***************************************************************************)
(* Attitude determination and control of the SUCHAI application.  taskADCS *)
(* sends a round of commands every second and, every half second, reads    *)
(* the estimated quaternion and writes it back.  The commands of cmdADCS.c *)
(* run in the executer: they measure the attitude, set the target and send *)
(* torques over CSP.  A vector or quaternion lives in several status       *)
(* variables, each read or written in a critical zone of its own.          *)
(***************************************************************************)
EXTENDS Integers, Sequences

CONSTANTS Parts,        \* the status variables of one quaternion, 0 .. 3
          MaxRounds,    \* bound on the control rounds
          MaxEstimates  \* bound on the estimate loops

ASSUME AttitudeAssumption ==
    Parts \in Nat \ {0} /\ MaxRounds \in Nat /\ MaxEstimates \in Nat

VARIABLES
    est,      \* dat_ads_q0..: for each part, the measurement it comes from
    tgt,      \* dat_tgt_*: the round whose command set the target
    opmode,   \* dat_obc_opmode
    todo,     \* commands sent and not executed yet
    job,      \* the command the executer runs, and its step
    loop,     \* the estimate loop: its step and the quaternion it holds
    buffers,  \* CSP buffers the commands hold
    count,    \* rounds, estimates and measurements so far
    crossed   \* history: the estimate loop and a measurement overlapped

attitudeVars == <<est, tgt, opmode, todo, job, loop, buffers, count, crossed>>

Part == 0 .. Parts - 1
Rest == [name |-> "none", id |-> 0, step |-> 0]
Away == [step |-> 0, hold |-> <<>>]
Modes == {"REF_POINT", "NAD_POINT", "DETUMB_MAG", "other"}

(* taskADCS starts in detumbling mode. *)
AttitudeInit ==
    /\ est = [i \in Part |-> 0] /\ tgt = 0
    /\ opmode = "DETUMB_MAG"
    /\ todo = <<>> /\ job = Rest /\ loop = Away
    /\ buffers = 0
    /\ count = [rounds |-> 0, estimates |-> 0, measures |-> 0]
    /\ crossed = FALSE

--------------------------------------------------------------------------------
(* taskADCS *)

(* What cmd_point sends.  In any other mode it is uninitialised: nothing,  *)
(* or a command an earlier round left there; when the process crashes over *)
(* it the behaviour ends.                                                  *)
PointCommands(m, id) ==
    CASE m = "REF_POINT" -> {<<[name |-> "adcs_set_target", id |-> id]>>}
      [] m = "NAD_POINT" -> {<<[name |-> "adcs_set_to_nadir", id |-> id]>>}
      [] m = "DETUMB_MAG" -> {<<[name |-> "adcs_detumbling_mag", id |-> id]>>}
      [] m = "other" -> {<<>>} \cup
            {<<[name |-> n, id |-> i]>> : n \in {"adcs_set_target", "adcs_set_to_nadir", "adcs_detumbling_mag"},
                                          i \in 1 .. id - 1}

(* The commands of a round, in the order they are sent: adcs_acc is not    *)
(* registered and is not found, so nothing is sent for it.                 *)
RoundCommands(m, id, point) ==
    <<[name |-> "adcs_quat", id |-> id], [name |-> "adcs_mag", id |-> id]>> \o point
      \o <<[name |-> IF m = "DETUMB_MAG" THEN "adcs_mag_moment" ELSE "adcs_do_control", id |-> id],
           [name |-> "adcs_send_attitude", id |-> id]>>

ControlLoop ==
    /\ count.rounds < MaxRounds
    /\ count' = [count EXCEPT !.rounds = @ + 1]
    /\ \E point \in PointCommands(opmode, count.rounds + 1) :
          todo' = todo \o RoundCommands(opmode, count.rounds + 1, point)
    /\ UNCHANGED <<est, tgt, opmode, job, loop, buffers, crossed>>

(* The estimate loop: _get_sat_quaterion, part by part, then               *)
(* _set_sat_quaterion of what it read.                                     *)
EstimateLoop ==
    /\ loop.step > 0 \/ count.estimates < MaxEstimates
    /\ count' = IF loop.step = 0 THEN [count EXCEPT !.estimates = @ + 1] ELSE count
    /\ crossed' = (crossed \/ job.name = "adcs_quat")
    /\ IF loop.step < Parts
       THEN /\ loop' = [step |-> loop.step + 1, hold |-> Append(loop.hold, est[loop.step])]
            /\ UNCHANGED est
       ELSE LET i == loop.step - Parts IN
            /\ est' = [est EXCEPT ![i] = loop.hold[i + 1]]
            /\ loop' = IF i = Parts - 1 THEN Away ELSE [loop EXCEPT !.step = @ + 1]
    /\ UNCHANGED <<tgt, opmode, todo, job, buffers>>

--------------------------------------------------------------------------------
(* The executer *)

StartCommand ==
    /\ job = Rest /\ todo # <<>>
    /\ job' = [name |-> Head(todo).name, id |-> Head(todo).id, step |-> 0]
    /\ todo' = Tail(todo)
    /\ UNCHANGED <<est, tgt, opmode, loop, buffers, count, crossed>>

(* adcs_get_quaternion: the answer of the attitude computer, or none. *)
adcs_get_quaternion(ok) ==
    /\ job.name = "adcs_quat" /\ job.step = 0
    /\ IF ok
       THEN /\ job' = [job EXCEPT !.step = 1]
            /\ count' = [count EXCEPT !.measures = @ + 1]
            /\ crossed' = (loop.step > 0)
       ELSE job' = Rest /\ UNCHANGED <<count, crossed>>
    /\ UNCHANGED <<est, tgt, opmode, todo, loop, buffers>>

(* Seeded fault: the last part is left out. *)
_set_sat_quaterion_short ==
    /\ job.name = "adcs_quat" /\ job.step > 0
    /\ est' = IF job.step = Parts THEN est ELSE [est EXCEPT ![job.step - 1] = count.measures]
    /\ job' = IF job.step = Parts THEN Rest ELSE [job EXCEPT !.step = @ + 1]
    /\ crossed' = (crossed \/ loop.step > 0)
    /\ UNCHANGED <<tgt, opmode, todo, loop, buffers, count>>

(* _set_sat_quaterion of the answer, part by part. *)
_set_sat_quaterion ==
    /\ job.name = "adcs_quat" /\ job.step > 0
    /\ est' = [est EXCEPT ![job.step - 1] = count.measures]
    /\ job' = IF job.step = Parts THEN Rest ELSE [job EXCEPT !.step = @ + 1]
    /\ crossed' = (crossed \/ loop.step > 0)
    /\ UNCHANGED <<tgt, opmode, todo, loop, buffers, count>>

(* The magnetometer is read into status variables nobody else writes. *)
adcs_get_mag ==
    /\ job.name = "adcs_mag"
    /\ job' = Rest
    /\ UNCHANGED <<est, tgt, opmode, todo, loop, buffers, count, crossed>>

(* adcs_set_target reads the estimate and writes the target.  The nadir    *)
(* and detumbling commands work out its parameters and call it.            *)
SetTarget(name) ==
    /\ job.name = name
    /\ tgt' = job.id
    /\ job' = Rest
    /\ UNCHANGED <<est, opmode, todo, loop, buffers, count, crossed>>

adcs_set_target == SetTarget("adcs_set_target")
adcs_target_nadir == SetTarget("adcs_set_to_nadir")
adcs_detumbling_mag == SetTarget("adcs_detumbling_mag")

Senders == {"adcs_do_control", "adcs_mag_moment", "adcs_send_attitude"}

(* A packet is taken from the pool, unless the other users emptied it. *)
GetPacket(ok) ==
    /\ job.name \in Senders /\ job.step = 0
    /\ IF ok
       THEN job' = [job EXCEPT !.step = 1] /\ buffers' = buffers + 1
       ELSE job' = Rest /\ UNCHANGED buffers
    /\ UNCHANGED <<est, tgt, opmode, todo, loop, count, crossed>>

(* Seeded fault: a packet that is not sent is not freed. *)
SendPacketLeaks(name, step, ok) ==
    /\ job.name = name /\ job.step = step
    /\ buffers' = IF ok THEN buffers - 1 ELSE buffers
    /\ job' = Rest
    /\ UNCHANGED <<est, tgt, opmode, todo, loop, count, crossed>>

(* csp_sendto takes the packet over, or fails and it is freed. *)
SendPacket(name, step, ok) ==
    /\ job.name = name /\ job.step = step
    /\ buffers' = buffers - 1
    /\ job' = Rest
    /\ UNCHANGED <<est, tgt, opmode, todo, loop, count, crossed>>

adcs_control_torque(ok) == SendPacket("adcs_do_control", 1, ok)
adcs_send_attitude(ok) == SendPacket("adcs_send_attitude", 1, ok)

(* adcs_mag_moment sends the magnetorquer commands, obc_pwm_pwr and three  *)
(* of obc_set_pwm_duty, while it holds its packet.                         *)
adcs_mag_moment(ok) ==
    \/ /\ job.name = "adcs_mag_moment" /\ job.step = 1
       /\ todo' = Append(todo, [name |-> "obc_set_pwm_duty", id |-> job.id])
       /\ job' = [job EXCEPT !.step = 2]
       /\ UNCHANGED <<est, tgt, opmode, loop, buffers, count, crossed>>
    \/ SendPacket("adcs_mag_moment", 2, ok)

PwmCommands ==
    /\ job.name = "obc_set_pwm_duty"
    /\ job' = Rest
    /\ UNCHANGED <<est, tgt, opmode, todo, loop, buffers, count, crossed>>

(* Ground sets the operation mode with drp_set_var. *)
SetMode(m) ==
    /\ opmode' = m
    /\ UNCHANGED <<est, tgt, todo, job, loop, buffers, count, crossed>>

AttitudeNext ==
    \/ ControlLoop \/ EstimateLoop \/ StartCommand \/ _set_sat_quaterion
    \/ adcs_set_target \/ adcs_target_nadir \/ adcs_detumbling_mag
    \/ adcs_get_mag \/ PwmCommands
    \/ \E ok \in BOOLEAN : GetPacket(ok) \/ adcs_get_quaternion(ok) \/ adcs_control_torque(ok)
                            \/ adcs_send_attitude(ok) \/ adcs_mag_moment(ok)
    \/ \E m \in Modes : SetMode(m)

AttitudeSpec == AttitudeInit /\ [][AttitudeNext]_attitudeVars

--------------------------------------------------------------------------------
(* The estimated quaternion is written part by part by two threads.  It is *)
(* one measurement as a whole once a measurement is stored that the        *)
(* estimate loop did not overlap; a torn one lasts no longer.              *)
EstimateWhole ==
    ~crossed /\ (job.name # "adcs_quat" \/ job.step = 0)
        => \A i, j \in Part : est[i] = est[j]

(* Every packet taken for the attitude computer is sent or freed, on each  *)
(* path through the commands.                                              *)
PacketsReturned == buffers = IF job.name \in Senders /\ job.step > 0 THEN 1 ELSE 0

================================================================================
