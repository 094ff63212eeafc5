------------------------- MODULE ApplicationProofs -------------------------
(***************************************************************************)
(* The parts of the flight application, each on its own: the estimate and  *)
(* the packets of the attitude task, the doors, panels and antennas of the *)
(* interstages, the sample budget of the sensors state machine, and the    *)
(* hour counters of the housekeeping task.                                 *)
(***************************************************************************)
EXTENDS Sensors, Interstages, Attitude, Housekeeping, FiniteSetTheorems, TLAPS

--------------------------------------------------------------------------------
(* Attitude: the estimate and the packets *)

AttitudeType ==
    /\ est \in [Part -> Nat] /\ buffers \in Int
    /\ count \in [rounds : Nat, estimates : Nat, measures : Nat]
    /\ job = [name |-> job.name, id |-> job.id, step |-> job.step]
    /\ job.step \in Nat /\ (job.name = "adcs_quat" => job.step <= Parts)
    /\ loop \in [step : 0 .. 2 * Parts - 1, hold : Seq(Nat)]
    /\ Len(loop.hold) = IF loop.step <= Parts THEN loop.step ELSE Parts

(* A measurement is being stored. *)
Storing == job.name = "adcs_quat" /\ job.step > 0

(* What the loop holds is the estimate as a whole, and while a measurement *)
(* is stored that the loop did not overlap the loop is away.               *)
EstimateInv ==
    ~crossed =>
        /\ ~Storing => /\ \A i, j \in Part : est[i] = est[j]
                       /\ \A k \in 1 .. Len(loop.hold), i \in Part : loop.hold[k] = est[i]
        /\ Storing => /\ loop = Away
                      /\ \A i \in Part : i < job.step - 1 => est[i] = count.measures

AttitudeInv == AttitudeType /\ EstimateInv /\ PacketsReturned

LEMMA AttitudeCases ==
    ASSUME [AttitudeNext]_attitudeVars
    PROVE  \/ ControlLoop \/ EstimateLoop \/ StartCommand \/ _set_sat_quaterion
           \/ adcs_set_target \/ adcs_target_nadir \/ adcs_detumbling_mag
           \/ adcs_get_mag \/ PwmCommands
           \/ \E ok \in BOOLEAN : GetPacket(ok)
           \/ \E ok \in BOOLEAN : adcs_get_quaternion(ok)
           \/ \E ok \in BOOLEAN : adcs_control_torque(ok)
           \/ \E ok \in BOOLEAN : adcs_send_attitude(ok)
           \/ \E ok \in BOOLEAN : adcs_mag_moment(ok)
           \/ \E m \in Modes : SetMode(m)
           \/ UNCHANGED attitudeVars
  BY DEF AttitudeNext

LEMMA AttitudeInvInit == AttitudeInit => AttitudeInv
  <1> SUFFICES ASSUME AttitudeInit
               PROVE  AttitudeInv
    OBVIOUS
  <1>1. /\ est = [i \in Part |-> 0] /\ loop = [step |-> 0, hold |-> <<>>] /\ buffers = 0
        /\ count = [rounds |-> 0, estimates |-> 0, measures |-> 0]
        /\ job = [name |-> "none", id |-> 0, step |-> 0]
    BY DEF AttitudeInit, Away, Rest
  <1>2. AttitudeType
    BY <1>1, AttitudeAssumption DEF AttitudeType
  <1>3. EstimateInv
    BY <1>1 DEF EstimateInv, Storing
  <1>4. PacketsReturned
    BY <1>1 DEF PacketsReturned
  <1> QED
    BY <1>2, <1>3, <1>4 DEF AttitudeInv

(* Steps that touch neither the estimate nor a command at work on it.      *)
LEMMA ElsewhereStep ==
    ASSUME AttitudeInv, UNCHANGED <<est, loop, crossed, job, buffers>>,
           count' \in [rounds : Nat, estimates : Nat, measures : Nat],
           count'.measures = count.measures
    PROVE  AttitudeInv'
  <1>1. AttitudeType'
    BY DEF AttitudeInv, AttitudeType
  <1>2. EstimateInv' /\ PacketsReturned'
    BY DEF AttitudeInv, EstimateInv, Storing, PacketsReturned
  <1> QED
    BY <1>1, <1>2 DEF AttitudeInv

(* A command starts, ends, or goes on, and stores no measurement.          *)
LEMMA CommandStep ==
    ASSUME AttitudeInv, UNCHANGED <<est, loop, crossed, count>>,
           NEW n, NEW id, NEW k \in Nat, job' = [name |-> n, id |-> id, step |-> k],
           ~Storing, ~Storing', n = "adcs_quat" => k <= Parts,
           buffers' = IF n \in Senders /\ k > 0 THEN 1 ELSE 0
    PROVE  AttitudeInv'
  <1>1. AttitudeType'
    BY DEF AttitudeInv, AttitudeType
  <1>2. EstimateInv' /\ PacketsReturned'
    BY DEF AttitudeInv, EstimateInv, PacketsReturned
  <1> QED
    BY <1>1, <1>2 DEF AttitudeInv

(* The loop reads a part, or writes one back: what it holds and what is    *)
(* stored are the same, or the two overlapped.                             *)
LEMMA EstimateStep ==
    ASSUME AttitudeInv, EstimateLoop
    PROVE  AttitudeInv'
  <1>1. /\ count' = IF loop.step = 0 THEN [count EXCEPT !.estimates = @ + 1] ELSE count
        /\ crossed' = (crossed \/ job.name = "adcs_quat")
        /\ UNCHANGED <<job, buffers>>
    BY DEF EstimateLoop
  <1>2. count' \in [rounds : Nat, estimates : Nat, measures : Nat]
    BY SMTT(60), <1>1 DEF AttitudeInv, AttitudeType
  <1>3. /\ est \in [Part -> Nat] /\ loop = [step |-> loop.step, hold |-> loop.hold]
        /\ loop.step \in 0 .. 2 * Parts - 1 /\ loop.hold \in Seq(Nat) /\ Parts \in Nat /\ Parts > 0
        /\ Len(loop.hold) = IF loop.step <= Parts THEN loop.step ELSE Parts
    BY SMTT(60), AttitudeAssumption DEF AttitudeInv, AttitudeType
  <1>4. ~crossed' => /\ ~Storing /\ ~Storing'
                     /\ \A i, j \in Part : est[i] = est[j]
                     /\ \A k \in 1 .. Len(loop.hold), i \in Part : loop.hold[k] = est[i]
    BY <1>1 DEF AttitudeInv, EstimateInv, Storing
  <1>5. PacketsReturned'
    BY <1>1 DEF AttitudeInv, PacketsReturned
  <1>6. CASE loop.step < Parts
    <2>1. /\ loop' = [step |-> loop.step + 1, hold |-> Append(loop.hold, est[loop.step])]
          /\ est' = est
      BY <1>6 DEF EstimateLoop
    <2>2. loop.step \in Part /\ est[loop.step] \in Nat
      BY <1>3, <1>6 DEF Part
    <2>3. /\ loop'.hold \in Seq(Nat) /\ Len(loop'.hold) = loop.step + 1 /\ Len(loop.hold) = loop.step
          /\ \A k \in 1 .. loop.step : loop'.hold[k] = loop.hold[k]
          /\ loop'.hold[loop.step + 1] = est[loop.step]
      BY <1>3, <1>6, <2>1, <2>2
    <2>4. AttitudeType'
      BY SMTT(60), <1>1, <1>2, <1>3, <1>6, <2>1, <2>3 DEF AttitudeInv, AttitudeType
    <2>5. EstimateInv'
      <3> SUFFICES ASSUME ~crossed', NEW k \in 1 .. loop.step + 1, NEW i \in Part
                   PROVE  loop'.hold[k] = est[i]
        BY ZenonT(60), <1>4, <2>1, <2>3 DEF EstimateInv
      <3>1. CASE k = loop.step + 1
        BY <1>4, <2>2, <2>3, <3>1
      <3>2. CASE k # loop.step + 1
        <4>1. k \in 1 .. loop.step
          BY <1>3, <3>2
        <4> QED
          BY <1>4, <2>3, <4>1
      <3> QED
        BY <3>1, <3>2
    <2> QED
      BY <1>5, <2>4, <2>5 DEF AttitudeInv
  <1>7. CASE ~(loop.step < Parts)
    <2>1. PICK i : i = loop.step - Parts
      OBVIOUS
    <2>2. /\ est' = [est EXCEPT ![i] = loop.hold[i + 1]]
          /\ loop' = IF i = Parts - 1 THEN Away ELSE [loop EXCEPT !.step = @ + 1]
      BY <1>7, <2>1 DEF EstimateLoop
    <2>3. i \in Part /\ i + 1 \in 1 .. Len(loop.hold) /\ loop.hold[i + 1] \in Nat
      BY SMTT(60), <1>3, <1>7, <2>1 DEF Part
    <2>4. est' \in [Part -> Nat] /\ \A j \in Part : est'[j] = IF j = i THEN loop.hold[i + 1] ELSE est[j]
      BY <1>3, <2>2, <2>3
    <2>5. ~crossed' => \A j \in Part : est'[j] = est[j]
      BY <1>4, <2>3, <2>4
    <2>6. CASE i = Parts - 1
      <3>1. loop' = [step |-> 0, hold |-> <<>>]
        BY <2>2, <2>6 DEF Away
      <3>2. AttitudeType'
        BY <1>1, <1>2, <1>3, <2>4, <3>1 DEF AttitudeInv, AttitudeType
      <3>3. EstimateInv'
        BY <1>4, <2>5, <3>1 DEF EstimateInv
      <3> QED
        BY <1>5, <3>2, <3>3 DEF AttitudeInv
    <2>7. CASE i # Parts - 1
      <3>1. loop' = [step |-> loop.step + 1, hold |-> loop.hold]
        BY <1>3, <2>2, <2>7
      <3>2. loop.step + 1 \in 0 .. 2 * Parts - 1 /\ loop.step + 1 > Parts /\ Len(loop.hold) = Parts
        BY SMTT(60), <1>3, <1>7, <2>1, <2>7
      <3>3. AttitudeType'
        BY SMTT(60), <1>1, <1>2, <1>3, <2>4, <3>1, <3>2 DEF AttitudeInv, AttitudeType
      <3>4. EstimateInv'
        BY <1>4, <2>5, <3>1 DEF EstimateInv
      <3> QED
        BY <1>5, <3>3, <3>4 DEF AttitudeInv
    <2> QED
      BY <2>6, <2>7
  <1> QED
    BY <1>6, <1>7

(* The answer of the attitude computer: parts of it follow. *)
LEMMA MeasureStep ==
    ASSUME AttitudeInv, NEW ok \in BOOLEAN, adcs_get_quaternion(ok)
    PROVE  AttitudeInv'
  <1>1. job.name = "adcs_quat" /\ job.step = 0 /\ UNCHANGED <<est, loop, buffers>>
    BY DEF adcs_get_quaternion
  <1>2. ~Storing /\ buffers = 0
    BY <1>1 DEF Storing, AttitudeInv, PacketsReturned
  <1>3. CASE ok
    <2>1. /\ job' = [job EXCEPT !.step = 1] /\ count' = [count EXCEPT !.measures = @ + 1]
          /\ crossed' = (loop.step > 0)
      BY <1>3 DEF adcs_get_quaternion
    <2>2. job' = [name |-> "adcs_quat", id |-> job.id, step |-> 1]
      BY <1>1, <2>1 DEF AttitudeInv, AttitudeType
    <2>3. AttitudeType'
      <3>1. count' \in [rounds : Nat, estimates : Nat, measures : Nat]
        BY <2>1 DEF AttitudeInv, AttitudeType
      <3>2. 1 \in Nat /\ 1 <= Parts /\ job'.step = 1 /\ job' = [name |-> job'.name, id |-> job'.id, step |-> job'.step]
        BY <2>2, AttitudeAssumption
      <3> QED
        BY <1>1, <3>1, <3>2 DEF AttitudeInv, AttitudeType
    <2>4. EstimateInv'
      <3>0. ~crossed' => ~(loop.step > 0)
        BY <2>1
      <3>1. ~crossed' => loop.step = 0
        BY <3>0, AttitudeAssumption DEF AttitudeInv, AttitudeType
      <3>2. ~crossed' => loop = Away
        BY <3>1, AttitudeAssumption DEF AttitudeInv, AttitudeType, Away
      <3> QED
        BY <1>1, <2>2, <3>2 DEF EstimateInv, Storing, Part
    <2>5. PacketsReturned'
      BY <1>1, <1>2, <2>2 DEF PacketsReturned, Senders
    <2> QED
      BY <2>3, <2>4, <2>5 DEF AttitudeInv
  <1>4. CASE ~ok
    <2>1. job' = [name |-> "none", id |-> 0, step |-> 0] /\ UNCHANGED <<count, crossed>>
      BY <1>4 DEF adcs_get_quaternion, Rest
    <2>2. ~Storing' /\ buffers' = 0
      BY <1>1, <1>2, <2>1 DEF Storing
    <2> QED
      BY <1>1, <1>2, <2>1, <2>2, CommandStep
  <1> QED
    BY <1>3, <1>4

(* A part of the answer is stored; after the last all are of one answer.   *)
LEMMA StoreStep ==
    ASSUME AttitudeInv, _set_sat_quaterion
    PROVE  AttitudeInv'
  <1>1. /\ job.name = "adcs_quat" /\ job.step > 0 /\ UNCHANGED <<loop, buffers, count>>
        /\ est' = [est EXCEPT ![job.step - 1] = count.measures]
        /\ job' = IF job.step = Parts THEN Rest ELSE [job EXCEPT !.step = @ + 1]
        /\ crossed' = (crossed \/ loop.step > 0)
    BY DEF _set_sat_quaterion
  <1>2. /\ job = [name |-> "adcs_quat", id |-> job.id, step |-> job.step] /\ job.step \in Nat
        /\ job.step <= Parts /\ Parts \in Nat /\ est \in [Part -> Nat] /\ count.measures \in Nat
    BY <1>1, AttitudeAssumption DEF AttitudeInv, AttitudeType
  <1>3. job.step - 1 \in Part /\ buffers = 0
    BY <1>1, <1>2 DEF Part, AttitudeInv, PacketsReturned, Senders
  <1>4. /\ est' \in [Part -> Nat]
        /\ \A j \in Part : est'[j] = IF j = job.step - 1 THEN count.measures ELSE est[j]
    BY <1>1, <1>2, <1>3
  <1>5. ~crossed' => /\ loop = Away
                     /\ \A i \in Part : i < job.step => est'[i] = count.measures
    <2> SUFFICES ASSUME ~crossed'
                 PROVE  /\ loop = Away
                        /\ \A i \in Part : i < job.step => est'[i] = count.measures
      OBVIOUS
    <2>1. loop = Away /\ \A i \in Part : i < job.step - 1 => est[i] = count.measures
      BY <1>1 DEF AttitudeInv, EstimateInv, Storing
    <2>2. \A i \in Part : i < job.step => i = job.step - 1 \/ i < job.step - 1
      BY <1>2 DEF Part
    <2> QED
      BY <1>4, <2>1, <2>2
  <1>6. CASE job.step = Parts
    <2>1. job' = [name |-> "none", id |-> 0, step |-> 0]
      BY <1>1, <1>6 DEF Rest
    <2>2. AttitudeType'
      BY SMTT(60), <1>1, <1>4, <2>1 DEF AttitudeInv, AttitudeType
    <2>3. ~crossed' => loop'.hold = <<>> /\ \A i \in Part : est'[i] = count.measures
      BY <1>1, <1>2, <1>5, <1>6 DEF Part, Away
    <2>4. EstimateInv'
      BY <2>1, <2>3 DEF EstimateInv, Storing
    <2>5. PacketsReturned'
      BY <1>1, <1>3, <2>1 DEF PacketsReturned
    <2> QED
      BY <2>2, <2>4, <2>5 DEF AttitudeInv
  <1>7. CASE job.step # Parts
    <2>1. job' = [name |-> "adcs_quat", id |-> job.id, step |-> job.step + 1]
      BY <1>1, <1>2, <1>7
    <2>2. AttitudeType'
      <3>1. job.step + 1 \in Nat /\ job.step + 1 <= Parts
        BY <1>2, <1>7
      <3>2. job'.step = job.step + 1 /\ job' = [name |-> job'.name, id |-> job'.id, step |-> job'.step]
        BY <2>1
      <3> QED
        BY <1>1, <1>4, <3>1, <3>2 DEF AttitudeInv, AttitudeType
    <2>3. job'.step - 1 = job.step /\ Storing'
      BY <1>2, <2>1 DEF Storing
    <2>4. EstimateInv'
      BY <1>1, <1>5, <2>3 DEF EstimateInv
    <2>5. PacketsReturned'
      BY <1>1, <1>3, <2>1 DEF PacketsReturned, Senders
    <2> QED
      BY <2>2, <2>4, <2>5 DEF AttitudeInv
  <1> QED
    BY <1>6, <1>7

LEMMA AttitudeInvNext == AttitudeInv /\ [AttitudeNext]_attitudeVars => AttitudeInv'
  <1> SUFFICES ASSUME AttitudeInv, [AttitudeNext]_attitudeVars
               PROVE  AttitudeInv'
    OBVIOUS
  <1>1. /\ job = [name |-> job.name, id |-> job.id, step |-> job.step] /\ job.step \in Nat
        /\ count \in [rounds : Nat, estimates : Nat, measures : Nat]
        /\ buffers = IF job.name \in Senders /\ job.step > 0 THEN 1 ELSE 0
        /\ "none" \notin Senders /\ "adcs_quat" \notin Senders
    BY DEF AttitudeInv, AttitudeType, PacketsReturned, Senders
  <1>2. ASSUME ControlLoop
        PROVE  AttitudeInv'
    BY <1>1, <1>2, ElsewhereStep DEF ControlLoop
  <1>3. ASSUME NEW m \in Modes, SetMode(m)
        PROVE  AttitudeInv'
    BY <1>1, <1>3, ElsewhereStep DEF SetMode
  <1>4. ASSUME StartCommand
        PROVE  AttitudeInv'
    <2>1. PICK n, id : job' = [name |-> n, id |-> id, step |-> 0]
      BY <1>4 DEF StartCommand
    <2>2. ~Storing /\ ~Storing' /\ buffers' = 0 /\ UNCHANGED <<est, loop, crossed, count>>
      BY <1>1, <1>4, <2>1 DEF StartCommand, Storing, Rest
    <2> QED
      BY <2>1, <2>2, AttitudeAssumption, CommandStep
  <1>5. ASSUME job.name # "adcs_quat", job' = Rest, buffers' = 0,
               UNCHANGED <<est, loop, crossed, count>>
        PROVE  AttitudeInv'
    <2>1. job' = [name |-> "none", id |-> 0, step |-> 0] /\ ~Storing /\ ~Storing'
      BY <1>5 DEF Rest, Storing
    <2> QED
      BY <1>1, <1>5, <2>1, CommandStep
  <1>6. ASSUME adcs_set_target \/ adcs_target_nadir \/ adcs_detumbling_mag \/ adcs_get_mag \/ PwmCommands
        PROVE  AttitudeInv'
    BY <1>1, <1>5, <1>6 DEF adcs_set_target, adcs_target_nadir, adcs_detumbling_mag, SetTarget,
       adcs_get_mag, PwmCommands, Senders
  <1>7. ASSUME NEW ok \in BOOLEAN, GetPacket(ok)
        PROVE  AttitudeInv'
    <2>1. /\ job.name \in Senders /\ job.name # "adcs_quat" /\ UNCHANGED <<est, loop, crossed, count>>
          /\ buffers = 0
      BY <1>1, <1>7 DEF GetPacket
    <2>2. CASE ok
      <3>1. job' = [name |-> job.name, id |-> job.id, step |-> 1] /\ buffers' = 1
        BY <1>1, <1>7, <2>1, <2>2 DEF GetPacket
      <3>2. ~Storing /\ ~Storing'
        BY <2>1, <3>1 DEF Storing
      <3> QED
        BY <2>1, <3>1, <3>2, CommandStep
    <2>3. CASE ~ok
      BY <1>5, <1>7, <2>1, <2>3 DEF GetPacket
    <2> QED
      BY <2>2, <2>3
  <1>8. ASSUME NEW n \in Senders, NEW k \in {1, 2}, NEW ok \in BOOLEAN, SendPacket(n, k, ok)
        PROVE  AttitudeInv'
    BY <1>1, <1>5, <1>8 DEF SendPacket
  <1>9. ASSUME NEW ok \in BOOLEAN, adcs_control_torque(ok) \/ adcs_send_attitude(ok)
        PROVE  AttitudeInv'
    BY <1>8, <1>9 DEF adcs_control_torque, adcs_send_attitude, Senders
  <1>10. ASSUME NEW ok \in BOOLEAN, adcs_mag_moment(ok)
         PROVE  AttitudeInv'
    <2>1. CASE SendPacket("adcs_mag_moment", 2, ok)
      BY <1>8, <2>1 DEF Senders
    <2>2. CASE /\ job.name = "adcs_mag_moment" /\ job.step = 1 /\ job' = [job EXCEPT !.step = 2]
               /\ UNCHANGED <<est, loop, buffers, count, crossed>>
      <3>1. job' = [name |-> "adcs_mag_moment", id |-> job.id, step |-> 2]
        BY <1>1, <2>2
      <3>2. ~Storing /\ ~Storing' /\ buffers' = 1 /\ "adcs_mag_moment" \in Senders
        BY <1>1, <2>2, <3>1 DEF Storing, Senders
      <3>3. "adcs_mag_moment" # "adcs_quat" /\ 2 \in Nat /\ 2 > 0
        OBVIOUS
      <3> QED
        BY <2>2, <3>1, <3>2, <3>3, CommandStep
    <2> QED
      BY <1>10, <2>1, <2>2 DEF adcs_mag_moment
  <1>11. ASSUME UNCHANGED attitudeVars
         PROVE  AttitudeInv'
    BY <1>1, <1>11, ElsewhereStep DEF attitudeVars
  <1> QED
    BY <1>2, <1>3, <1>4, <1>6, <1>7, <1>9, <1>10, <1>11, AttitudeCases, EstimateStep, MeasureStep, StoreStep

LEMMA AttitudeInvariant == AttitudeSpec => []AttitudeInv
  BY AttitudeInvInit, AttitudeInvNext, PTL DEF AttitudeSpec

(* taskADCS.c:67-112, cmdADCS.c:72-105: whatever the number of parts, a    *)
(* stored measurement that the estimate loop did not overlap makes the     *)
(* estimate one measurement as a whole, and it stays so until the two      *)
(* overlap again.                                                          *)
THEOREM EstimateCorrect == AttitudeSpec => []EstimateWhole
  <1>1. AttitudeInv => EstimateWhole
    BY DEF AttitudeInv, AttitudeType, EstimateInv, EstimateWhole, Storing
  <1> QED
    BY <1>1, AttitudeInvariant, PTL

(* cmdADCS.c:149-487: the commands hold at most one CSP buffer, and none   *)
(* between commands: each is sent or freed on every path.                  *)
THEOREM PacketsCorrect == AttitudeSpec => []PacketsReturned
  <1>1. AttitudeInv => PacketsReturned
    BY DEF AttitudeInv
  <1> QED
    BY <1>1, AttitudeInvariant, PTL

--------------------------------------------------------------------------------
(* Interstages: deployment and the antenna and panel boards *)

Names == {"query", "pwr", "select", "set_addr", "burn", "config", "arm", "unlock", "lock",
          "reset", "update", "release"}
Quiet == {"sample", "read", "write", "range", "scan?", "wheel", "wheel?", "panel"}
Others == {"power?", "select?", "readdress?", "uuid", "follow?", "burn", "reset"}
Calls == Quiet \cup Others \cup {"unlock", "lock", "set", "cnt", "arm", "reset?", "poll", "save?"}

Board == [addr : Stages \cup {Spare}, locked : BOOLEAN, set : Names \cup {"old"},
          armed : BOOLEAN, burning : BOOLEAN, released : BOOLEAN]

Handlers == cmd_gssb_init \cup cmd_rw_init

(* What is left of a script is its end. *)
EndOf(left, script) ==
    /\ left \in Seq(Calls) /\ Len(left) \in 1 .. Len(script)
    /\ \A k \in 1 .. Len(left) : left[k] = script[Len(script) - Len(left) + k]

RunType ==
    \/ run = Idle
    \/ /\ run \in [name : Names, left : Seq(Calls), arg : Stages \cup {Spare}, inRange : BOOLEAN,
                   todo : SUBSET Stages, sum : Nat, began : Nat]
       /\ \E h \in Handlers : run.name = h[1] /\ EndOf(run.left, h[2])

StagesType ==
    /\ board \in [Stages -> Board] /\ powered \in BOOLEAN /\ i2c_addr \in Stages \cup {Spare}
    /\ RunType /\ deployed \in Nat
    /\ notes \in [why : [Stages -> {"locked", "failed", "asked"}], low : Nat]

Openers == {"config", "arm", "unlock", "release"}

(* A board is open for the handler that reaches it, or for a reason noted  *)
(* before; the settings are open for nobody before the range check, and    *)
(* closed again before the reset that ends the handler.                    *)
OpenInv ==
    /\ \A d \in Stages : \/ board[d].locked \/ notes.why[d] # "locked"
                         \/ run # Idle /\ run.name \in Openers /\ d \in Reached
    /\ run # Idle /\ run.name = "config" =>
           /\ Len(run.left) >= 6 =>
                  \A d \in Stages : board[d].locked \/ notes.why[d] # "locked"
           /\ Len(run.left) = 1 => \A d \in Reached : board[d].locked

(* A release writes its settings while the boards are open. *)
ReleaseInv ==
    run # Idle /\ run.name = "release" =>
        /\ Len(run.left) = 7 => \A d \in Reached : ~board[d].locked
        /\ Len(run.left) <= 6 => \A d \in Reached : board[d].set = "release"

Out == {d \in Stages : board[d].released}
Polled == {d \in Stages : board[d].addr \in Stages \ run.todo}

(* The count: antennas out of the boards polled so far.  Every address     *)
(* polled had a board; when all had, each board has one of them.           *)
PollInv ==
    run # Idle /\ run.name = "update" =>
        /\ run.sum <= Cardinality(Out \cap Polled)
        /\ run.began <= run.sum + Cardinality(Out \ Polled)
        /\ \A a \in Stages \ run.todo : \E d \in Stages : board[d].addr = a
        /\ Head(run.left) = "save?" => run.todo = {}

StagesInv == StagesType /\ OpenInv /\ ReleaseInv /\ PollInv /\ DeployedSound

--------------------------------------------------------------------------------
(* The scripts *)

LEMMA EndStarts ==
    ASSUME NEW s \in Seq(Calls), s # <<>>
    PROVE  EndOf(s, s)
  BY DEF EndOf

LEMMA EndGoesOn ==
    ASSUME NEW l, NEW s \in Seq(Calls), EndOf(l, s)
    PROVE  /\ l \in Seq(Calls) /\ l # <<>> /\ Len(l) \in 1 .. Len(s) /\ Len(l) \in Nat
           /\ Head(l) = s[Len(s) - Len(l) + 1]
           /\ Len(s) - Len(l) + 1 \in 1 .. Len(s)
           /\ Len(l) > 1 => EndOf(Tail(l), s) /\ Len(Tail(l)) = Len(l) - 1
  <1>1. l \in Seq(Calls) /\ l # <<>> /\ Len(l) \in 1 .. Len(s) /\ Len(l) \in Nat /\ Len(s) \in Nat
    BY DEF EndOf
  <1>2. Head(l) = s[Len(s) - Len(l) + 1] /\ Len(s) - Len(l) + 1 \in 1 .. Len(s)
    BY <1>1 DEF EndOf
  <1>3. ASSUME Len(l) > 1
        PROVE  EndOf(Tail(l), s) /\ Len(Tail(l)) = Len(l) - 1
    <2>1. /\ Tail(l) \in Seq(Calls) /\ Len(Tail(l)) = Len(l) - 1
          /\ \A k \in 1 .. Len(Tail(l)) : Tail(l)[k] = l[k + 1]
      BY <1>1
    <2>2. ASSUME NEW k \in 1 .. Len(Tail(l))
          PROVE  Tail(l)[k] = s[Len(s) - Len(Tail(l)) + k]
      <3>1. k + 1 \in 1 .. Len(l) /\ Len(s) - Len(l) + (k + 1) = Len(s) - Len(Tail(l)) + k
        BY <1>1, <2>1
      <3>2. l[k + 1] = s[Len(s) - Len(l) + (k + 1)]
        BY <3>1 DEF EndOf
      <3> QED
        BY <2>1, <3>1, <3>2
    <2> QED
      BY <1>1, <1>3, <2>1, <2>2 DEF EndOf
  <1> QED
    BY <1>1, <1>2, <1>3

Script(s, S) == s \in Seq(Calls) /\ s # <<>> /\ \A k \in 1 .. Len(s) : s[k] \in S

LEMMA ShortScripts ==
    ASSUME NEW S, NEW a \in S, NEW b \in S, NEW c \in S, S \subseteq Calls
    PROVE  Script(<<a>>, S) /\ Script(<<a, b>>, S) /\ Script(<<a, b, c>>, S)
  <1>1. Script(<<a>>, S)
    BY DEF Script
  <1>2. Script(<<a, b>>, S)
    BY DEF Script
  <1>3. Script(<<a, b, c>>, S)
    BY DEF Script
  <1> QED
    BY <1>1, <1>2, <1>3

(* What each handler calls. *)
QuietScripts == {<<"scan?">>, <<"sample", "read">>, <<"write">>, <<"read">>, <<"range", "write">>,
                 <<"wheel?", "wheel?", "wheel?">>, <<"wheel">>, <<"panel", "panel", "panel">>, <<"panel">>}

LEMMA QuietHandlers ==
    /\ \A s \in QuietScripts : Script(s, Quiet)
    /\ \A h \in Handlers : \/ h[1] = "query" /\ h[2] \in QuietScripts
                           \/ h \in {<<"pwr", gssb_pwr>>, <<"select", gssb_select_addr>>,
                                     <<"set_addr", gssb_set_i2c_addr>>, <<"burn", gssb_interstage_burn>>,
                                     <<"config", gssb_interstage_set_burn_settings>>,
                                     <<"arm", gssb_interstage_arm>>, <<"arm", gssb_interstage_state>>,
                                     <<"unlock", gssb_interstage_settings_unlock(TRUE)>>,
                                     <<"lock", gssb_interstage_settings_unlock(FALSE)>>,
                                     <<"reset", gssb_soft_reset>>, <<"update", gssb_update_status>>,
                                     <<"release", gssb_antenna_release>>}
  <1>1. Quiet \subseteq Calls /\ {"sample", "read", "write", "range", "scan?", "wheel", "wheel?", "panel"} \subseteq Quiet
    BY DEF Quiet, Calls
  <1>2. ASSUME NEW s \in QuietScripts
        PROVE  Script(s, Quiet)
    BY ZenonT(60), <1>1, <1>2, ShortScripts DEF QuietScripts
  <1>3. {gssb_bus_scan, gssb_read_sunsensor, gssb_get_temp,
        gssb_sunsensor_conf, gssb_sunsensor_conf_save, gssb_commit_i2c_addr,
        gssb_get_version, gssb_get_uuid, gssb_get_model, gssb_interstage_temp,
        gssb_msp_outside_temp, gssb_msp_outside_temp_calibrate, gssb_internal_temp,
        gssb_common_sun_voltage, gssb_interstage_get_burn_settings,
        gssb_interstage_get_status} \subseteq QuietScripts
    BY DEF gssb_bus_scan, gssb_read_sunsensor, gssb_get_temp,
        gssb_sunsensor_conf, gssb_sunsensor_conf_save, gssb_commit_i2c_addr,
        gssb_get_version, gssb_get_uuid, gssb_get_model, gssb_interstage_temp,
        gssb_msp_outside_temp, gssb_msp_outside_temp_calibrate, gssb_internal_temp,
        gssb_common_sun_voltage, gssb_interstage_get_burn_settings,
        gssb_interstage_get_status, QuietScripts
  <1>4. {rw_get_speed, rw_get_current, rw_set_speed,
        istage2_get_temp, istage2_get_state_panel, istage2_deploy_panel,
        istage2_set_deploy, istage2_get_sensors_status} \subseteq QuietScripts
    BY DEF rw_get_speed, rw_get_current, rw_set_speed,
        istage2_get_temp, istage2_get_state_panel, istage2_deploy_panel,
        istage2_set_deploy, istage2_get_sensors_status, QuietScripts
  <1>5. \A h \in cmd_rw_init : h[1] = "query" /\ h[2] \in QuietScripts
    BY <1>4 DEF cmd_rw_init
  <1>6. \A h \in {<<"query", s>> : s \in {gssb_bus_scan, gssb_read_sunsensor, gssb_get_temp,
        gssb_sunsensor_conf, gssb_sunsensor_conf_save, gssb_commit_i2c_addr,
        gssb_get_version, gssb_get_uuid, gssb_get_model, gssb_interstage_temp,
        gssb_msp_outside_temp, gssb_msp_outside_temp_calibrate, gssb_internal_temp,
        gssb_common_sun_voltage, gssb_interstage_get_burn_settings,
        gssb_interstage_get_status}} : h[1] = "query" /\ h[2] \in QuietScripts
    BY <1>3
  <1> QED
    BY <1>2, <1>5, <1>6, Zenon DEF Handlers, cmd_gssb_init

LEMMA Scripts ==
    ASSUME NEW h \in Handlers
    PROVE  /\ h[1] \in Names /\ h[2] \in Seq(Calls) /\ h[2] # <<>>
           /\ h[1] = "config" => h[2] = gssb_interstage_set_burn_settings
           /\ h[1] = "release" => h[2] = gssb_antenna_release
           /\ h[1] = "arm" => h[2] = gssb_interstage_arm
           /\ h[1] = "unlock" => h[2] = <<"unlock">>
           /\ h[1] = "lock" => h[2] = <<"lock">>
           /\ h[1] = "update" => h[2] = gssb_update_status
           /\ h[1] \notin {"config", "release", "arm", "unlock", "lock", "update"} =>
                  \A k \in 1 .. Len(h[2]) : h[2][k] \in Quiet \cup Others
           /\ h[1] \in {"pwr", "select", "set_addr", "burn", "reset"} =>
                  \A k \in 1 .. Len(h[2]) : h[2][k] \in Others
           /\ h[1] = "query" => h[2] \in QuietScripts
  <1>1. CASE h[1] = "query" /\ h[2] \in QuietScripts
    BY <1>1, QuietHandlers DEF Script, Names
  <1>2. ASSUME NEW n \in {"pwr", "select", "set_addr", "burn", "reset"}, NEW s, h = <<n, s>>, Script(s, Others)
        PROVE  /\ h[1] \in Names /\ h[2] \in Seq(Calls) /\ h[2] # <<>>
               /\ h[1] \notin {"config", "release", "arm", "unlock", "lock", "update"}
               /\ \A k \in 1 .. Len(h[2]) : h[2][k] \in Others
               /\ h[1] # "query"
    BY <1>2 DEF Script, Names
  <1>3. CASE h \in {<<"pwr", gssb_pwr>>, <<"select", gssb_select_addr>>,
                    <<"set_addr", gssb_set_i2c_addr>>, <<"burn", gssb_interstage_burn>>, <<"reset", gssb_soft_reset>>}
    <2>1. {gssb_pwr, gssb_select_addr, gssb_set_i2c_addr, gssb_interstage_burn, gssb_soft_reset}
              \subseteq {<<"power?">>, <<"select?">>, <<"readdress?", "uuid", "follow?">>, <<"burn">>, <<"reset">>}
      BY DEF gssb_pwr, gssb_select_addr, gssb_set_i2c_addr, gssb_interstage_burn, gssb_soft_reset
    <2>2. /\ Others \subseteq Calls
          /\ {"power?", "select?", "readdress?", "uuid", "follow?", "burn", "reset"} \subseteq Others
      BY DEF Others, Calls
    <2>3. \A s \in {<<"power?">>, <<"select?">>, <<"readdress?", "uuid", "follow?">>, <<"burn">>, <<"reset">>} :
              Script(s, Others)
      BY ZenonT(60), <2>2, ShortScripts
    <2> QED
      BY <1>2, <1>3, <2>1, <2>3
  <1>4. CASE h \in {<<"config", gssb_interstage_set_burn_settings>>, <<"release", gssb_antenna_release>>}
    <2>1. gssb_interstage_set_burn_settings \in Seq(Calls) /\ gssb_interstage_set_burn_settings # <<>>
      BY DEF gssb_interstage_set_burn_settings, Calls, Quiet
    <2>2. gssb_antenna_release \in Seq(Calls) /\ gssb_antenna_release # <<>>
      BY DEF gssb_antenna_release, Calls, Quiet, Others
    <2>3. h[1] \in {"config", "release"} /\ (h[1] = "config" => h[2] = gssb_interstage_set_burn_settings)
          /\ (h[1] = "release" => h[2] = gssb_antenna_release)
      BY <1>4
    <2> QED
      BY <2>1, <2>2, <2>3 DEF Names
  <1>5. CASE h \in {<<"arm", gssb_interstage_arm>>, <<"arm", gssb_interstage_state>>,
                    <<"unlock", gssb_interstage_settings_unlock(TRUE)>>,
                    <<"lock", gssb_interstage_settings_unlock(FALSE)>>, <<"update", gssb_update_status>>}
    <2>1. gssb_interstage_arm \in Seq(Calls) /\ gssb_interstage_arm # <<>>
      BY DEF gssb_interstage_arm, Calls
    <2>2. gssb_update_status \in Seq(Calls) /\ gssb_update_status # <<>>
      BY DEF gssb_update_status, Calls
    <2>3. /\ <<"unlock">> \in Seq(Calls) /\ <<"lock">> \in Seq(Calls)
          /\ <<"unlock">> # <<>> /\ <<"lock">> # <<>>
      BY DEF Calls
    <2>4. /\ gssb_interstage_state = gssb_interstage_arm
          /\ gssb_interstage_settings_unlock(TRUE) = <<"unlock">>
          /\ gssb_interstage_settings_unlock(FALSE) = <<"lock">>
      BY DEF gssb_interstage_state, gssb_interstage_arm, gssb_interstage_settings_unlock
    <2>5. /\ h[1] \in {"arm", "unlock", "lock", "update"}
          /\ h[1] = "arm" => h[2] = gssb_interstage_arm
          /\ h[1] = "unlock" => h[2] = <<"unlock">>
          /\ h[1] = "lock" => h[2] = <<"lock">>
          /\ h[1] = "update" => h[2] = gssb_update_status
      <3>1. CASE h = <<"arm", gssb_interstage_arm>> \/ h = <<"arm", gssb_interstage_state>>
        <4>1. h[1] = "arm" /\ h[2] = gssb_interstage_arm
          BY <2>4, <3>1
        <4> QED
          BY <4>1
      <3>2. CASE h = <<"unlock", gssb_interstage_settings_unlock(TRUE)>>
        <4>1. h[1] = "unlock" /\ h[2] = <<"unlock">>
          BY <2>4, <3>2
        <4> QED
          BY <4>1
      <3>3. CASE h = <<"lock", gssb_interstage_settings_unlock(FALSE)>>
        <4>1. h[1] = "lock" /\ h[2] = <<"lock">>
          BY <2>4, <3>3
        <4> QED
          BY <4>1
      <3>4. CASE h = <<"update", gssb_update_status>>
        BY <3>4
      <3> QED
        BY <1>5, <3>1, <3>2, <3>3, <3>4
    <2> QED
      BY <2>1, <2>2, <2>3, <2>5 DEF Names
  <1> QED
    BY <1>1, <1>3, <1>4, <1>5, QuietHandlers

(* The range check is never the last call. *)
LEMMA RangeGoesOn ==
    ASSUME NEW h \in Handlers, NEW k \in 1 .. Len(h[2]), h[2][k] = "range"
    PROVE  k < Len(h[2])
  <1>0. h[2] \in Seq(Calls)
    BY Scripts
  <1>1. CASE h[1] = "query"
    <2>1. h[2] \in QuietScripts
      BY <1>1, Scripts
    <2>2. CASE h[2] = <<"range", "write">>
      <3>1. Len(h[2]) = 2 /\ h[2][2] = "write"
        BY <2>2
      <3> QED
        BY <3>1
    <2>3. CASE h[2] \in {<<"scan?">>, <<"write">>, <<"read">>, <<"wheel">>, <<"panel">>}
      <3>1. Len(h[2]) = 1 /\ h[2][1] # "range"
        BY <2>3
      <3> QED
        BY <3>1
    <2>4. CASE h[2] = <<"sample", "read">>
      <3>1. Len(h[2]) = 2 /\ h[2][1] # "range" /\ h[2][2] # "range"
        BY <2>4
      <3> QED
        BY <3>1
    <2>5. CASE h[2] \in {<<"wheel?", "wheel?", "wheel?">>, <<"panel", "panel", "panel">>}
      <3>1. Len(h[2]) = 3 /\ h[2][1] # "range" /\ h[2][2] # "range" /\ h[2][3] # "range"
        BY <2>5
      <3> QED
        BY <3>1
    <2> QED
      BY <2>1, <2>2, <2>3, <2>4, <2>5 DEF QuietScripts
  <1>2. CASE h[1] \in {"pwr", "select", "set_addr", "burn", "reset"}
    BY <1>2, Scripts DEF Others
  <1>3. CASE h[1] = "config"
    <2>1. Len(gssb_interstage_set_burn_settings) = 7 /\ gssb_interstage_set_burn_settings[7] = "reset?"
      BY DEF gssb_interstage_set_burn_settings
    <2>2. h[2] = gssb_interstage_set_burn_settings
      BY <1>3, Scripts
    <2>3. Len(h[2]) = 7 /\ h[2][7] = "reset?"
      BY <2>1, <2>2
    <2> QED
      BY <1>0, <2>3
  <1>4. CASE h[1] = "release"
    <2>1. Len(gssb_antenna_release) = 9 /\ gssb_antenna_release[9] = "burn"
      BY DEF gssb_antenna_release
    <2>2. h[2] = gssb_antenna_release
      BY <1>4, Scripts
    <2>3. Len(h[2]) = 9 /\ h[2][9] = "burn"
      BY <2>1, <2>2
    <2> QED
      BY <1>0, <2>3
  <1>5. CASE h[1] = "arm"
    <2>1. Len(h[2]) = 3 /\ h[2][3] = "lock"
      BY <1>5, Scripts DEF gssb_interstage_arm
    <2> QED
      BY <2>1
  <1>6. CASE h[1] \in {"unlock", "lock"}
    <2>1. Len(h[2]) = 1 /\ h[2][1] # "range"
      BY <1>6, Scripts
    <2> QED
      BY <2>1
  <1>7. CASE h[1] = "update"
    <2>1. Len(h[2]) = 2 /\ h[2][2] = "save?"
      BY <1>7, Scripts DEF gssb_update_status
    <2> QED
      BY <2>1
  <1> QED
    BY <1>1, <1>2, <1>3, <1>4, <1>5, <1>6, <1>7, Scripts DEF Names

(* The call a handler makes next. *)
LEMMA RunFacts ==
    ASSUME StagesType, run # Idle
    PROVE  /\ run \in [name : Names, left : Seq(Calls), arg : Stages \cup {Spare}, inRange : BOOLEAN,
                       todo : SUBSET Stages, sum : Nat, began : Nat]
           /\ run.left # <<>> /\ Len(run.left) \in Nat /\ Len(run.left) >= 1
           /\ run.name = "config" => /\ Len(run.left) <= 7
                                     /\ Head(run.left) = gssb_interstage_set_burn_settings[8 - Len(run.left)]
           /\ run.name = "release" => /\ Len(run.left) <= 9
                                      /\ Head(run.left) = gssb_antenna_release[10 - Len(run.left)]
           /\ run.name = "arm" => /\ Len(run.left) <= 3
                                  /\ Head(run.left) = gssb_interstage_arm[4 - Len(run.left)]
           /\ run.name = "unlock" => Len(run.left) = 1 /\ Head(run.left) = "unlock"
           /\ run.name = "lock" => Len(run.left) = 1 /\ Head(run.left) = "lock"
           /\ run.name = "update" => /\ Len(run.left) <= 2
                                     /\ Head(run.left) = gssb_update_status[3 - Len(run.left)]
           /\ run.name \notin {"config", "release", "arm", "unlock", "lock", "update"} =>
                  Head(run.left) \in Quiet \cup Others
           /\ Head(run.left) = "range" => Len(run.left) > 1
           /\ Len(run.left) > 1 => /\ Tail(run.left) \in Seq(Calls)
                                   /\ Len(Tail(run.left)) = Len(run.left) - 1
                                   /\ \E h \in Handlers : run.name = h[1] /\ EndOf(Tail(run.left), h[2])
  <1>1. run \in [name : Names, left : Seq(Calls), arg : Stages \cup {Spare}, inRange : BOOLEAN,
                 todo : SUBSET Stages, sum : Nat, began : Nat]
    BY DEF StagesType, RunType
  <1>2. PICK h \in Handlers : run.name = h[1] /\ EndOf(run.left, h[2])
    BY DEF StagesType, RunType
  <1>3. PICK l, s : l = run.left /\ s = h[2]
    OBVIOUS
  <1>4. s \in Seq(Calls) /\ EndOf(l, s)
    BY <1>2, <1>3, Scripts
  <1>5. /\ l \in Seq(Calls) /\ l # <<>> /\ Len(l) \in 1 .. Len(s) /\ Len(l) \in Nat
        /\ Head(l) = s[Len(s) - Len(l) + 1]
        /\ Len(s) - Len(l) + 1 \in 1 .. Len(s)
        /\ Len(l) > 1 => EndOf(Tail(l), s) /\ Len(Tail(l)) = Len(l) - 1
    BY <1>4, EndGoesOn
  <1>6. Len(l) > 1 => Tail(l) \in Seq(Calls)
    BY <1>5 DEF EndOf
  <1>7. \A n \in Nat : Len(s) = n => Len(l) <= n /\ Head(l) = s[n + 1 - Len(l)]
    <2>1. \A n \in Nat : Len(s) = n => Len(l) <= n /\ n + 1 - Len(l) = Len(s) - Len(l) + 1
      BY <1>5
    <2> QED
      BY <1>5, <2>1
  <1>8. /\ Len(gssb_interstage_set_burn_settings) = 7 /\ Len(gssb_antenna_release) = 9
        /\ Len(gssb_interstage_arm) = 3 /\ Len(gssb_update_status) = 2
    BY DEF gssb_interstage_set_burn_settings, gssb_antenna_release, gssb_interstage_arm, gssb_update_status
  <1>9. h[1] = "config" => Len(l) <= 7 /\ Head(l) = gssb_interstage_set_burn_settings[8 - Len(l)]
    <2>1. SUFFICES ASSUME h[1] = "config" PROVE Len(l) <= 7 /\ Head(l) = gssb_interstage_set_burn_settings[8 - Len(l)]
      OBVIOUS
    <2>2. s = gssb_interstage_set_burn_settings
      BY <1>3, <2>1, Scripts
    <2>3. Len(s) = 7
      BY <1>8, <2>2
    <2>4. Len(l) <= 7 /\ Head(l) = s[7 + 1 - Len(l)]
      BY <1>7, <2>3
    <2>5. 7 + 1 - Len(l) = 8 - Len(l)
      BY <1>5
    <2> QED
      BY <2>2, <2>4, <2>5
  <1>10. h[1] = "release" => Len(l) <= 9 /\ Head(l) = gssb_antenna_release[10 - Len(l)]
    <2>1. SUFFICES ASSUME h[1] = "release" PROVE Len(l) <= 9 /\ Head(l) = gssb_antenna_release[10 - Len(l)]
      OBVIOUS
    <2>2. s = gssb_antenna_release
      BY <1>3, <2>1, Scripts
    <2>3. Len(s) = 9
      BY <1>8, <2>2
    <2>4. Len(l) <= 9 /\ Head(l) = s[9 + 1 - Len(l)]
      BY <1>7, <2>3
    <2>5. 9 + 1 - Len(l) = 10 - Len(l)
      BY <1>5
    <2> QED
      BY <2>2, <2>4, <2>5
  <1>11. h[1] = "arm" => Len(l) <= 3 /\ Head(l) = gssb_interstage_arm[4 - Len(l)]
    <2>1. SUFFICES ASSUME h[1] = "arm" PROVE Len(l) <= 3 /\ Head(l) = gssb_interstage_arm[4 - Len(l)]
      OBVIOUS
    <2>2. s = gssb_interstage_arm
      BY <1>3, <2>1, Scripts
    <2>3. Len(s) = 3
      BY <1>8, <2>2
    <2>4. Len(l) <= 3 /\ Head(l) = s[3 + 1 - Len(l)]
      BY <1>7, <2>3
    <2>5. 3 + 1 - Len(l) = 4 - Len(l)
      BY <1>5
    <2> QED
      BY <2>2, <2>4, <2>5
  <1>12. h[1] = "update" => Len(l) <= 2 /\ Head(l) = gssb_update_status[3 - Len(l)]
    <2>1. SUFFICES ASSUME h[1] = "update" PROVE Len(l) <= 2 /\ Head(l) = gssb_update_status[3 - Len(l)]
      OBVIOUS
    <2>2. s = gssb_update_status
      BY <1>3, <2>1, Scripts
    <2>3. Len(s) = 2
      BY <1>8, <2>2
    <2>4. Len(l) <= 2 /\ Head(l) = s[2 + 1 - Len(l)]
      BY <1>7, <2>3
    <2>5. 2 + 1 - Len(l) = 3 - Len(l)
      BY <1>5
    <2> QED
      BY <2>2, <2>4, <2>5
  <1>13. \A c : s = <<c>> => Len(l) = 1 /\ Head(l) = c
    <2>1. ASSUME NEW c, s = <<c>>
          PROVE  Len(l) = 1 /\ Head(l) = c
      <3>1. Len(s) = 1 /\ s[1] = c
        BY <2>1
      <3>2. Len(l) = 1
        BY <1>5, <3>1
      <3>3. Len(s) - Len(l) + 1 = 1
        BY <3>1, <3>2
      <3> QED
        BY <1>5, <3>1, <3>2, <3>3
    <2> QED
      BY <2>1
  <1>14. h[1] = "unlock" => Len(l) = 1 /\ Head(l) = "unlock"
    BY <1>3, <1>13, Scripts
  <1>15. h[1] = "lock" => Len(l) = 1 /\ Head(l) = "lock"
    BY <1>3, <1>13, Scripts
  <1>16. h[1] \notin {"config", "release", "arm", "unlock", "lock", "update"} => Head(l) \in Quiet \cup Others
    BY <1>3, <1>5, Scripts
  <1>17. Len(l) >= 1
    BY <1>5
  <1>18. Head(l) = "range" => Len(l) > 1
    <2>1. s[Len(s) - Len(l) + 1] = "range" => Len(s) - Len(l) + 1 < Len(s)
      BY <1>3, <1>5, RangeGoesOn
    <2> QED
      BY <1>5, <2>1
  <1> QED
    BY <1>1, <1>2, <1>3, <1>5, <1>6, <1>9, <1>10, <1>11, <1>12, <1>14, <1>15, <1>16, <1>17, <1>18

--------------------------------------------------------------------------------
(* What a call may do to a board. *)
LEMMA EffectFacts ==
    ASSUME NEW b \in Board, NEW call, NEW c \in Effect(call, b),
           run.name \in Names, run.arg \in Stages \cup {Spare}
    PROVE  /\ c \in Board /\ c.released = b.released
           /\ call # "readdress?" => c.addr = b.addr
           /\ call # "unlock" /\ b.locked => c.locked
           /\ call = "lock" => c.locked
           /\ call = "unlock" => ~c.locked
           /\ call = "set" /\ ~b.locked => c.set = run.name
           /\ call # "set" => c.set = b.set
           /\ ~b.burning /\ c.burning => call = "burn" /\ b.armed
  <1>1. CASE call = "unlock"
    BY ZenonT(60), <1>1 DEF Effect, Board
  <1>2. CASE call = "lock"
    BY ZenonT(60), <1>2 DEF Effect, Board
  <1>3. CASE call = "set"
    BY <1>3 DEF Effect, Board
  <1>4. CASE call = "arm"
    BY ZenonT(60), <1>4 DEF Effect, Board
  <1>5. CASE call = "burn"
    BY ZenonT(60), <1>5 DEF Effect, Board
  <1>6. CASE call \in {"reset", "reset?"}
    <2>1. Effect(call, b) = {[b EXCEPT !.burning = FALSE, !.locked = l] : l \in {TRUE, b.locked}}
      BY <1>6 DEF Effect
    <2>2. PICK l \in {TRUE, b.locked} : c = [b EXCEPT !.burning = FALSE, !.locked = l]
      BY <2>1
    <2>3. l \in BOOLEAN /\ (b.locked => l)
      BY <2>2 DEF Board
    <2>4. /\ c = [addr |-> b.addr, locked |-> l, set |-> b.set, armed |-> b.armed,
                  burning |-> FALSE, released |-> b.released]
      BY <2>2 DEF Board
    <2>5. c \in Board
      BY <2>3, <2>4 DEF Board
    <2> QED
      BY <1>6, <2>3, <2>4, <2>5
  <1>7. CASE call = "readdress?"
    BY <1>7 DEF Effect, Board
  <1>8. CASE call \notin {"unlock", "lock", "set", "arm", "burn", "reset", "reset?", "readdress?"}
    BY <1>8 DEF Effect, Board
  <1> QED
    BY <1>1, <1>2, <1>3, <1>4, <1>5, <1>6, <1>7, <1>8

(* What the next call of the handlers that open boards, or count, can be. *)
LEMMA Positions ==
    ASSUME StagesType, run # Idle
    PROVE  /\ run.name = "config" =>
                  /\ Len(run.left) >= 7 => Head(run.left) = "read"
                  /\ Len(run.left) = 6 => Head(run.left) = "range"
                  /\ Len(run.left) = 2 => Head(run.left) = "lock"
                  /\ Len(run.left) = 1 => Head(run.left) = "reset?"
                  /\ Head(run.left) = "range" => Len(run.left) = 6
                  /\ Head(run.left) \in {"read", "range", "unlock", "set", "cnt", "lock", "reset?"}
           /\ run.name = "release" =>
                  /\ Len(run.left) = 8 => Head(run.left) = "unlock"
                  /\ Len(run.left) = 7 => Head(run.left) = "set"
                  /\ Len(run.left) <= 6 => Head(run.left) # "set"
                  /\ Head(run.left) = "burn" => Len(run.left) = 1
                  /\ Head(run.left) \in {"read", "unlock", "set", "cnt", "lock", "reset?", "arm", "burn"}
           /\ run.name = "arm" =>
                  /\ Len(run.left) = 1 => Head(run.left) = "lock"
                  /\ Head(run.left) \in {"unlock", "arm", "lock"}
           /\ run.name = "update" =>
                  /\ Len(run.left) = 2 => Head(run.left) = "poll"
                  /\ Len(run.left) = 1 => Head(run.left) = "save?"
                  /\ Len(run.left) \in {1, 2}
  <1>1. PICK c, n : c = Head(run.left) /\ n = Len(run.left)
    OBVIOUS
  <1>2. n \in Nat /\ n >= 1
    BY <1>1, RunFacts
  <1>3. ASSUME run.name = "config"
        PROVE  /\ n >= 7 => c = "read"
               /\ n = 6 => c = "range"
               /\ n = 2 => c = "lock"
               /\ n = 1 => c = "reset?"
               /\ c = "range" => n = 6
               /\ c \in {"read", "range", "unlock", "set", "cnt", "lock", "reset?"}
    <2>1. n <= 7 /\ c = gssb_interstage_set_burn_settings[8 - n]
      BY <1>1, <1>3, RunFacts
    <2>2. n \in 1 .. 7
      BY <1>2, <2>1
    <2>3. c = <<"read", "range", "unlock", "set", "cnt", "lock", "reset?">>[8 - n]
      BY <2>1 DEF gssb_interstage_set_burn_settings
    <2> QED
      BY <2>2, <2>3
  <1>4. ASSUME run.name = "release"
        PROVE  /\ n = 8 => c = "unlock"
               /\ n = 7 => c = "set"
               /\ n <= 6 => c # "set"
               /\ c = "burn" => n = 1
               /\ c \in {"read", "unlock", "set", "cnt", "lock", "reset?", "arm", "burn"}
    <2>1. n <= 9 /\ c = gssb_antenna_release[10 - n]
      BY <1>1, <1>4, RunFacts
    <2>2. n \in 1 .. 9
      BY <1>2, <2>1
    <2>3. c = <<"read", "unlock", "set", "cnt", "lock", "reset?", "unlock", "arm", "burn">>[10 - n]
      BY <2>1 DEF gssb_antenna_release
    <2> QED
      BY <2>2, <2>3
  <1>5. ASSUME run.name = "arm"
        PROVE  (n = 1 => c = "lock") /\ c \in {"unlock", "arm", "lock"}
    <2>1. n <= 3 /\ c = gssb_interstage_arm[4 - n]
      BY <1>1, <1>5, RunFacts
    <2>2. n \in 1 .. 3
      BY <1>2, <2>1
    <2>3. c = <<"unlock", "arm", "lock">>[4 - n]
      BY <2>1 DEF gssb_interstage_arm
    <2> QED
      BY <2>2, <2>3
  <1>6. ASSUME run.name = "update"
        PROVE  (n = 2 => c = "poll") /\ (n = 1 => c = "save?") /\ n \in {1, 2}
    <2>1. n <= 2 /\ c = gssb_update_status[3 - n]
      BY <1>1, <1>6, RunFacts
    <2>2. n \in 1 .. 2
      BY <1>2, <2>1
    <2>3. c = <<"poll", "save?">>[3 - n]
      BY <2>1 DEF gssb_update_status
    <2> QED
      BY <2>2, <2>3
  <1> QED
    BY <1>1, <1>3, <1>4, <1>5, <1>6

(* The handlers that open boards never call by another address. *)
LEMMA OpenersCalls ==
    StagesType /\ run # Idle /\ run.name \in Openers
        => Head(run.left) \notin {"uuid", "readdress?", "poll", "save?", "power?", "select?", "follow?",
                                  "wheel", "wheel?", "panel"}
  <1>1. SUFFICES ASSUME StagesType, run # Idle, run.name \in Openers
                 PROVE  Head(run.left) \notin {"uuid", "readdress?", "poll", "save?", "power?", "select?",
                                               "follow?", "wheel", "wheel?", "panel"}
    OBVIOUS
  <1>2. run.name = "unlock" => Head(run.left) = "unlock"
    BY <1>1, RunFacts
  <1>3. run.name \in {"config", "release", "arm"}
            => Head(run.left) \in {"read", "range", "unlock", "set", "cnt", "lock", "reset?", "arm", "burn"}
    BY <1>1, Positions
  <1> QED
    BY <1>1, <1>2, <1>3 DEF Openers

(* While such a handler goes on, it reaches the same boards. *)
LEMMA ReachedStays ==
    ASSUME StagesType, StagesType', run # Idle, run' # Idle, run.name \in Openers,
           run'.name = run.name, run'.arg = run.arg, powered' = powered, i2c_addr' = i2c_addr,
           \A d \in Stages : board'[d].addr = board[d].addr
    PROVE  Reached' = Reached
  <1>1. (StagesType /\ run # Idle /\ run.name \in Openers
        => Head(run.left) \notin {"uuid", "readdress?", "poll", "save?", "power?", "select?", "follow?",
                                  "wheel", "wheel?", "panel"})'
    BY OpenersCalls, PTL
  <1>2. Head(run.left) # "uuid" /\ Head(run'.left) # "uuid"
    BY <1>1, OpenersCalls
  <1>3. Target' = Target
    BY <1>2 DEF Target
  <1> QED
    BY <1>3 DEF Reached

(* A handler that makes one call and goes on. *)
LEMMA GoesOn ==
    ASSUME StagesType, run # Idle, Len(run.left) > 1, run' = [run EXCEPT !.left = Tail(run.left)]
    PROVE  /\ RunType' /\ run' # Idle /\ run'.name = run.name /\ run'.arg = run.arg
           /\ run'.todo = run.todo /\ run'.sum = run.sum /\ run'.began = run.began
           /\ Len(run'.left) = Len(run.left) - 1 /\ Len(run.left) \in Nat
  <1>1. /\ run \in [name : Names, left : Seq(Calls), arg : Stages \cup {Spare}, inRange : BOOLEAN,
                    todo : SUBSET Stages, sum : Nat, began : Nat]
        /\ Tail(run.left) \in Seq(Calls) /\ Len(Tail(run.left)) = Len(run.left) - 1
        /\ Len(run.left) \in Nat
    BY RunFacts
  <1>2. PICK h \in Handlers : run.name = h[1] /\ EndOf(Tail(run.left), h[2])
    BY RunFacts
  <1>3. PICK l : l = Tail(run.left)
    OBVIOUS
  <1>4. /\ run' \in [name : Names, left : Seq(Calls), arg : Stages \cup {Spare}, inRange : BOOLEAN,
                     todo : SUBSET Stages, sum : Nat, began : Nat]
        /\ run'.name = run.name /\ run'.left = l /\ run'.arg = run.arg
        /\ run'.todo = run.todo /\ run'.sum = run.sum /\ run'.began = run.began
    BY <1>1, <1>3
  <1>5. run' # Idle
    <2>1. run'.name \in Names
      BY <1>4
    <2>2. Idle.name \notin Names
      BY DEF Idle, Names
    <2> QED
      BY <2>1, <2>2
  <1>6. RunType'
    BY <1>2, <1>3, <1>4 DEF RunType
  <1> QED
    BY <1>1, <1>3, <1>4, <1>5, <1>6

(* A device call, whether it succeeds or not. *)
LEMMA CallFacts ==
    ASSUME StagesType, CallOK \/ CallFails
    PROVE  /\ run # Idle /\ Head(run.left) \in DeviceCalls
           /\ board' \in [Stages -> Board]
           /\ \A d \in Stages : board'[d] # board[d] => d \in Reached
           /\ \A d \in Stages : \/ board'[d] = board[d] /\ CallFails
                                \/ board'[d] = board[d] /\ d \notin Reached
                                \/ board'[d] \in Effect(Head(run.left), board[d])
           /\ UNCHANGED <<powered, i2c_addr, deployed>>
           /\ \/ /\ Len(run.left) > 1 /\ run' = [run EXCEPT !.left = Tail(run.left)] /\ UNCHANGED notes
                 /\ CallOK \/ Head(run.left) \in {"reset?", "readdress?", "scan?"}
              \/ CallOK /\ Len(run.left) = 1 /\ Leave(IF run.name \in {"unlock", "release"} THEN "asked" ELSE "locked")
              \/ CallFails /\ Leave("failed")
  <1>1. run # Idle /\ Head(run.left) \in DeviceCalls /\ UNCHANGED <<powered, i2c_addr, deployed>>
    BY DEF CallOK, CallFails
  <1>2. /\ board \in [Stages -> Board] /\ run.name \in Names /\ run.arg \in Stages \cup {Spare}
        /\ Len(run.left) \in Nat /\ Len(run.left) >= 1
    BY <1>1, RunFacts DEF StagesType
  <1>3. \A d \in Stages : Effect(Head(run.left), board[d]) \subseteq Board
    BY <1>2, EffectFacts
  <1>4. Reached \subseteq Stages
    BY DEF Reached
  <1>5. CASE CallOK
    <2>1. PICK f \in [Reached -> UNION {Effect(Head(run.left), board[d]) : d \in Reached}] :
              /\ \A d \in Reached : f[d] \in Effect(Head(run.left), board[d])
              /\ board' = [d \in Stages |-> IF d \in Reached THEN f[d] ELSE board[d]]
      BY <1>5 DEF CallOK
    <2>2. \A d \in Stages : \/ board'[d] = board[d] /\ d \notin Reached
                            \/ board'[d] \in Effect(Head(run.left), board[d]) /\ d \in Reached
      BY <2>1
    <2>3. board' \in [Stages -> Board]
      BY <1>2, <1>3, <1>4, <2>1
    <2>4. \/ Len(run.left) > 1 /\ run' = [run EXCEPT !.left = Tail(run.left)] /\ UNCHANGED notes
          \/ Len(run.left) = 1 /\ Leave(IF run.name \in {"unlock", "release"} THEN "asked" ELSE "locked")
      <3>1. CASE Len(run.left) = 1
        BY <1>5, <3>1 DEF CallOK
      <3>2. CASE Len(run.left) > 1
        BY <1>5, <3>2 DEF CallOK
      <3>3. PICK n : n = Len(run.left)
        OBVIOUS
      <3>4. n \in Nat /\ n >= 1
        BY <1>2, <3>3, Zenon
      <3>5. n = 1 \/ n > 1
        BY <3>4
      <3> QED
        BY <3>1, <3>2, <3>3, <3>5
    <2> QED
      BY <1>1, <1>5, <2>2, <2>3, <2>4
  <1>6. CASE CallFails
    <2>1. \/ board' = board
          \/ \E d \in Reached : \E b \in Effect(Head(run.left), board[d]) : board' = [board EXCEPT ![d] = b]
      BY <1>6 DEF CallFails
    <2>2. /\ board' \in [Stages -> Board]
          /\ \A d \in Stages : \/ board'[d] = board[d]
                               \/ board'[d] \in Effect(Head(run.left), board[d]) /\ d \in Reached
      <3>1. CASE board' = board
        BY <1>2, <3>1
      <3>2. CASE \E d \in Reached : \E b \in Effect(Head(run.left), board[d]) : board' = [board EXCEPT ![d] = b]
        <4>1. PICK e \in Reached : \E b \in Effect(Head(run.left), board[e]) : board' = [board EXCEPT ![e] = b]
          BY <3>2
        <4>2. PICK b \in Effect(Head(run.left), board[e]) : board' = [board EXCEPT ![e] = b]
          BY <4>1
        <4>3. e \in Stages /\ b \in Board
          BY <1>3, <1>4
        <4> QED
          BY <1>2, <4>2, <4>3
      <3> QED
        BY <2>1, <3>1, <3>2
    <2>3. \/ /\ Len(run.left) > 1 /\ run' = [run EXCEPT !.left = Tail(run.left)] /\ UNCHANGED notes
             /\ Head(run.left) \in {"reset?", "readdress?", "scan?"}
          \/ Leave("failed")
      BY <1>6 DEF CallFails
    <2> QED
      BY <1>1, <1>6, <2>2, <2>3
  <1> QED
    BY <1>5, <1>6

(* Leaving a handler: nothing but the notes. *)
LEMMA LeaveFacts ==
    ASSUME StagesType, NEW how \in {"locked", "failed", "asked"}, Leave(how)
    PROVE  /\ run' = Idle /\ RunType'
           /\ notes' \in [why : [Stages -> {"locked", "failed", "asked"}], low : Nat]
           /\ notes'.low = notes.low
           /\ \A d \in Stages :
                  notes'.why[d] = IF d \in Reached /\ run.name \in {"config", "arm", "unlock", "lock", "release"}
                                  THEN how ELSE notes.why[d]
  BY DEF Leave, StagesType, RunType

--------------------------------------------------------------------------------
(* Counting *)

LEMMA Subsets ==
    ASSUME NEW S, IsFiniteSet(S), NEW A \in SUBSET S, NEW B \in SUBSET S, A \subseteq B
    PROVE  /\ Cardinality(A) \in Nat /\ Cardinality(B) \in Nat
           /\ Cardinality(A) <= Cardinality(B)
  <1>1. IsFiniteSet(A) /\ IsFiniteSet(B)
    BY FS_Subset
  <1>2. Cardinality(A) <= Cardinality(B)
    BY <1>1, FS_Subset
  <1> QED
    BY <1>1, <1>2, FS_CardinalityType

LEMMA Disjoint ==
    ASSUME NEW S, IsFiniteSet(S), NEW A \in SUBSET S, NEW B \in SUBSET S, A \cap B = {}
    PROVE  Cardinality(A \cup B) = Cardinality(A) + Cardinality(B)
  <1>1. IsFiniteSet(A) /\ IsFiniteSet(B)
    BY FS_Subset
  <1>2. Cardinality(A \cup B) = Cardinality(A) + Cardinality(B) - Cardinality({})
    BY <1>1, FS_Union, Zenon
  <1>3. Cardinality(A) \in Nat /\ Cardinality(B) \in Nat /\ Cardinality({}) = 0
    BY <1>1, FS_CardinalityType, FS_EmptySet
  <1> QED
    BY <1>2, <1>3

(* When each of the addresses S has one of as many boards, each board has  *)
(* one of the addresses.                                                   *)
LEMMA EachPolled ==
    ASSUME NEW S, IsFiniteSet(S), NEW f, \A a \in S : \E d \in S : f[d] = a
    PROVE  \A d \in S : f[d] \in S
  <1> DEFINE D == {d \in S : f[d] \in S}
  <1> DEFINE g == [d \in D |-> f[d]]
  <1>1. g \in Surjection(D, S)
    BY DEF Surjection
  <1>2. IsFiniteSet(D) /\ Cardinality(D) <= Cardinality(S) /\ (Cardinality(S) = Cardinality(D) => S = D)
    BY FS_Subset
  <1>3. Cardinality(S) <= Cardinality(D)
    BY <1>1, <1>2, FS_Surjection
  <1>4. Cardinality(S) \in Nat /\ Cardinality(D) \in Nat
    BY <1>2, FS_CardinalityType
  <1>5. S = D
    BY <1>2, <1>3, <1>4
  <1> QED
    BY <1>5

LEMMA CountFacts ==
    /\ Cardinality(Out) \in Nat /\ Released = Cardinality(Out)
    /\ Cardinality(Out \cap Polled) \in Nat /\ Cardinality(Out \ Polled) \in Nat
    /\ Cardinality(Out \cap Polled) <= Cardinality(Out)
    /\ IsFiniteSet(Stages)
  <1>1. IsFiniteSet(Stages)
    BY InterstagesAssumption
  <1>2. Out \subseteq Stages
    BY DEF Out
  <1>3. Released = Cardinality(Out)
    BY DEF Released, Out
  <1>4. Cardinality(Out \cap Polled) \in Nat /\ Cardinality(Out \cap Polled) <= Cardinality(Out)
        /\ Cardinality(Out) \in Nat
    BY <1>1, <1>2, Subsets
  <1>5. Cardinality(Out \ Polled) \in Nat
    BY <1>1, <1>2, Subsets
  <1> QED
    BY <1>1, <1>3, <1>4, <1>5

(* The release of antennas leaves the counts sound. *)
LEMMA OutGrows ==
    ASSUME StagesType, StagesType', PollInv, DeployedSound, run' = run, deployed' = deployed,
           notes'.low = notes.low,
           \A d \in Stages : board'[d].addr = board[d].addr /\ (board[d].released => board'[d].released)
    PROVE  PollInv' /\ DeployedSound'
  <1>1. Out \subseteq Out' /\ Polled' = Polled
    BY DEF Out, Polled
  <1>2. Out \subseteq Stages /\ Out' \subseteq Stages /\ IsFiniteSet(Stages)
    BY InterstagesAssumption DEF Out
  <1>3. Released = Cardinality(Out) /\ Released' = Cardinality(Out')
    BY DEF Released, Out
  <1>4. Cardinality(Out) \in Nat /\ Cardinality(Out') \in Nat /\ Cardinality(Out) <= Cardinality(Out')
    BY <1>1, <1>2, Subsets
  <1>5. DeployedSound'
    <2>1. PICK m, n : m = Cardinality(Out) /\ n = Cardinality(Out')
      OBVIOUS
    <2>2. notes.low <= deployed /\ deployed <= m /\ m <= n /\ m \in Nat /\ n \in Nat /\ deployed \in Nat
      BY <1>3, <1>4, <2>1 DEF DeployedSound, StagesType
    <2> QED
      BY <1>3, <2>1, <2>2 DEF DeployedSound
  <1>6. ASSUME run # Idle, run.name = "update"
        PROVE  /\ run.sum <= Cardinality(Out' \cap Polled')
               /\ run.began <= run.sum + Cardinality(Out' \ Polled')
    <2>1. /\ Cardinality(Out \cap Polled) \in Nat /\ Cardinality(Out' \cap Polled) \in Nat
          /\ Cardinality(Out \cap Polled) <= Cardinality(Out' \cap Polled)
      BY <1>1, <1>2, Subsets
    <2>2. /\ Cardinality(Out \ Polled) \in Nat /\ Cardinality(Out' \ Polled) \in Nat
          /\ Cardinality(Out \ Polled) <= Cardinality(Out' \ Polled)
      BY <1>1, <1>2, Subsets
    <2>3. run.sum \in Nat /\ run.began \in Nat
      BY <1>6, RunFacts
    <2>4. run.sum <= Cardinality(Out \cap Polled) /\ run.began <= run.sum + Cardinality(Out \ Polled)
      BY <1>6 DEF PollInv
    <2>5. PICK p, q, p1, q1 : /\ p = Cardinality(Out \cap Polled) /\ q = Cardinality(Out \ Polled)
                              /\ p1 = Cardinality(Out' \cap Polled) /\ q1 = Cardinality(Out' \ Polled)
      OBVIOUS
    <2>6. run.sum <= p1
      BY <2>1, <2>3, <2>4, <2>5
    <2>7. run.began <= run.sum + q1
      BY <2>2, <2>3, <2>4, <2>5
    <2> QED
      BY <1>1, <2>5, <2>6, <2>7
  <1>7. PollInv'
    BY <1>6 DEF PollInv
  <1> QED
    BY <1>5, <1>7

--------------------------------------------------------------------------------
(* The invariant *)

LEMMA StagesInvInit == StagesInit => StagesInv
  <1>1. SUFFICES ASSUME StagesInit PROVE StagesInv
    OBVIOUS
  <1>2. StagesType
    BY <1>1 DEF StagesInit, StagesType, RunType, Board
  <1>3. OpenInv
    BY <1>1 DEF StagesInit, OpenInv
  <1>4. ReleaseInv /\ PollInv
    BY <1>1 DEF StagesInit, ReleaseInv, PollInv
  <1>5. DeployedSound
    <2>1. Released \in Nat
      BY CountFacts
    <2> QED
      BY <1>1, <2>1 DEF StagesInit, DeployedSound
  <1> QED
    BY <1>2, <1>3, <1>4, <1>5 DEF StagesInv

LEMMA StartStep ==
    ASSUME StagesInv, NEW h \in cmd_gssb_init \cup cmd_rw_init, NEW a \in Stages \cup {Spare},
           NEW in \in BOOLEAN, StartHandler(h, a, in)
    PROVE  StagesInv'
  <1>1. PICK n, s : n = h[1] /\ s = h[2]
    OBVIOUS
  <1>2. h \in Handlers /\ n \in Names /\ s \in Seq(Calls) /\ s # <<>> /\ EndOf(s, s)
    BY <1>1, Scripts, EndStarts DEF Handlers
  <1>3. /\ run = Idle
        /\ run' = [name |-> n, left |-> s, arg |-> a, inRange |-> in,
                   todo |-> Stages, sum |-> 0, began |-> Released]
        /\ UNCHANGED <<board, powered, i2c_addr, deployed, notes>>
    BY <1>1 DEF StartHandler
  <1>4. Released \in Nat /\ Released = Cardinality(Out) /\ IsFiniteSet(Stages)
    BY CountFacts
  <1>5. /\ run' \in [name : Names, left : Seq(Calls), arg : Stages \cup {Spare}, inRange : BOOLEAN,
                     todo : SUBSET Stages, sum : Nat, began : Nat]
        /\ run'.name = h[1] /\ run'.left = h[2] /\ run'.todo = Stages /\ run'.sum = 0 /\ run'.began = Released
    BY <1>1, <1>2, <1>3, <1>4
  <1>6. RunType'
    BY <1>1, <1>2, <1>5 DEF RunType
  <1>7. StagesType'
    BY <1>3, <1>6 DEF StagesInv, StagesType
  <1>8. n = "config" => Len(s) = 7
    <2>1. Len(gssb_interstage_set_burn_settings) = 7
      BY DEF gssb_interstage_set_burn_settings
    <2>2. n = "config" => s = gssb_interstage_set_burn_settings
      BY <1>1, <1>2, Scripts
    <2> QED
      BY <2>1, <2>2
  <1>9. n = "release" => Len(s) = 9
    <2>1. Len(gssb_antenna_release) = 9
      BY DEF gssb_antenna_release
    <2>2. n = "release" => s = gssb_antenna_release
      BY <1>1, <1>2, Scripts
    <2> QED
      BY <2>1, <2>2
  <1>10. n = "update" => Head(s) = "poll"
    <2>1. Head(gssb_update_status) = "poll"
      BY DEF gssb_update_status
    <2>2. n = "update" => s = gssb_update_status
      BY <1>1, <1>2, Scripts
    <2> QED
      BY <2>1, <2>2
  <1>11. \A d \in Stages : board[d].locked \/ notes.why[d] # "locked"
    BY <1>3 DEF StagesInv, OpenInv
  <1>12. OpenInv'
    BY SMTT(60), <1>1, <1>3, <1>5, <1>8, <1>11 DEF OpenInv
  <1>13. ReleaseInv'
    <2>1. run'.name = "release" => Len(run'.left) = 9
      BY <1>1, <1>5, <1>9
    <2>2. PICK m : m = Len(run'.left)
      OBVIOUS
    <2>3. m = 9 => ~(m = 7) /\ ~(m <= 6)
      OBVIOUS
    <2> QED
      BY <2>1, <2>2, <2>3 DEF ReleaseInv
  <1>14. PollInv'
    <2>1. Polled' = {} /\ Out' = Out
      BY <1>3, <1>5 DEF Polled, Out
    <2>2. Cardinality(Out' \cap Polled') = 0
      BY <2>1, FS_EmptySet
    <2>3. Out' \ Polled' = Out
      BY <2>1
    <2>4. run'.began <= run'.sum + Cardinality(Out' \ Polled')
      <3>1. run'.began = Released /\ run'.sum = 0 /\ Cardinality(Out' \ Polled') = Released
        BY <1>4, <1>5, <2>3
      <3>2. Released <= 0 + Released
        BY <1>4
      <3> QED
        BY <3>1, <3>2
    <2> QED
      BY <1>1, <1>5, <1>10, <2>2, <2>4 DEF PollInv
  <1>15. DeployedSound'
    BY <1>3 DEF StagesInv, DeployedSound, Released
  <1> QED
    BY <1>7, <1>12, <1>13, <1>14, <1>15 DEF StagesInv

(* Device calls do not change the counts. *)
LEMMA CallKeepsCounts ==
    ASSUME StagesInv, CallOK \/ CallFails, notes'.low = notes.low
    PROVE  DeployedSound' /\ run.name # "update"
  <1>1. StagesType
    BY DEF StagesInv
  <1>2. /\ run # Idle /\ Head(run.left) \in DeviceCalls /\ deployed' = deployed
        /\ \A d \in Stages : board'[d] = board[d] \/ board'[d] \in Effect(Head(run.left), board[d])
    BY <1>1, CallFacts
  <1>3. board \in [Stages -> Board] /\ run.name \in Names /\ run.arg \in Stages \cup {Spare}
    BY <1>1, <1>2, RunFacts DEF StagesType
  <1>4. \A d \in Stages : board'[d].released = board[d].released
    BY <1>2, <1>3, EffectFacts
  <1>5. Released' = Released
    BY <1>4 DEF Released
  <1>6. DeployedSound'
    BY <1>2, <1>5 DEF StagesInv, DeployedSound
  <1>7. run.name = "update" => Head(run.left) \in {"poll", "save?"}
    BY <1>1, <1>2, Positions
  <1> QED
    BY <1>2, <1>6, <1>7 DEF DeviceCalls

(* A handler makes a device call and goes on. *)
LEMMA CallGoesOn ==
    ASSUME StagesInv, CallOK \/ CallFails, Len(run.left) > 1, UNCHANGED notes,
           run' = [run EXCEPT !.left = Tail(run.left)],
           CallOK \/ Head(run.left) \in {"reset?", "readdress?", "scan?"}
    PROVE  StagesInv'
  <1>1. StagesType
    BY DEF StagesInv
  <1>2. PICK call : call = Head(run.left)
    OBVIOUS
  <1>3. /\ run # Idle /\ call \in DeviceCalls
        /\ board' \in [Stages -> Board]
        /\ \A d \in Stages : board'[d] # board[d] => d \in Reached
        /\ \A d \in Stages : \/ board'[d] = board[d] /\ CallFails
                             \/ board'[d] = board[d] /\ d \notin Reached
                             \/ board'[d] \in Effect(call, board[d])
        /\ UNCHANGED <<powered, i2c_addr, deployed>>
    BY <1>1, <1>2, CallFacts
  <1>4. /\ RunType' /\ run' # Idle /\ run'.name = run.name /\ run'.arg = run.arg
        /\ Len(run'.left) = Len(run.left) - 1 /\ Len(run.left) \in Nat
    BY <1>1, <1>3, GoesOn
  <1>5. StagesType'
    BY <1>1, <1>3, <1>4 DEF StagesType
  <1>6. board \in [Stages -> Board] /\ run.name \in Names /\ run.arg \in Stages \cup {Spare}
    BY <1>1, <1>3, RunFacts DEF StagesType
  <1>7. ASSUME run.name \in Openers
        PROVE  Reached' = Reached
    <2>1. call # "readdress?"
      BY <1>1, <1>2, <1>3, <1>7, OpenersCalls
    <2>2. \A d \in Stages : board'[d].addr = board[d].addr
      BY <1>3, <1>6, <2>1, EffectFacts
    <2> QED
      BY <1>1, <1>3, <1>4, <1>5, <1>7, <2>2, ReachedStays
  <1>8. ASSUME NEW d \in Stages, call # "unlock", board[d].locked
        PROVE  board'[d].locked
    BY <1>3, <1>6, <1>8, EffectFacts
  <1>9. call = "unlock" => run.name \in Openers
    <2>1. run.name = "lock" => Head(run.left) = "lock"
      BY <1>1, <1>3, RunFacts
    <2>2. run.name = "update" => Head(run.left) \in {"poll", "save?"}
      BY <1>1, <1>3, Positions
    <2>3. run.name \notin {"config", "release", "arm", "unlock", "lock", "update"}
              => Head(run.left) \in Quiet \cup Others
      BY <1>1, <1>3, RunFacts
    <2> QED
      BY <1>2, <2>1, <2>2, <2>3 DEF Openers, Quiet, Others
  <1>10. ASSUME NEW d \in Stages
         PROVE  \/ board'[d].locked \/ notes.why[d] # "locked"
                \/ run.name \in Openers /\ d \in Reached
    <2>1. \/ board[d].locked \/ notes.why[d] # "locked"
          \/ run.name \in Openers /\ d \in Reached
      BY DEF StagesInv, OpenInv
    <2>2. CASE call = "unlock" /\ board'[d] # board[d]
      BY <1>3, <1>9, <2>2
    <2>3. CASE call # "unlock" \/ board'[d] = board[d]
      BY <1>8, <2>1, <2>3
    <2> QED
      BY <2>2, <2>3
  <1>11. PICK n : n = Len(run.left)
    OBVIOUS
  <1>12. n \in Nat /\ Len(run'.left) = n - 1
    BY <1>4, <1>11
  <1>13. ASSUME run.name = "config"
         PROVE  /\ n - 1 >= 6 => \A d \in Stages : board'[d].locked \/ notes.why[d] # "locked"
                /\ n - 1 = 1 => \A d \in Reached : board'[d].locked
    <2>1. /\ n >= 7 => call = "read"
          /\ n = 2 => call = "lock"
      BY <1>1, <1>2, <1>3, <1>11, <1>13, Positions
    <2>2. n >= 6 => \A d \in Stages : board[d].locked \/ notes.why[d] # "locked"
      BY <1>3, <1>11, <1>13 DEF StagesInv, OpenInv
    <2>3. n - 1 >= 6 => n >= 7 /\ n >= 6
      BY <1>12
    <2>4. ASSUME n - 1 >= 6, NEW d \in Stages
          PROVE  board'[d].locked \/ notes.why[d] # "locked"
      BY <1>8, <2>1, <2>2, <2>3, <2>4
    <2>5. n - 1 = 1 => n = 2
      BY <1>12
    <2>6. ASSUME n - 1 = 1, NEW d \in Reached
          PROVE  board'[d].locked
      <3>1. call = "lock" /\ ~(call \in {"reset?", "readdress?", "scan?"}) /\ d \in Stages
        BY <2>1, <2>5, <2>6 DEF Reached
      <3>2. ~CallFails \/ board'[d] \in Effect(call, board[d])
        <4>1. CallOK
          BY <1>2, <3>1
        <4>2. PICK f \in [Reached -> UNION {Effect(Head(run.left), board[e]) : e \in Reached}] :
              /\ \A e \in Reached : f[e] \in Effect(Head(run.left), board[e])
              /\ board' = [e \in Stages |-> IF e \in Reached THEN f[e] ELSE board[e]]
          BY <4>1 DEF CallOK
        <4> QED
          BY <1>2, <2>6, <3>1, <4>2
      <3>3. board'[d] \in Effect(call, board[d])
        BY <1>3, <2>6, <3>1, <3>2
      <3> QED
        BY <1>6, <3>1, <3>3, EffectFacts
    <2> QED
      BY <2>4, <2>6
  <1>14. OpenInv'
    <2>1. \A d \in Stages : \/ board'[d].locked \/ notes'.why[d] # "locked"
                            \/ run' # Idle /\ run'.name \in Openers /\ d \in Reached'
      BY <1>4, <1>7, <1>10
    <2>2. ASSUME run'.name = "config"
          PROVE  /\ Len(run'.left) >= 6 =>
                        \A d \in Stages : board'[d].locked \/ notes'.why[d] # "locked"
                 /\ Len(run'.left) = 1 => \A d \in Reached' : board'[d].locked
      BY <1>4, <1>7, <1>12, <1>13, <2>2 DEF Openers
    <2> QED
      BY <2>1, <2>2 DEF OpenInv
  <1>15. ASSUME run.name = "release"
         PROVE  /\ n - 1 = 7 => \A d \in Reached : ~board'[d].locked
                /\ n - 1 <= 6 => \A d \in Reached : board'[d].set = "release"
    <2>1. /\ n = 8 => call = "unlock"
          /\ n = 7 => call = "set"
          /\ n <= 6 => call # "set"
      BY <1>1, <1>2, <1>3, <1>11, <1>15, Positions
    <2>2. /\ n = 7 => \A d \in Reached : ~board[d].locked
          /\ n <= 6 => \A d \in Reached : board[d].set = "release"
      BY <1>3, <1>11, <1>15 DEF StagesInv, ReleaseInv
    <2>3. (n - 1 = 7 => n = 8) /\ (n - 1 <= 6 => n = 7 \/ n <= 6)
      BY <1>12
    <2>4. ASSUME NEW d \in Reached, call \in {"unlock", "set"}
          PROVE  board'[d] \in Effect(call, board[d])
      <3>1. d \in Stages
        BY DEF Reached
      <3>2. CallOK
        BY <1>2, <2>4
      <3>3. PICK f \in [Reached -> UNION {Effect(Head(run.left), board[e]) : e \in Reached}] :
            /\ \A e \in Reached : f[e] \in Effect(Head(run.left), board[e])
            /\ board' = [e \in Stages |-> IF e \in Reached THEN f[e] ELSE board[e]]
        BY <3>2 DEF CallOK
      <3> QED
        BY <1>2, <3>1, <3>3
    <2>5. ASSUME n - 1 = 7, NEW d \in Reached
          PROVE  ~board'[d].locked
      <3>1. call = "unlock" /\ d \in Stages
        BY <2>1, <2>3, <2>5 DEF Reached
      <3> QED
        BY <1>6, <2>4, <3>1, EffectFacts
    <2>6. ASSUME n = 7, NEW d \in Reached
          PROVE  board'[d].set = "release"
      <3>1. call = "set" /\ d \in Stages /\ ~board[d].locked
        BY <2>1, <2>2, <2>6 DEF Reached
      <3> QED
        BY <1>6, <1>15, <2>4, <3>1, EffectFacts
    <2>7. ASSUME n <= 6, NEW d \in Reached
          PROVE  board'[d].set = "release"
      <3>1. call # "set" /\ d \in Stages /\ board[d].set = "release"
        BY <2>1, <2>2, <2>7 DEF Reached
      <3> QED
        BY <1>3, <1>6, <3>1, EffectFacts
    <2> QED
      BY <2>3, <2>5, <2>6, <2>7
  <1>16. ReleaseInv'
    <2>1. ASSUME run'.name = "release"
          PROVE  /\ Len(run'.left) = 7 => \A d \in Reached' : ~board'[d].locked
                 /\ Len(run'.left) <= 6 => \A d \in Reached' : board'[d].set = "release"
      BY <1>4, <1>7, <1>12, <1>15, <2>1 DEF Openers
    <2> QED
      BY <2>1 DEF ReleaseInv
  <1>17. DeployedSound' /\ run.name # "update"
    BY CallKeepsCounts
  <1>18. PollInv'
    BY <1>4, <1>17 DEF PollInv
  <1> QED
    BY <1>5, <1>14, <1>16, <1>17, <1>18 DEF StagesInv

(* A handler makes a device call and ends. *)
LEMMA CallLeaves ==
    ASSUME StagesInv, CallOK \/ CallFails, NEW how \in {"locked", "failed", "asked"}, Leave(how),
           how = "locked" => /\ CallOK /\ Len(run.left) = 1
                             /\ run.name \notin {"unlock", "release"}
    PROVE  StagesInv'
  <1>1. StagesType
    BY DEF StagesInv
  <1>2. PICK call : call = Head(run.left)
    OBVIOUS
  <1>3. /\ run # Idle /\ call \in DeviceCalls
        /\ board' \in [Stages -> Board]
        /\ \A d \in Stages : board'[d] # board[d] => d \in Reached
        /\ \A d \in Stages : \/ board'[d] = board[d] /\ CallFails
                             \/ board'[d] = board[d] /\ d \notin Reached
                             \/ board'[d] \in Effect(call, board[d])
        /\ UNCHANGED <<powered, i2c_addr, deployed>>
    BY <1>1, <1>2, CallFacts
  <1>4. /\ run' = Idle /\ RunType'
        /\ notes' \in [why : [Stages -> {"locked", "failed", "asked"}], low : Nat]
        /\ notes'.low = notes.low
        /\ \A d \in Stages :
               notes'.why[d] = IF d \in Reached /\ run.name \in {"config", "arm", "unlock", "lock", "release"}
                               THEN how ELSE notes.why[d]
    BY <1>1, LeaveFacts
  <1>5. StagesType'
    BY <1>1, <1>3, <1>4 DEF StagesType
  <1>6. board \in [Stages -> Board] /\ run.name \in Names /\ run.arg \in Stages \cup {Spare}
    BY <1>1, <1>3, RunFacts DEF StagesType
  <1>7. call = "unlock" => run.name \in Openers
    <2>1. run.name = "lock" => Head(run.left) = "lock"
      BY <1>1, <1>3, RunFacts
    <2>2. run.name = "update" => Head(run.left) \in {"poll", "save?"}
      BY <1>1, <1>3, Positions
    <2>3. run.name \notin {"config", "release", "arm", "unlock", "lock", "update"}
              => Head(run.left) \in Quiet \cup Others
      BY <1>1, <1>3, RunFacts
    <2> QED
      BY <1>2, <2>1, <2>2, <2>3 DEF Openers, Quiet, Others
  <1>8. ASSUME NEW d \in Stages
        PROVE  board'[d].locked \/ notes'.why[d] # "locked"
    <2>1. \/ board[d].locked \/ notes.why[d] # "locked"
          \/ run.name \in Openers /\ d \in Reached
      BY DEF StagesInv, OpenInv
    <2>2. CASE d \notin Reached
      <3>1. board'[d] = board[d] /\ notes'.why[d] = notes.why[d]
        BY <1>3, <1>4, <2>2
      <3> QED
        BY <2>1, <2>2, <3>1
    <2>3. CASE d \in Reached /\ run.name \notin {"config", "arm", "unlock", "lock", "release"}
      <3>1. notes'.why[d] = notes.why[d] /\ call # "unlock"
        BY <1>4, <1>7, <2>3 DEF Openers
      <3>2. board[d].locked => board'[d].locked
        BY <1>3, <1>6, <3>1, EffectFacts
      <3> QED
        BY <2>1, <2>3, <3>1, <3>2 DEF Openers
    <2>4. CASE d \in Reached /\ run.name \in {"config", "arm", "unlock", "lock", "release"} /\ how # "locked"
      BY <1>4, <2>4
    <2>5. CASE d \in Reached /\ run.name \in {"config", "arm", "lock"} /\ how = "locked"
      <3>1. run.name = "arm" \/ run.name = "lock" => call = "lock"
        BY <1>1, <1>2, <1>3, <2>5, Positions, RunFacts
      <3>2. run.name = "config" => call = "reset?" /\ board[d].locked
        BY <1>1, <1>2, <1>3, <2>5, Positions DEF StagesInv, OpenInv
      <3>3. board'[d] \in Effect(call, board[d])
        <4>1. PICK f \in [Reached -> UNION {Effect(Head(run.left), board[e]) : e \in Reached}] :
              /\ \A e \in Reached : f[e] \in Effect(Head(run.left), board[e])
              /\ board' = [e \in Stages |-> IF e \in Reached THEN f[e] ELSE board[e]]
          BY <2>5 DEF CallOK
        <4> QED
          BY <1>2, <2>5, <4>1
      <3> QED
        BY <1>6, <2>5, <3>1, <3>2, <3>3, EffectFacts
    <2> QED
      BY <2>2, <2>3, <2>4, <2>5
  <1>9. OpenInv' /\ ReleaseInv' /\ PollInv'
    BY <1>4, <1>8 DEF OpenInv, ReleaseInv, PollInv
  <1>10. DeployedSound'
    BY <1>4, CallKeepsCounts
  <1> QED
    BY <1>5, <1>9, <1>10 DEF StagesInv

LEMMA CallStep ==
    ASSUME StagesInv, CallOK \/ CallFails
    PROVE  StagesInv'
  <1>1. StagesType
    BY DEF StagesInv
  <1>2. CASE /\ Len(run.left) > 1 /\ run' = [run EXCEPT !.left = Tail(run.left)] /\ UNCHANGED notes
             /\ CallOK \/ Head(run.left) \in {"reset?", "readdress?", "scan?"}
    BY <1>2, CallGoesOn
  <1>3. CASE CallOK /\ Len(run.left) = 1 /\ Leave(IF run.name \in {"unlock", "release"} THEN "asked" ELSE "locked")
    <2>1. CASE run.name \in {"unlock", "release"}
      BY <1>3, <2>1, CallLeaves
    <2>2. CASE run.name \notin {"unlock", "release"}
      BY <1>3, <2>2, CallLeaves
    <2> QED
      BY <2>1, <2>2
  <1>4. CASE CallFails /\ Leave("failed")
    BY <1>4, CallLeaves
  <1> QED
    BY <1>1, <1>2, <1>3, <1>4, CallFacts

LEMMA RangeStep ==
    ASSUME StagesInv, CheckRange
    PROVE  StagesInv'
  <1>1. StagesType
    BY DEF StagesInv
  <1>2. /\ run # Idle /\ Head(run.left) = "range"
        /\ UNCHANGED <<board, powered, i2c_addr, deployed, notes>>
        /\ run' = [run EXCEPT !.left = Tail(run.left)] \/ run' = Idle
    BY DEF CheckRange
  <1>3. PICK n : n = Len(run.left)
    OBVIOUS
  <1>4. n \in Nat /\ n > 1
    BY <1>1, <1>2, <1>3, RunFacts
  <1>5. run.name \in Openers => run.name = "config"
    <2>1. run.name = "unlock" => Head(run.left) = "unlock"
      BY <1>1, <1>2, RunFacts
    <2> QED
      BY <1>1, <1>2, <2>1, Positions DEF Openers
  <1>6. run.name # "update"
    BY <1>1, <1>2, Positions
  <1>7. run.name = "config" => n = 6
    BY <1>1, <1>2, <1>3, Positions
  <1>8. \A d \in Stages : board[d].locked \/ notes.why[d] # "locked"
    <2>1. run.name = "config" => n >= 6
      BY <1>7
    <2> QED
      BY <1>2, <1>3, <1>5, <2>1 DEF StagesInv, OpenInv
  <1>9. RunType' /\ (run' # Idle => run'.name = run.name /\ Len(run'.left) = n - 1)
    BY <1>1, <1>2, <1>3, <1>4, GoesOn DEF RunType
  <1>10. StagesType'
    BY <1>1, <1>2, <1>9 DEF StagesType
  <1>11. OpenInv'
    <2>1. run' # Idle /\ run'.name = "config" => Len(run'.left) = 5
      <3>1. n = 6 => n - 1 = 5
        OBVIOUS
      <3> QED
        BY <1>7, <1>9, <3>1
    <2>2. PICK m : m = Len(run'.left)
      OBVIOUS
    <2>3. m = 5 => ~(m = 1)
      OBVIOUS
    <2> QED
      BY <1>2, <1>8, <2>1, <2>2, <2>3 DEF OpenInv
  <1>12. ReleaseInv' /\ PollInv'
    BY <1>5, <1>6, <1>9 DEF Openers, ReleaseInv, PollInv
  <1>13. DeployedSound'
    BY <1>2 DEF StagesInv, DeployedSound, Released
  <1> QED
    BY <1>10, <1>11, <1>12, <1>13 DEF StagesInv

LEMMA OwnStepStep ==
    ASSUME StagesInv, OwnStep
    PROVE  StagesInv'
  <1>1. StagesType
    BY DEF StagesInv
  <1>2. /\ run # Idle /\ Head(run.left) \in {"power?", "select?", "follow?", "wheel", "wheel?", "panel"}
        /\ UNCHANGED <<deployed, notes>>
    BY DEF OwnStep
  <1>3. /\ run \in [name : Names, left : Seq(Calls), arg : Stages \cup {Spare}, inRange : BOOLEAN,
                    todo : SUBSET Stages, sum : Nat, began : Nat]
        /\ board \in [Stages -> Board] /\ powered \in BOOLEAN /\ i2c_addr \in Stages \cup {Spare}
    BY <1>1, <1>2, RunFacts DEF StagesType
  <1>4. powered' \in BOOLEAN /\ i2c_addr' \in Stages \cup {Spare}
    BY <1>3 DEF OwnStep
  <1>5. /\ board' \in [Stages -> Board]
        /\ \A d \in Stages : board'[d].locked = board[d].locked /\ board'[d].released = board[d].released
    <2>1. CASE board' = board
      BY <1>3, <2>1
    <2>2. CASE board' = [d \in Stages |-> [board[d] EXCEPT !.burning = FALSE]]
      BY ZenonT(60), <1>3, <2>2 DEF Board
    <2> QED
      BY <2>1, <2>2 DEF OwnStep
  <1>6. run.name \notin Openers /\ run.name # "update"
    BY <1>1, <1>2, OpenersCalls, Positions
  <1>7. PICK n : n = Len(run.left)
    OBVIOUS
  <1>8. n \in Nat /\ n >= 1
    BY <1>1, <1>2, <1>7, RunFacts
  <1>9. run' = Idle \/ (n > 1 /\ run' = [run EXCEPT !.left = Tail(run.left)])
    <2>1. run' = Idle \/ (n # 1 /\ run' = [run EXCEPT !.left = Tail(run.left)])
      BY <1>7 DEF OwnStep
    <2> QED
      BY <1>8, <2>1
  <1>10. RunType' /\ (run' # Idle => run'.name = run.name)
    BY <1>1, <1>2, <1>7, <1>9, GoesOn DEF RunType
  <1>11. StagesType'
    BY <1>1, <1>2, <1>4, <1>5, <1>10 DEF StagesType
  <1>12. OpenInv'
    BY <1>2, <1>5, <1>6, <1>10 DEF StagesInv, OpenInv, Openers
  <1>13. ReleaseInv' /\ PollInv'
    BY <1>6, <1>10 DEF Openers, ReleaseInv, PollInv
  <1>14. Released' = Released
    BY <1>5 DEF Released
  <1>15. DeployedSound'
    BY <1>2, <1>14 DEF StagesInv, DeployedSound
  <1> QED
    BY <1>11, <1>12, <1>13, <1>15 DEF StagesInv

LEMMA PollStep ==
    ASSUME StagesInv, NEW d \in Stages, NEW ok \in BOOLEAN, Poll(d, ok)
    PROVE  StagesInv'
  <1>1. StagesType
    BY DEF StagesInv
  <1>2. /\ run # Idle /\ Head(run.left) = "poll" /\ d \in run.todo
        /\ ok => \E e \in Stages : board[e].addr = d
        /\ UNCHANGED <<board, powered, i2c_addr, deployed, notes>>
    BY DEF Poll
  <1>3. run \in [name : Names, left : Seq(Calls), arg : Stages \cup {Spare}, inRange : BOOLEAN,
                 todo : SUBSET Stages, sum : Nat, began : Nat]
    BY <1>1, <1>2, RunFacts
  <1>4. run.name = "update"
    <2>1. run.name \notin Openers
      BY <1>1, <1>2, OpenersCalls
    <2>2. run.name # "lock"
      BY <1>1, <1>2, RunFacts
    <2>3. run.name \notin {"config", "release", "arm", "unlock", "lock", "update"}
              => Head(run.left) \in Quiet \cup Others
      BY <1>1, <1>2, RunFacts
    <2> QED
      BY <1>2, <2>1, <2>2, <2>3 DEF Openers, Quiet, Others
  <1>5. Len(run.left) > 1
    <2>1. PICK n : n = Len(run.left)
      OBVIOUS
    <2>2. n \in {1, 2} /\ (n = 1 => Head(run.left) = "save?")
      BY <1>1, <1>2, <1>4, <2>1, Positions
    <2>3. n = 2
      BY <1>2, <2>2
    <2> QED
      BY <2>1, <2>3
  <1>6. DeployedSound'
    BY <1>2 DEF StagesInv, DeployedSound, Released
  <1>7. \A e \in Stages : board[e].locked \/ notes.why[e] # "locked"
    BY <1>4 DEF StagesInv, OpenInv, Openers
  <1>8. CASE ~ok
    <2>1. run' = Idle
      BY <1>8 DEF Poll
    <2>2. StagesType'
      BY <1>1, <1>2, <2>1 DEF StagesType, RunType
    <2>3. OpenInv' /\ ReleaseInv' /\ PollInv'
      BY <1>2, <1>7, <2>1 DEF OpenInv, ReleaseInv, PollInv
    <2> QED
      BY <1>6, <2>2, <2>3 DEF StagesInv
  <1>9. CASE ok
    <2> DEFINE E == {e \in Stages : board[e].addr = d /\ board[e].released}
    <2>1. PICK left2 : left2 = IF run.todo = {d} THEN Tail(run.left) ELSE run.left
      OBVIOUS
    <2>2. PICK c : c = Cardinality(E)
      OBVIOUS
    <2>3. run' = [run EXCEPT !.todo = run.todo \ {d}, !.left = left2, !.sum = run.sum + c]
      BY <1>9, <2>1, <2>2 DEF Poll
    <2>4. E \subseteq Stages /\ IsFiniteSet(Stages)
      BY InterstagesAssumption
    <2>5. c \in Nat
      BY <2>2, <2>4, Subsets
    <2>6. PICK h \in Handlers : run.name = h[1] /\ EndOf(left2, h[2])
      <3>1. \E h \in Handlers : run.name = h[1] /\ EndOf(run.left, h[2])
        BY <1>1, <1>2 DEF StagesType, RunType
      <3>2. \E h \in Handlers : run.name = h[1] /\ EndOf(Tail(run.left), h[2])
        BY <1>1, <1>2, <1>5, RunFacts
      <3> QED
        BY <2>1, <3>1, <3>2
    <2>7. left2 \in Seq(Calls)
      BY <2>6 DEF EndOf
    <2>8. /\ run' \in [name : Names, left : Seq(Calls), arg : Stages \cup {Spare}, inRange : BOOLEAN,
                       todo : SUBSET Stages, sum : Nat, began : Nat]
          /\ run'.name = "update" /\ run'.left = left2 /\ run'.todo = run.todo \ {d}
          /\ run'.sum = run.sum + c /\ run'.began = run.began
      <3>1. run.sum + c \in Nat
        BY <1>3, <2>5
      <3> QED
        BY <1>3, <1>4, <2>3, <2>7, <3>1
    <2>9. RunType'
      BY <1>4, <2>6, <2>8 DEF RunType
    <2>10. StagesType'
      BY <1>1, <1>2, <2>9 DEF StagesType
    <2>11. OpenInv' /\ ReleaseInv'
      BY <1>2, <1>7, <2>8 DEF OpenInv, ReleaseInv
    <2>12. /\ Out' = Out /\ Polled' = Polled \cup {e \in Stages : board[e].addr = d}
           /\ Polled \cap {e \in Stages : board[e].addr = d} = {}
      BY <1>2, <1>3, <2>8 DEF Out, Polled
    <2>13. /\ Out' \cap Polled' = (Out \cap Polled) \cup E /\ (Out \cap Polled) \cap E = {}
           /\ Out \ Polled = (Out' \ Polled') \cup E /\ (Out' \ Polled') \cap E = {}
           /\ Out \subseteq Stages
      BY <2>12 DEF Out
    <2>14. Cardinality(Out' \cap Polled') = Cardinality(Out \cap Polled) + c
      BY <2>2, <2>4, <2>13, Disjoint
    <2>15. Cardinality(Out \ Polled) = Cardinality(Out' \ Polled') + c
      <3>1. Out' \ Polled' \subseteq Stages
        BY <2>12, <2>13
      <3> QED
        BY <2>2, <2>4, <2>13, <3>1, Disjoint
    <2>16. /\ run.sum <= Cardinality(Out \cap Polled) /\ run.began <= run.sum + Cardinality(Out \ Polled)
           /\ \A a \in Stages \ run.todo : \E e \in Stages : board[e].addr = a
      BY <1>2, <1>4 DEF StagesInv, PollInv
    <2>17. Cardinality(Out \cap Polled) \in Nat /\ Cardinality(Out' \ Polled') \in Nat
      <3>1. Out \cap Polled \subseteq Stages /\ Out' \ Polled' \subseteq Stages
        BY <2>12, <2>13
      <3> QED
        BY <2>4, <3>1, Subsets
    <2>18. PICK p, q : p = Cardinality(Out \cap Polled) /\ q = Cardinality(Out' \ Polled')
      OBVIOUS
    <2>19. run.sum + c <= p + c
      BY <1>3, <2>5, <2>16, <2>17, <2>18
    <2>20. run.began <= (run.sum + c) + q
      <3>1. run.began <= run.sum + (q + c) /\ run.sum \in Nat /\ run.began \in Nat /\ q \in Nat
        BY <1>3, <2>15, <2>16, <2>17, <2>18
      <3> QED
        BY <2>5, <3>1
    <2>21. \A a \in Stages \ run'.todo : \E e \in Stages : board'[e].addr = a
      BY <1>2, <1>9, <2>8, <2>16
    <2>22. Head(run'.left) = "save?" => run'.todo = {}
      BY <1>2, <2>1, <2>8
    <2>23. PollInv'
      BY <2>8, <2>14, <2>18, <2>19, <2>20, <2>21, <2>22 DEF PollInv
    <2> QED
      BY <1>6, <2>10, <2>11, <2>23 DEF StagesInv
  <1> QED
    BY <1>8, <1>9

LEMMA SaveStep ==
    ASSUME StagesInv, SaveCount
    PROVE  StagesInv'
  <1>1. StagesType
    BY DEF StagesInv
  <1>2. /\ run # Idle /\ Head(run.left) = "save?" /\ run' = Idle /\ deployed' = run.sum
        /\ notes' = [notes EXCEPT !.low = run.began]
        /\ UNCHANGED <<board, powered, i2c_addr>>
    BY DEF SaveCount
  <1>3. run.sum \in Nat /\ run.began \in Nat
    BY <1>1, <1>2, RunFacts
  <1>4. run.name = "update"
    <2>1. run.name \notin Openers
      BY <1>1, <1>2, OpenersCalls
    <2>2. run.name # "lock"
      BY <1>1, <1>2, RunFacts
    <2>3. run.name \notin {"config", "release", "arm", "unlock", "lock", "update"}
              => Head(run.left) \in Quiet \cup Others
      BY <1>1, <1>2, RunFacts
    <2> QED
      BY <1>2, <2>1, <2>2, <2>3 DEF Openers, Quiet, Others
  <1>5. /\ notes' \in [why : [Stages -> {"locked", "failed", "asked"}], low : Nat]
        /\ notes'.low = run.began /\ notes'.why = notes.why
    BY <1>1, <1>2, <1>3 DEF StagesType
  <1>6. StagesType'
    BY <1>1, <1>2, <1>3, <1>5 DEF StagesType, RunType
  <1>7. \A e \in Stages : board[e].locked \/ notes.why[e] # "locked"
    BY <1>4 DEF StagesInv, OpenInv, Openers
  <1>8. OpenInv' /\ ReleaseInv' /\ PollInv'
    BY <1>2, <1>5, <1>7 DEF OpenInv, ReleaseInv, PollInv
  <1>9. run.sum <= Cardinality(Out \cap Polled) /\ run.began <= run.sum + Cardinality(Out \ Polled)
        /\ run.todo = {} /\ \A a \in Stages : \E d \in Stages : board[d].addr = a
    BY <1>2, <1>4 DEF StagesInv, PollInv
  <1>10. Out \ Polled = {}
    <2>1. PICK f : f = [d \in Stages |-> board[d].addr]
      OBVIOUS
    <2>2. \A a \in Stages : \E d \in Stages : f[d] = a
      BY <1>9, <2>1
    <2>3. \A d \in Stages : f[d] \in Stages
      BY <2>2, EachPolled, InterstagesAssumption
    <2> QED
      BY <1>9, <2>1, <2>3 DEF Out, Polled
  <1>11. run.began <= run.sum
    <2>1. Cardinality(Out \ Polled) = 0
      BY <1>10, FS_EmptySet
    <2>2. run.began <= run.sum + 0
      BY <1>9, <2>1
    <2> QED
      BY <1>3, <2>2
  <1>12. run.sum <= Released
    BY <1>3, <1>9, CountFacts
  <1>13. DeployedSound'
    <2>1. Released' = Released
      BY <1>2 DEF Released
    <2> QED
      BY <1>2, <1>5, <1>11, <1>12, <2>1 DEF DeployedSound
  <1> QED
    BY <1>6, <1>8, <1>13 DEF StagesInv

LEMMA ReleaseStep ==
    ASSUME StagesInv, NEW e \in Stages, Release(e)
    PROVE  StagesInv'
  <1>1. StagesType
    BY DEF StagesInv
  <1>2. /\ board' = [board EXCEPT ![e].released = TRUE]
        /\ UNCHANGED <<powered, i2c_addr, run, deployed, notes>>
    BY DEF Release
  <1>3. board \in [Stages -> Board]
    BY <1>1 DEF StagesType
  <1>4. /\ board' \in [Stages -> Board]
        /\ \A d \in Stages : /\ board'[d].addr = board[d].addr /\ board'[d].locked = board[d].locked
                             /\ board'[d].set = board[d].set
                             /\ board[d].released => board'[d].released
    BY ZenonT(60), <1>2, <1>3 DEF Board
  <1>5. StagesType'
    BY <1>1, <1>2, <1>4 DEF StagesType, RunType
  <1>6. Reached' = Reached /\ Reached \subseteq Stages
    <2>1. Target' = Target /\ powered' = powered
      BY <1>2 DEF Target
    <2> QED
      BY <1>4, <2>1 DEF Reached
  <1>7. OpenInv'
    BY <1>2, <1>4, <1>6 DEF StagesInv, OpenInv
  <1>8. ReleaseInv'
    BY <1>2, <1>4, <1>6 DEF StagesInv, ReleaseInv
  <1>9. PollInv' /\ DeployedSound'
    BY <1>1, <1>2, <1>4, <1>5, OutGrows DEF StagesInv
  <1> QED
    BY <1>5, <1>7, <1>8, <1>9 DEF StagesInv

LEMMA StagesInvNext == StagesInv /\ [StagesNext]_stagesVars => StagesInv'
  <1>1. SUFFICES ASSUME StagesInv, [StagesNext]_stagesVars PROVE StagesInv'
    OBVIOUS
  <1>2. CASE UNCHANGED stagesVars
    BY <1>1, <1>2 DEF stagesVars, StagesInv, StagesType, RunType, OpenInv, ReleaseInv, PollInv,
        DeployedSound, Reached, Target, Out, Polled, Released
  <1>3. CASE StagesNext
    BY <1>1, <1>3, StartStep, CallStep, RangeStep, OwnStepStep, SaveStep, PollStep, ReleaseStep DEF StagesNext
  <1> QED
    BY <1>1, <1>2, <1>3

LEMMA StagesInvariant == StagesSpec => []StagesInv
  BY StagesInvInit, StagesInvNext, PTL DEF StagesSpec

(* A board stays open only while a handler that opens boards runs, or for  *)
(* a reason noted when one ended: whatever calls fail, and in whatever     *)
(* order the handlers of cmdGSSB.c run, for any number of boards.          *)
THEOREM OpenCorrect == StagesSpec => []OpenForAReason
  <1>1. StagesInv => OpenForAReason
    BY DEF StagesInv, OpenInv, OpenForAReason, Openers
  <1> QED
    BY <1>1, StagesInvariant, PTL

(* dat_dep_ant_deployed counts antennas that are out, and all that were    *)
(* out when gssb_update_status began, even with boards readdressed onto    *)
(* one another and antennas released between two polls.                    *)
THEOREM DeployedCorrect == StagesSpec => []DeployedSound
  BY StagesInvariant, PTL DEF StagesInv

LEMMA BurnStep ==
    ASSUME StagesInv, StagesNext, NEW d \in Stages, run # Idle, run.name = "release",
           ~board[d].burning, board'[d].burning
    PROVE  board[d].set = "release" /\ board[d].armed
  <1>1. StagesType
    BY DEF StagesInv
  <1>2. board \in [Stages -> Board] /\ run.name \in Names /\ run.arg \in Stages \cup {Spare}
    BY <1>1, RunFacts DEF StagesType
  <1>3. board' # board
    OBVIOUS
  <1>4. CASE CallOK \/ CallFails
    <2>1. d \in Reached /\ board'[d] \in Effect(Head(run.left), board[d])
      BY <1>1, <1>4, CallFacts
    <2>2. Head(run.left) = "burn" /\ board[d].armed
      BY <1>2, <2>1, EffectFacts
    <2>3. PICK n : n = Len(run.left)
      OBVIOUS
    <2>4. n = 1
      BY <1>1, <2>2, <2>3, Positions
    <2>5. n <= 6
      BY <2>4
    <2> QED
      BY <2>1, <2>2, <2>3, <2>5 DEF StagesInv, ReleaseInv
  <1>5. CASE OwnStep
    BY <1>1, <1>5, OpenersCalls DEF OwnStep, Openers
  <1>6. ASSUME NEW e \in Stages, Release(e)
        PROVE  FALSE
    BY <1>2, <1>6 DEF Release, Board
  <1> QED
    BY <1>3, <1>4, <1>5, <1>6 DEF StagesNext, StartHandler, CheckRange, SaveCount, Poll

(* A release burns a board only with the settings of a release written and *)
(* the board armed, whichever calls failed before and wherever the boards  *)
(* of the bus were readdressed to.                                         *)
THEOREM BurnsCorrect == StagesSpec => BurnsAsConfigured
  <1>1. StagesInv /\ [StagesNext]_stagesVars
            => [\A d \in Stages :
                  run # Idle /\ run.name = "release" /\ ~board[d].burning /\ board'[d].burning
                      => board[d].set = "release" /\ board[d].armed]_stagesVars
    BY BurnStep
  <1> QED
    BY <1>1, StagesInvariant, PTL DEF StagesSpec, BurnsAsConfigured

--------------------------------------------------------------------------------
(* Sensors: the sample budget *)

FieldNames == {"action", "state", "step", "payloads", "left"}

(* A machine has all its fields, and a saved one that has the samples left *)
(* has them too: they are saved last.                                      *)
MachineType ==
    /\ machine = [f \in FieldNames |-> machine[f]] /\ machine["left"] \in Int
    /\ saved = [f \in DOMAIN saved |-> saved[f]] /\ DOMAIN saved \subseteq FieldNames
    /\ "left" \in DOMAIN saved => DOMAIN saved = FieldNames /\ saved["left"] \in Int
    /\ tpc[1] = "save" => "left" \in DOMAIN copy /\ copy["left"] \in Int
    /\ tpc[1] = "save" => \A j \in 1 .. 5 : j < tpc[2] => Fields[j] \in DOMAIN saved
    /\ copy = [f \in DOMAIN copy |-> copy[f]]

SensorsType ==
    /\ MachineType
    /\ tpc \in ({"wake", "left", "close", "step", "count", "decrement"} \X {0}) \cup ({"copy", "save"} \X (1 .. 5))
    /\ bounds \in [sets : Nat, activates : Nat, reboots : Nat]
    /\ ask \in [limit : Int, taken : Nat, crossed : BOOLEAN, save : {"no", "copied", "yes"}, start : BOOLEAN]

(* Between the two steps of a request nothing of it is counted or saved. *)
HeldInv ==
    sem # Free => sem = <<ask.limit>> /\ ask.taken = 0 /\ ask.save = "no"

(* The rounds taken and the samples left; a round is taken before it is    *)
(* counted, and only when some are left.                                   *)
LeftInv ==
    sem = Free /\ ask.limit >= 0 /\ ~ask.crossed =>
        /\ machine["left"] >= 0
        /\ tpc[1] \in {"step", "count", "decrement"} => machine["left"] >= 1
        /\ tpc[1] \in {"count", "decrement"} => ask.taken + machine["left"] <= ask.limit + bounds.reboots + 1
        /\ tpc[1] \notin {"count", "decrement"} => ask.taken + machine["left"] <= ask.limit + bounds.reboots

(* The copy about to be saved, and the saved count, which misses one round *)
(* at most from the time it is taken until the next save.                  *)
SavedInv ==
    ask.limit >= 0 /\ ~ask.crossed =>
        /\ ask.save = "copied" => tpc[1] = "save"
        /\ ask.save # "no" /\ tpc[1] = "save" =>
               copy["left"] >= 0 /\ ask.taken + copy["left"] <= ask.limit + bounds.reboots
        /\ ask.save = "yes" => /\ "left" \in DOMAIN saved /\ saved["left"] >= 0
                               /\ ask.taken + saved["left"] <= ask.limit + bounds.reboots + 1
                               /\ tpc[1] \notin {"count", "decrement", "copy", "save"} =>
                                      ask.taken + saved["left"] <= ask.limit + bounds.reboots

SensorsInv == SensorsType /\ HeldInv /\ LeftInv /\ SavedInv

LEMMA FieldFacts ==
    /\ Len(Fields) = 5 /\ Fields[5] = "left"
    /\ Fields[1] = "action" /\ Fields[2] = "state" /\ Fields[3] = "step" /\ Fields[4] = "payloads"
  BY DEF Fields

(* What taskSensors is at, as two values. *)
LEMMA PcFacts ==
    SensorsType => \E p, i : /\ tpc = <<p, i>> /\ tpc[1] = p /\ tpc[2] = i
                             /\ \/ p \in {"wake", "left", "close", "step", "count", "decrement"} /\ i = 0
                                \/ p \in {"copy", "save"} /\ i \in 1 .. 5
  BY DEF SensorsType

(* Machine and saved fields after a boot. *)
LEMMA RestoredFacts ==
    ASSUME NEW s, s = [f \in DOMAIN s |-> s[f]], DOMAIN s \subseteq FieldNames,
           NEW r, r = IF {"action", "state", "payloads", "step"} \subseteq DOMAIN s
                      THEN [f \in DOMAIN s \cup {"left"} |-> IF f \in DOMAIN s THEN s[f] ELSE -1]
                      ELSE [action |-> "START", state |-> "PAUSE", step |-> DefaultStep,
                            payloads |-> {}, left |-> -1],
           "left" \in DOMAIN s => DOMAIN s = FieldNames /\ s["left"] \in Int
    PROVE  /\ r = [f \in FieldNames |-> r[f]] /\ r["left"] \in Int
           /\ "left" \in DOMAIN s => r["left"] = s["left"]
  <1>1. CASE {"action", "state", "payloads", "step"} \subseteq DOMAIN s
    <2>1. DOMAIN s \cup {"left"} = FieldNames
      BY <1>1 DEF FieldNames
    <2>2. r = [f \in DOMAIN s \cup {"left"} |-> IF f \in DOMAIN s THEN s[f] ELSE -1]
      BY <1>1
    <2>3. r = [f \in FieldNames |-> IF f \in DOMAIN s THEN s[f] ELSE -1]
      BY <2>1, <2>2
    <2>4. "left" \in FieldNames
      BY DEF FieldNames
    <2>5. r["left"] = IF "left" \in DOMAIN s THEN s["left"] ELSE -1
      BY <2>3, <2>4
    <2>6. r = [f \in FieldNames |-> r[f]]
      BY <2>3
    <2>7. r["left"] \in Int
      BY <2>5
    <2> QED
      BY <2>5, <2>6, <2>7
  <1>2. CASE ~({"action", "state", "payloads", "step"} \subseteq DOMAIN s)
    <2>1. r = [action |-> "START", state |-> "PAUSE", step |-> DefaultStep, payloads |-> {}, left |-> -1]
      BY <1>2
    <2>2. DOMAIN r = FieldNames /\ r = [f \in DOMAIN r |-> r[f]] /\ r["left"] = -1
      BY <2>1 DEF FieldNames
    <2>3. "left" \notin DOMAIN s
      BY <1>2 DEF FieldNames
    <2>4. r = [f \in FieldNames |-> r[f]]
      BY <2>2, Zenon
    <2>5. r["left"] \in Int
      BY <2>2
    <2> QED
      BY <2>3, <2>4, <2>5
  <1> QED
    BY <1>1, <1>2

LEMMA SensorsInvInit == SensorsInit => SensorsInv
  <1>1. SUFFICES ASSUME SensorsInit PROVE SensorsInv
    OBVIOUS
  <1>2. /\ tpc = <<"wake", 0>> /\ sem = Free /\ saved = [f \in {} |-> 0] /\ copy = [f \in {} |-> 0]
        /\ bounds = [sets |-> 0, activates |-> 0, reboots |-> 0]
        /\ ask = [limit |-> -1, taken |-> 0, crossed |-> FALSE, save |-> "no", start |-> FALSE]
        /\ machine = Restored
    BY <1>1 DEF SensorsInit, None
  <1>3. saved = [f \in DOMAIN saved |-> saved[f]] /\ DOMAIN saved = {} /\ copy = [f \in DOMAIN copy |-> copy[f]]
    BY <1>2
  <1>4. machine = [f \in FieldNames |-> machine[f]] /\ machine["left"] \in Int
    BY ZenonT(60), <1>2, <1>3, RestoredFacts DEF Restored
  <1>5. SensorsType
    BY <1>2, <1>3, <1>4 DEF SensorsType, MachineType
  <1>6. HeldInv /\ LeftInv /\ SavedInv
    BY <1>2 DEF HeldInv, LeftInv, SavedInv
  <1> QED
    BY <1>5, <1>6 DEF SensorsInv

--------------------------------------------------------------------------------
(* taskSensors *)

(* A step that moves taskSensors on, with the machine's samples, the       *)
(* counts and what is copied and saved left alone.                         *)
LEMMA MovesOn ==
    ASSUME SensorsInv, NEW p,
           (tpc' = <<p, 0>> /\ p # "copy") \/ (tpc' = <<p, 1>> /\ p = "copy"),
           p \in {"left", "close", "step", "decrement", "copy"},
           machine' = [f \in FieldNames |-> machine'[f]], machine'["left"] = machine["left"],
           ask'.limit = ask.limit, ask'.taken = ask.taken, ask'.crossed = ask.crossed,
           ask'.save = ask.save, ask' \in [limit : Int, taken : Nat, crossed : BOOLEAN,
                                           save : {"no", "copied", "yes"}, start : BOOLEAN],
           UNCHANGED <<sem, copy, saved, bounds>>,
           tpc[1] # "save",
           tpc[1] \in {"count", "decrement"} /\ sem = Free /\ ask.limit >= 0 /\ ~ask.crossed => p = "decrement",
           p \in {"step", "decrement"} /\ sem = Free /\ ask.limit >= 0 /\ ~ask.crossed => machine["left"] >= 1,
           p = "decrement" => tpc[1] = "count",
           p \in {"left", "close", "step"} => tpc[1] \in {"wake", "left", "close"}
    PROVE  SensorsInv'
  <1>1. /\ tpc' \in ({"wake", "left", "close", "step", "count", "decrement"} \X {0}) \cup ({"copy", "save"} \X (1 .. 5))
        /\ tpc'[1] = p
    <2>1. CASE tpc' = <<p, 1>> /\ p = "copy"
      BY <2>1
    <2>2. CASE tpc' = <<p, 0>> /\ p # "copy"
      BY <2>2
    <2> QED
      BY <2>1, <2>2
  <1>2. MachineType'
    BY <1>1 DEF SensorsInv, SensorsType, MachineType
  <1>3. SensorsType'
    BY <1>1, <1>2 DEF SensorsInv, SensorsType
  <1>4. HeldInv'
    BY DEF SensorsInv, HeldInv
  <1>5. LeftInv'
    BY <1>1 DEF SensorsInv, LeftInv
  <1>6. SavedInv'
    BY <1>1 DEF SensorsInv, SavedInv
  <1> QED
    BY <1>3, <1>4, <1>5, <1>6 DEF SensorsInv

LEMMA ApplyStep ==
    ASSUME SensorsInv, Apply
    PROVE  SensorsInv'
  <1>1. machine = [f \in FieldNames |-> machine[f]]
        /\ ask \in [limit : Int, taken : Nat, crossed : BOOLEAN, save : {"no", "copied", "yes"}, start : BOOLEAN]
    BY DEF SensorsInv, SensorsType, MachineType
  <1>2. tpc' = <<"left", 0>> /\ tpc[1] = "wake" /\ UNCHANGED <<sem, copy, saved, bounds>>
    BY DEF Apply
  <1>3. machine' = [f \in FieldNames |-> machine'[f]] /\ machine'["left"] = machine["left"]
    <2>1. \/ machine' = machine
          \/ machine' = [machine EXCEPT !["state"] = "SAMPLING", !["action"] = "STAND_BY"]
          \/ machine' = [machine EXCEPT !["state"] = "PAUSE", !["action"] = "STAND_BY"]
      BY DEF Apply
    <2> QED
      BY <1>1, <2>1 DEF FieldNames
  <1>4. PICK b \in BOOLEAN : ask' = [ask EXCEPT !.start = b]
    BY DEF Apply
  <1>5. /\ ask'.limit = ask.limit /\ ask'.taken = ask.taken /\ ask'.crossed = ask.crossed
        /\ ask'.save = ask.save
        /\ ask' \in [limit : Int, taken : Nat, crossed : BOOLEAN, save : {"no", "copied", "yes"}, start : BOOLEAN]
    BY <1>1, <1>4
  <1> QED
    BY <1>2, <1>3, <1>5, MovesOn

LEMMA CheckLeftStep ==
    ASSUME SensorsInv, CheckLeft
    PROVE  SensorsInv'
  <1>1. machine = [f \in FieldNames |-> machine[f]]
        /\ ask \in [limit : Int, taken : Nat, crossed : BOOLEAN, save : {"no", "copied", "yes"}, start : BOOLEAN]
        /\ machine["left"] \in Int
    BY DEF SensorsInv, SensorsType, MachineType
  <1>2. tpc[1] = "left" /\ UNCHANGED <<machine, sem, copy, saved, bounds, ask>>
    BY DEF CheckLeft
  <1>3. \/ tpc' = <<"copy", 1>> \/ tpc' = <<"close", 0>>
        \/ tpc' = <<"step", 0>> /\ machine["left"] # 0
    BY DEF CheckLeft
  <1>4. sem = Free /\ ask.limit >= 0 /\ ~ask.crossed => machine["left"] >= 0
    BY DEF SensorsInv, LeftInv
  <1>5. machine["left"] >= 0 /\ machine["left"] # 0 => machine["left"] >= 1
    BY <1>1
  <1> QED
    BY <1>1, <1>2, <1>3, <1>4, <1>5, MovesOn

LEMMA CloseStep ==
    ASSUME SensorsInv, Close
    PROVE  SensorsInv'
  <1>1. machine = [f \in FieldNames |-> machine[f]]
        /\ ask \in [limit : Int, taken : Nat, crossed : BOOLEAN, save : {"no", "copied", "yes"}, start : BOOLEAN]
    BY DEF SensorsInv, SensorsType, MachineType
  <1>2. tpc' = <<"copy", 1>> /\ tpc[1] = "close" /\ UNCHANGED <<sem, copy, saved, bounds, ask>>
    BY DEF Close
  <1>3. machine' = [f \in FieldNames |-> machine'[f]] /\ machine'["left"] = machine["left"]
    BY <1>1 DEF Close, FieldNames
  <1> QED
    BY <1>1, <1>2, <1>3, MovesOn

LEMMA CheckCountStep ==
    ASSUME SensorsInv, CheckCount
    PROVE  SensorsInv'
  <1>1. machine = [f \in FieldNames |-> machine[f]]
        /\ ask \in [limit : Int, taken : Nat, crossed : BOOLEAN, save : {"no", "copied", "yes"}, start : BOOLEAN]
        /\ machine["left"] \in Int
    BY DEF SensorsInv, SensorsType, MachineType
  <1>2. tpc[1] = "count" /\ UNCHANGED <<machine, sem, copy, saved, bounds, ask>>
    BY DEF CheckCount
  <1>3. tpc' = <<"decrement", 0>> \/ (tpc' = <<"copy", 1>> /\ machine["left"] = -1)
    BY DEF CheckCount
  <1>4. sem = Free /\ ask.limit >= 0 /\ ~ask.crossed => machine["left"] >= 1
    BY <1>2 DEF SensorsInv, LeftInv
  <1>5. machine["left"] >= 1 => machine["left"] # -1
    BY <1>1
  <1> QED
    BY <1>1, <1>2, <1>3, <1>4, <1>5, MovesOn

LEMMA DecrementStep ==
    ASSUME SensorsInv, Decrement
    PROVE  SensorsInv'
  <1>1. machine = [f \in FieldNames |-> machine[f]] /\ machine["left"] \in Int
        /\ ask.limit \in Int /\ ask.taken \in Nat /\ bounds.reboots \in Nat
    BY DEF SensorsInv, SensorsType, MachineType
  <1>2. /\ tpc' = <<"copy", 1>> /\ tpc[1] = "decrement" /\ sem = Free
        /\ UNCHANGED <<sem, copy, saved, bounds, ask>>
    BY DEF Decrement
  <1>3. PICK v : v = IF machine["left"] = -2 THEN -2 ELSE machine["left"] - 1
    OBVIOUS
  <1>4. machine' = [machine EXCEPT !["left"] = v]
    BY <1>3 DEF Decrement
  <1>5. v \in Int /\ (machine["left"] >= 1 => v = machine["left"] - 1)
    BY <1>1, <1>3
  <1>6. machine' = [f \in FieldNames |-> machine'[f]] /\ machine'["left"] = v
    BY <1>1, <1>4 DEF FieldNames
  <1>7. SensorsType'
    BY <1>2, <1>5, <1>6 DEF SensorsInv, SensorsType, MachineType
  <1>8. LeftInv'
    <2>1. SUFFICES ASSUME ask.limit >= 0, ~ask.crossed
                   PROVE  v >= 0 /\ ask.taken + v <= ask.limit + bounds.reboots
      BY <1>2, <1>6 DEF LeftInv
    <2>2. machine["left"] >= 1 /\ ask.taken + machine["left"] <= ask.limit + bounds.reboots + 1
      BY <1>2, <2>1 DEF SensorsInv, LeftInv
    <2> QED
      BY <1>1, <1>5, <2>2
  <1>9. HeldInv'
    BY <1>2 DEF HeldInv
  <1>10. SavedInv'
    BY <1>2 DEF SensorsInv, SavedInv
  <1> QED
    BY <1>7, <1>8, <1>9, <1>10 DEF SensorsInv

LEMMA CheckStepStep ==
    ASSUME SensorsInv, CheckStep
    PROVE  SensorsInv'
  <1>1. /\ machine = [f \in FieldNames |-> machine[f]]
        /\ ask \in [limit : Int, taken : Nat, crossed : BOOLEAN, save : {"no", "copied", "yes"}, start : BOOLEAN]
        /\ machine["left"] \in Int /\ bounds.reboots \in Nat
    BY DEF SensorsInv, SensorsType, MachineType
  <1>2. tpc[1] = "step" /\ UNCHANGED <<machine, sem, copy, saved, bounds>>
    BY DEF CheckStep
  <1>3. CASE tpc' = <<"copy", 1>> /\ UNCHANGED ask
    BY <1>1, <1>2, <1>3, MovesOn
  <1>4. CASE /\ tpc' = <<"count", 0>>
             /\ ask' = [ask EXCEPT !.crossed = @ \/ sem # Free, !.taken = IF Counted THEN @ + 1 ELSE @]
    <2>1. PICK c \in BOOLEAN : c = (ask.crossed \/ sem # Free)
      OBVIOUS
    <2>2. PICK t : t = IF Counted THEN ask.taken + 1 ELSE ask.taken
      OBVIOUS
    <2>3. ask' = [ask EXCEPT !.crossed = c, !.taken = t]
      BY <1>4, <2>1, <2>2
    <2>4. t \in Nat /\ t <= ask.taken + 1
      BY <1>1, <2>2
    <2>5. /\ ask' \in [limit : Int, taken : Nat, crossed : BOOLEAN, save : {"no", "copied", "yes"}, start : BOOLEAN]
          /\ ask'.limit = ask.limit /\ ask'.taken = t /\ ask'.crossed = c /\ ask'.save = ask.save
      BY <1>1, <2>1, <2>3, <2>4
    <2>6. ~c => ~ask.crossed /\ sem = Free
      BY <2>1
    <2>7. sem # Free => t = ask.taken
      BY <2>2 DEF Counted
    <2>8. tpc' \in ({"wake", "left", "close", "step", "count", "decrement"} \X {0}) \cup ({"copy", "save"} \X (1 .. 5))
          /\ tpc'[1] = "count"
      BY <1>4
    <2>9. SensorsType'
      BY <1>2, <2>5, <2>8 DEF SensorsInv, SensorsType, MachineType
    <2>10. HeldInv'
      BY <1>2, <2>5, <2>7 DEF SensorsInv, HeldInv
    <2>11. ASSUME ask.limit >= 0, ~c
           PROVE  /\ machine["left"] >= 1
                  /\ t + machine["left"] <= ask.limit + bounds.reboots + 1
      <3>1. machine["left"] >= 1 /\ ask.taken + machine["left"] <= ask.limit + bounds.reboots
        BY <1>2, <2>6, <2>11 DEF SensorsInv, LeftInv
      <3> QED
        BY <1>1, <2>4, <3>1
    <2>12. machine["left"] >= 1 => machine["left"] >= 0
      BY <1>1
    <2>13. LeftInv'
      BY <1>2, <2>5, <2>8, <2>11, <2>12 DEF LeftInv
    <2>14. ASSUME ask.limit >= 0, ~c
           PROVE  /\ ask.save # "copied"
                  /\ ask.save = "yes" => /\ "left" \in DOMAIN saved /\ saved["left"] >= 0
                                         /\ t + saved["left"] <= ask.limit + bounds.reboots + 1
      <3>1. /\ ask.save # "copied"
            /\ ask.save = "yes" => /\ "left" \in DOMAIN saved /\ saved["left"] >= 0
                                   /\ ask.taken + saved["left"] <= ask.limit + bounds.reboots
        BY <1>2, <2>6, <2>14 DEF SensorsInv, SavedInv
      <3>2. "left" \in DOMAIN saved => saved["left"] \in Int
        BY DEF SensorsInv, SensorsType, MachineType
      <3> QED
        BY <1>1, <2>4, <3>1, <3>2
    <2>15. SavedInv'
      BY <1>2, <2>5, <2>8, <2>14 DEF SavedInv
    <2> QED
      BY <2>9, <2>10, <2>13, <2>15 DEF SensorsInv
  <1> QED
    BY <1>3, <1>4 DEF CheckStep

LEMMA CopyFieldStep ==
    ASSUME SensorsInv, CopyField
    PROVE  SensorsInv'
  <1>1. /\ machine = [f \in FieldNames |-> machine[f]]
        /\ ask \in [limit : Int, taken : Nat, crossed : BOOLEAN, save : {"no", "copied", "yes"}, start : BOOLEAN]
        /\ machine["left"] \in Int /\ bounds.reboots \in Nat
    BY DEF SensorsInv, SensorsType, MachineType
  <1>2. tpc[1] = "copy" /\ UNCHANGED <<machine, sem, saved, bounds>>
    BY DEF CopyField
  <1>3. PICK i \in 1 .. 5 : tpc[2] = i
    BY <1>2, PcFacts DEF SensorsInv
  <1>4. PICK sv : sv = IF Fields[i] = "left" /\ sem = Free /\ ask.save = "no" THEN "copied" ELSE ask.save
    OBVIOUS
  <1>5. /\ copy' = SetField(copy, Fields[i], machine[Fields[i]])
        /\ tpc' = IF i = 5 THEN <<"save", 1>> ELSE <<"copy", i + 1>>
        /\ ask' = [ask EXCEPT !.save = sv]
    BY <1>3, <1>4, FieldFacts DEF CopyField
  <1>6. /\ ask' \in [limit : Int, taken : Nat, crossed : BOOLEAN, save : {"no", "copied", "yes"}, start : BOOLEAN]
        /\ ask'.limit = ask.limit /\ ask'.taken = ask.taken /\ ask'.crossed = ask.crossed /\ ask'.save = sv
    BY <1>1, <1>4, <1>5
  <1>7. copy' = [f \in DOMAIN copy' |-> copy'[f]]
    BY <1>5 DEF SetField
  <1>8. HeldInv'
    BY <1>2, <1>4, <1>6 DEF SensorsInv, HeldInv
  <1>9. CASE i = 5
    <2>1. tpc' = <<"save", 1>> /\ Fields[i] = "left"
      BY <1>5, <1>9, FieldFacts
    <2>2. "left" \in DOMAIN copy' /\ copy'["left"] = machine["left"]
      BY <1>5, <2>1 DEF SetField
    <2>3. /\ tpc' \in ({"wake", "left", "close", "step", "count", "decrement"} \X {0}) \cup ({"copy", "save"} \X (1 .. 5))
          /\ tpc'[1] = "save" /\ tpc'[2] = 1
      BY <2>1
    <2>4. MachineType'
      BY <1>1, <1>2, <1>7, <2>2, <2>3 DEF SensorsInv, SensorsType, MachineType
    <2>5. SensorsType'
      BY <1>2, <1>6, <2>3, <2>4 DEF SensorsInv, SensorsType
    <2>6. LeftInv'
      BY <1>2, <1>6, <2>3 DEF SensorsInv, LeftInv
    <2>7. sv # "no" => sem = Free
      BY <1>4 DEF SensorsInv, HeldInv
    <2>8. ASSUME ask.limit >= 0, ~ask.crossed, sv # "no"
          PROVE  machine["left"] >= 0 /\ ask.taken + machine["left"] <= ask.limit + bounds.reboots
      BY <1>2, <2>7, <2>8 DEF SensorsInv, LeftInv
    <2>9. sv = "yes" => ask.save = "yes"
      BY <1>4
    <2>10. SavedInv'
      <3>1. SUFFICES ASSUME ask.limit >= 0, ~ask.crossed
                     PROVE  /\ sv # "no" => copy'["left"] >= 0 /\ ask.taken + copy'["left"] <= ask.limit + bounds.reboots
                            /\ sv = "yes" => /\ "left" \in DOMAIN saved /\ saved["left"] >= 0
                                             /\ ask.taken + saved["left"] <= ask.limit + bounds.reboots + 1
        BY <1>2, <1>6, <2>3 DEF SavedInv
      <3> QED
        BY <2>2, <2>8, <2>9, <3>1 DEF SensorsInv, SavedInv
    <2> QED
      BY <1>8, <2>5, <2>6, <2>10 DEF SensorsInv
  <1>10. CASE i # 5
    <2>1. tpc' = <<"copy", i + 1>> /\ i + 1 \in 1 .. 5
      BY <1>5, <1>10
    <2>2. Fields[i] # "left"
      <3>1. i \in {1, 2, 3, 4}
        BY <1>10
      <3> QED
        BY <3>1, FieldFacts
    <2>3. sv = ask.save
      BY <1>4, <2>2
    <2>4. /\ tpc' \in ({"wake", "left", "close", "step", "count", "decrement"} \X {0}) \cup ({"copy", "save"} \X (1 .. 5))
          /\ tpc'[1] = "copy"
      BY <2>1
    <2>5. MachineType'
      BY <1>1, <1>2, <1>7, <2>4 DEF SensorsInv, SensorsType, MachineType
    <2>6. SensorsType'
      BY <1>2, <1>6, <2>4, <2>5 DEF SensorsInv, SensorsType
    <2>7. LeftInv'
      BY <1>2, <1>6, <2>4 DEF SensorsInv, LeftInv
    <2>8. SavedInv'
      BY <1>2, <1>6, <2>3, <2>4 DEF SensorsInv, SavedInv
    <2> QED
      BY <1>8, <2>6, <2>7, <2>8 DEF SensorsInv
  <1> QED
    BY <1>9, <1>10

LEMMA SaveFieldStep ==
    ASSUME SensorsInv, SaveField
    PROVE  SensorsInv'
  <1>1. /\ machine = [f \in FieldNames |-> machine[f]]
        /\ ask \in [limit : Int, taken : Nat, crossed : BOOLEAN, save : {"no", "copied", "yes"}, start : BOOLEAN]
        /\ machine["left"] \in Int /\ bounds.reboots \in Nat
    BY DEF SensorsInv, SensorsType, MachineType
  <1>2. tpc[1] = "save" /\ UNCHANGED <<machine, sem, bounds>>
    BY DEF SaveField
  <1>3. PICK i \in 1 .. 5 : tpc[2] = i
    BY <1>2, PcFacts DEF SensorsInv
  <1>4. PICK sv : sv = IF Fields[i] = "left" /\ ask.save = "copied" THEN "yes" ELSE ask.save
    OBVIOUS
  <1>5. /\ saved' = SetField(saved, Fields[i], copy[Fields[i]])
        /\ tpc' = IF i = 5 THEN <<"wake", 0>> ELSE <<"save", i + 1>>
        /\ copy' = IF i = 5 THEN None ELSE copy
        /\ ask' = [ask EXCEPT !.save = sv]
    BY <1>3, <1>4, FieldFacts DEF SaveField
  <1>6. /\ ask' \in [limit : Int, taken : Nat, crossed : BOOLEAN, save : {"no", "copied", "yes"}, start : BOOLEAN]
        /\ ask'.limit = ask.limit /\ ask'.taken = ask.taken /\ ask'.crossed = ask.crossed /\ ask'.save = sv
    BY <1>1, <1>4, <1>5
  <1>7. /\ saved = [f \in DOMAIN saved |-> saved[f]] /\ DOMAIN saved \subseteq FieldNames
        /\ "left" \in DOMAIN saved => DOMAIN saved = FieldNames /\ saved["left"] \in Int
        /\ "left" \in DOMAIN copy /\ copy["left"] \in Int
        /\ \A j \in 1 .. 5 : j < i => Fields[j] \in DOMAIN saved
        /\ copy = [f \in DOMAIN copy |-> copy[f]]
    BY <1>2, <1>3 DEF SensorsInv, SensorsType, MachineType
  <1>8. /\ saved' = [f \in DOMAIN saved' |-> saved'[f]] /\ DOMAIN saved' = DOMAIN saved \cup {Fields[i]}
        /\ saved'[Fields[i]] = copy[Fields[i]]
        /\ \A f \in DOMAIN saved : f # Fields[i] => saved'[f] = saved[f]
    BY <1>5 DEF SetField
  <1>9. Fields[i] \in FieldNames
    BY FieldFacts DEF FieldNames
  <1>10. HeldInv'
    BY <1>2, <1>4, <1>6 DEF SensorsInv, HeldInv
  <1>11. CASE i = 5
    <2>1. tpc' = <<"wake", 0>> /\ Fields[i] = "left" /\ copy' = [f \in {} |-> 0]
      BY <1>5, <1>11, FieldFacts DEF None
    <2>2. saved'["left"] = copy["left"] /\ "left" \in DOMAIN saved'
      BY <1>8, <2>1
    <2>3. DOMAIN saved' = FieldNames
      <3>1. Fields[1] \in DOMAIN saved /\ Fields[2] \in DOMAIN saved /\ Fields[3] \in DOMAIN saved /\ Fields[4] \in DOMAIN saved
        BY <1>7, <1>11
      <3> QED
        BY <1>7, <1>8, <2>1, <3>1, FieldFacts DEF FieldNames
    <2>4. /\ tpc' \in ({"wake", "left", "close", "step", "count", "decrement"} \X {0}) \cup ({"copy", "save"} \X (1 .. 5))
          /\ tpc'[1] = "wake"
      BY <2>1
    <2>5. copy' = [f \in DOMAIN copy' |-> copy'[f]]
      BY <2>1
    <2>6. MachineType'
      BY <1>1, <1>2, <1>7, <1>8, <2>2, <2>3, <2>4, <2>5 DEF MachineType
    <2>7. SensorsType'
      BY <1>2, <1>6, <2>4, <2>6 DEF SensorsInv, SensorsType
    <2>8. LeftInv'
      BY <1>2, <1>6, <2>4 DEF SensorsInv, LeftInv
    <2>9. sv = "yes" => ask.save # "no"
      BY <1>4
    <2>10. sv # "copied"
      BY <1>1, <1>4, <2>1
    <2>11. SavedInv'
      <3>1. SUFFICES ASSUME ask.limit >= 0, ~ask.crossed, sv = "yes"
                     PROVE  /\ copy["left"] >= 0
                            /\ ask.taken + copy["left"] <= ask.limit + bounds.reboots
                            /\ ask.taken + copy["left"] <= ask.limit + bounds.reboots + 1
        BY <1>2, <1>6, <2>2, <2>4, <2>10 DEF SavedInv
      <3>2. copy["left"] >= 0 /\ ask.taken + copy["left"] <= ask.limit + bounds.reboots
        BY <1>2, <2>9, <3>1 DEF SensorsInv, SavedInv
      <3>3. ask.taken \in Nat /\ ask.limit \in Int
        BY <1>1
      <3> QED
        BY <1>1, <1>7, <3>2, <3>3
    <2> QED
      BY <1>10, <2>7, <2>8, <2>11 DEF SensorsInv
  <1>12. CASE i # 5
    <2>1. tpc' = <<"save", i + 1>> /\ i + 1 \in 1 .. 5 /\ copy' = copy
      BY <1>5, <1>12
    <2>2. Fields[i] # "left"
      <3>1. i \in {1, 2, 3, 4}
        BY <1>12
      <3> QED
        BY <3>1, FieldFacts
    <2>3. sv = ask.save
      BY <1>4, <2>2
    <2>4. /\ tpc' \in ({"wake", "left", "close", "step", "count", "decrement"} \X {0}) \cup ({"copy", "save"} \X (1 .. 5))
          /\ tpc'[1] = "save" /\ tpc'[2] = i + 1
      BY <2>1
    <2>5. \A j \in 1 .. 5 : j < i + 1 => Fields[j] \in DOMAIN saved'
      <3>1. ASSUME NEW j \in 1 .. 5, j < i + 1
            PROVE  Fields[j] \in DOMAIN saved'
        <4>1. j = i \/ j < i
          BY <3>1
        <4> QED
          BY <1>7, <1>8, <4>1
      <3> QED
        BY <3>1
    <2>6. /\ DOMAIN saved' \subseteq FieldNames
          /\ "left" \in DOMAIN saved' <=> "left" \in DOMAIN saved
          /\ "left" \in DOMAIN saved => saved'["left"] = saved["left"] /\ DOMAIN saved' = FieldNames
      BY <1>7, <1>8, <1>9, <2>2
    <2>7. MachineType'
      BY <1>1, <1>2, <1>7, <1>8, <2>1, <2>4, <2>5, <2>6 DEF MachineType
    <2>8. SensorsType'
      BY <1>2, <1>6, <2>4, <2>7 DEF SensorsInv, SensorsType
    <2>9. LeftInv'
      BY <1>2, <1>6, <2>4 DEF SensorsInv, LeftInv
    <2>10. SavedInv'
      BY <1>2, <1>6, <2>1, <2>3, <2>4, <2>6 DEF SensorsInv, SavedInv
    <2> QED
      BY <1>10, <2>8, <2>9, <2>10 DEF SensorsInv
  <1> QED
    BY <1>11, <1>12

--------------------------------------------------------------------------------
(* The commands and the reboot *)

LEMMA SetStep ==
    ASSUME SensorsInv, NEW a \in Actions, NEW s \in Steps, NEW n \in Samples \cup {-1}, set_state(a, s, n)
    PROVE  SensorsInv'
  <1>1. /\ machine = [f \in FieldNames |-> machine[f]] /\ machine["left"] \in Int
        /\ bounds \in [sets : Nat, activates : Nat, reboots : Nat]
    BY DEF SensorsInv, SensorsType, MachineType
  <1>2. /\ sem' = <<n>> /\ machine' = [machine EXCEPT !["action"] = a, !["step"] = s]
        /\ bounds' = [bounds EXCEPT !.sets = @ + 1]
        /\ UNCHANGED <<tpc, copy, saved>>
    BY DEF set_state
  <1>3. PICK c \in BOOLEAN, b \in BOOLEAN :
            ask' = [limit |-> n, taken |-> 0, save |-> "no", crossed |-> c, start |-> b]
    <2>1. PICK c \in BOOLEAN : c = (tpc[1] \in {"step", "count", "decrement"})
      <3>1. (tpc[1] \in {"step", "count", "decrement"}) \in BOOLEAN
        OBVIOUS
      <3> QED
        BY <3>1, Zenon
    <2>2. PICK b \in BOOLEAN : b = (a = "START" /\ n # 0 /\ tpc[1] # "close")
      OBVIOUS
    <2>3. ask' = [limit |-> n, taken |-> 0, save |-> "no", crossed |-> c, start |-> b]
      BY <2>1, <2>2 DEF set_state
    <2> QED
      BY <2>3
  <1>4. n \in Int
    BY SensorsAssumption
  <1>5. machine' = [f \in FieldNames |-> machine'[f]] /\ machine'["left"] = machine["left"]
    BY <1>1, <1>2 DEF FieldNames
  <1>6. bounds' \in [sets : Nat, activates : Nat, reboots : Nat]
    BY <1>1, <1>2
  <1>7. /\ ask' \in [limit : Int, taken : Nat, crossed : BOOLEAN, save : {"no", "copied", "yes"}, start : BOOLEAN]
        /\ ask'.limit = n /\ ask'.taken = 0 /\ ask'.save = "no"
    BY <1>3, <1>4
  <1>8. SensorsType'
    BY <1>2, <1>5, <1>6, <1>7 DEF SensorsInv, SensorsType, MachineType
  <1>9. sem' # Free
    BY <1>2 DEF Free
  <1>10. HeldInv'
    BY <1>2, <1>7 DEF HeldInv
  <1>11. LeftInv'
    BY <1>9 DEF LeftInv, Free
  <1>12. SavedInv'
    BY <1>7 DEF SavedInv
  <1> QED
    BY <1>8, <1>10, <1>11, <1>12 DEF SensorsInv

LEMMA SetEndStep ==
    ASSUME SensorsInv, set_state_end
    PROVE  SensorsInv'
  <1>1. /\ machine = [f \in FieldNames |-> machine[f]] /\ bounds.reboots \in Nat
        /\ ask \in [limit : Int, taken : Nat, crossed : BOOLEAN, save : {"no", "copied", "yes"}, start : BOOLEAN]
    BY DEF SensorsInv, SensorsType, MachineType
  <1>2. sem # Free /\ sem' = Free /\ UNCHANGED <<tpc, copy, saved, bounds>>
        /\ machine' = [machine EXCEPT !["left"] = sem[1]]
    BY DEF set_state_end
  <1>3. sem = <<ask.limit>> /\ ask.taken = 0 /\ ask.save = "no"
    BY <1>2 DEF SensorsInv, HeldInv
  <1>4. PICK c \in BOOLEAN : c = (ask.crossed \/ tpc[1] \in {"step", "count", "decrement"})
    OBVIOUS
  <1>5. PICK b \in BOOLEAN : ask' = [ask EXCEPT !.crossed = c, !.start = b]
    BY <1>4 DEF set_state_end
  <1>6. /\ ask' \in [limit : Int, taken : Nat, crossed : BOOLEAN, save : {"no", "copied", "yes"}, start : BOOLEAN]
        /\ ask'.limit = ask.limit /\ ask'.taken = ask.taken /\ ask'.crossed = c /\ ask'.save = ask.save
    BY <1>1, <1>4, <1>5
  <1>7. machine' = [f \in FieldNames |-> machine'[f]] /\ machine'["left"] = ask.limit
    BY <1>1, <1>2, <1>3 DEF FieldNames
  <1>8. SensorsType'
    BY <1>1, <1>2, <1>6, <1>7 DEF SensorsInv, SensorsType, MachineType
  <1>9. HeldInv'
    BY <1>2 DEF HeldInv, Free
  <1>10. ~c => tpc[1] \notin {"step", "count", "decrement"}
    BY <1>4
  <1>11. 0 + ask.limit <= ask.limit + bounds.reboots
    BY <1>1
  <1>12. LeftInv'
    BY <1>2, <1>3, <1>6, <1>7, <1>10, <1>11 DEF LeftInv
  <1>13. SavedInv'
    BY <1>3, <1>6 DEF SavedInv
  <1> QED
    BY <1>8, <1>9, <1>12, <1>13 DEF SensorsInv

LEMMA ActivateStep ==
    ASSUME SensorsInv, NEW S, NEW on, activate_sensor(S, on)
    PROVE  SensorsInv'
  <1>1. /\ machine = [f \in FieldNames |-> machine[f]]
        /\ bounds \in [sets : Nat, activates : Nat, reboots : Nat]
    BY DEF SensorsInv, SensorsType, MachineType
  <1>2. /\ bounds' = [bounds EXCEPT !.activates = @ + 1]
        /\ UNCHANGED <<sem, tpc, copy, saved, ask>>
    BY DEF activate_sensor
  <1>3. PICK v : machine' = [machine EXCEPT !["payloads"] = v]
    BY DEF activate_sensor
  <1>4. machine' = [f \in FieldNames |-> machine'[f]] /\ machine'["left"] = machine["left"]
    BY <1>1, <1>3 DEF FieldNames
  <1>5. bounds' \in [sets : Nat, activates : Nat, reboots : Nat] /\ bounds'.reboots = bounds.reboots
    BY <1>1, <1>2
  <1>6. SensorsType'
    BY <1>2, <1>4, <1>5 DEF SensorsInv, SensorsType, MachineType
  <1>7. HeldInv'
    BY <1>2 DEF SensorsInv, HeldInv
  <1>8. LeftInv'
    BY <1>2, <1>4, <1>5 DEF SensorsInv, LeftInv
  <1>9. SavedInv'
    BY <1>2, <1>5 DEF SensorsInv, SavedInv
  <1> QED
    BY <1>6, <1>7, <1>8, <1>9 DEF SensorsInv

LEMMA RebootStep ==
    ASSUME SensorsInv, SensorsReboot
    PROVE  SensorsInv'
  <1>1. /\ saved = [f \in DOMAIN saved |-> saved[f]] /\ DOMAIN saved \subseteq FieldNames
        /\ "left" \in DOMAIN saved => DOMAIN saved = FieldNames /\ saved["left"] \in Int
        /\ bounds \in [sets : Nat, activates : Nat, reboots : Nat]
        /\ ask \in [limit : Int, taken : Nat, crossed : BOOLEAN, save : {"no", "copied", "yes"}, start : BOOLEAN]
    BY DEF SensorsInv, SensorsType, MachineType
  <1>2. /\ bounds' = [bounds EXCEPT !.reboots = @ + 1] /\ machine' = Restored
        /\ sem' = Free /\ tpc' = <<"wake", 0>> /\ copy' = [f \in {} |-> 0] /\ saved' = saved
    BY DEF SensorsReboot, None
  <1>3. PICK c \in BOOLEAN : c = (ask.crossed \/ ask.save # "yes")
    OBVIOUS
  <1>4. ask' = [ask EXCEPT !.crossed = c, !.start = FALSE]
    BY <1>3 DEF SensorsReboot
  <1>5. /\ ask' \in [limit : Int, taken : Nat, crossed : BOOLEAN, save : {"no", "copied", "yes"}, start : BOOLEAN]
        /\ ask'.limit = ask.limit /\ ask'.taken = ask.taken /\ ask'.crossed = c /\ ask'.save = ask.save
    BY <1>1, <1>4
  <1>6. /\ bounds' \in [sets : Nat, activates : Nat, reboots : Nat] /\ bounds'.reboots = bounds.reboots + 1
    BY <1>1, <1>2
  <1>7. /\ machine' = [f \in FieldNames |-> machine'[f]] /\ machine'["left"] \in Int
        /\ "left" \in DOMAIN saved => machine'["left"] = saved["left"]
    <2>1. PICK s : s = saved
      OBVIOUS
    <2>2. machine' = IF {"action", "state", "payloads", "step"} \subseteq DOMAIN s
                     THEN [f \in DOMAIN s \cup {"left"} |-> IF f \in DOMAIN s THEN s[f] ELSE -1]
                     ELSE [action |-> "START", state |-> "PAUSE", step |-> DefaultStep,
                           payloads |-> {}, left |-> -1]
      BY <1>2, <2>1 DEF Restored
    <2>3. /\ s = [f \in DOMAIN s |-> s[f]] /\ DOMAIN s \subseteq FieldNames
          /\ "left" \in DOMAIN s => DOMAIN s = FieldNames /\ s["left"] \in Int
      BY <1>1, <2>1
    <2> QED
      BY SMTT(60), <2>1, <2>2, <2>3, RestoredFacts
  <1>8. /\ tpc' \in ({"wake", "left", "close", "step", "count", "decrement"} \X {0}) \cup ({"copy", "save"} \X (1 .. 5))
        /\ tpc'[1] = "wake"
    BY <1>2
  <1>9. copy' = [f \in DOMAIN copy' |-> copy'[f]]
    BY <1>2
  <1>10. SensorsType'
    BY <1>1, <1>2, <1>5, <1>6, <1>7, <1>8, <1>9 DEF SensorsType, MachineType
  <1>11. HeldInv'
    BY <1>2 DEF HeldInv, Free
  <1>12. ASSUME ask.limit >= 0, ~c
         PROVE  /\ ask.save = "yes" /\ "left" \in DOMAIN saved /\ saved["left"] >= 0
                /\ ask.taken + saved["left"] <= ask.limit + bounds'.reboots
                /\ ask.taken + saved["left"] <= ask.limit + bounds'.reboots + 1
    <2>1. ~ask.crossed /\ ask.save = "yes"
      BY <1>3, <1>12
    <2>2. /\ "left" \in DOMAIN saved /\ saved["left"] >= 0
          /\ ask.taken + saved["left"] <= ask.limit + bounds.reboots + 1
      BY <1>12, <2>1 DEF SensorsInv, SavedInv
    <2>3. bounds.reboots \in Nat /\ ask.taken \in Nat /\ ask.limit \in Int /\ saved["left"] \in Int
      BY <1>1, <2>2
    <2> QED
      BY <1>6, <2>1, <2>2, <2>3
  <1>13. LeftInv'
    BY <1>5, <1>7, <1>8, <1>12 DEF LeftInv
  <1>14. SavedInv'
    BY <1>2, <1>5, <1>8, <1>12 DEF SavedInv
  <1> QED
    BY <1>10, <1>11, <1>13, <1>14 DEF SensorsInv

LEMMA SensorsInvNext == SensorsInv /\ [SensorsNext]_sensorsVars => SensorsInv'
  <1>1. SUFFICES ASSUME SensorsInv, [SensorsNext]_sensorsVars PROVE SensorsInv'
    OBVIOUS
  <1>2. CASE UNCHANGED sensorsVars
    BY <1>1, <1>2 DEF sensorsVars, SensorsInv, SensorsType, MachineType, HeldInv, LeftInv, SavedInv
  <1>3. CASE TaskSensors
    BY <1>1, <1>3, ApplyStep, CheckLeftStep, CloseStep, CheckStepStep, CheckCountStep, DecrementStep,
        CopyFieldStep, SaveFieldStep DEF TaskSensors
  <1>4. CASE SensorsNext /\ ~TaskSensors
    BY <1>1, <1>4, SetStep, SetEndStep, ActivateStep, RebootStep DEF SensorsNext
  <1> QED
    BY <1>1, <1>2, <1>3, <1>4

LEMMA SensorsInvariant == SensorsSpec => []SensorsInv
  BY SensorsInvInit, SensorsInvNext, PTL DEF SensorsSpec

(* A request for nsamples rounds that does not land in the middle of a     *)
(* round and is saved before a reboot gets at most nsamples rounds and one *)
(* more per reboot, for every number of samples, period and set of         *)
(* sensors: the unlocked reads of taskSensors.c lose no other round.       *)
THEOREM BudgetCorrect == SensorsSpec => []SamplesBudget
  <1>1. SensorsInv => SamplesBudget
    <2>1. SUFFICES ASSUME SensorsInv, ask.limit >= 0, ~ask.crossed
                   PROVE  ask.taken <= ask.limit + bounds.reboots
      BY DEF SamplesBudget
    <2>2. ask.limit \in Int /\ ask.taken \in Nat /\ bounds.reboots \in Nat /\ machine["left"] \in Int
      BY <2>1 DEF SensorsInv, SensorsType, MachineType
    <2>3. CASE sem # Free
      <3>1. ask.taken = 0
        BY <2>1, <2>3 DEF SensorsInv, HeldInv
      <3> QED
        BY <2>1, <2>2, <3>1
    <2>4. CASE sem = Free /\ tpc[1] \in {"count", "decrement"}
      <3>1. machine["left"] >= 1 /\ ask.taken + machine["left"] <= ask.limit + bounds.reboots + 1
        BY <2>1, <2>4 DEF SensorsInv, LeftInv
      <3> QED
        BY <2>2, <3>1
    <2>5. CASE sem = Free /\ tpc[1] \notin {"count", "decrement"}
      <3>1. machine["left"] >= 0 /\ ask.taken + machine["left"] <= ask.limit + bounds.reboots
        BY <2>1, <2>5 DEF SensorsInv, LeftInv
      <3> QED
        BY <2>2, <3>1
    <2> QED
      BY <2>3, <2>4, <2>5
  <1> QED
    BY <1>1, SensorsInvariant, PTL

--------------------------------------------------------------------------------
(* Housekeeping: the hour counters *)

HouseCommands ==
    Orders \cup {Command("obc_debug"), Command("obc_get_sensors"), Command("obc_update_status"),
                 Command("drp_add_hrs_alive")}

HouseType ==
    /\ row \in [DOMAIN row -> Int] /\ DOMAIN row \subseteq Addresses
    /\ base \in [{HrsAlive, HrsWoReset} -> Int]
    /\ phase \in {"repo", "hours", "resets", "run"}
    /\ elapsed_sec \in Nat /\ tosend \in Seq(HouseCommands) /\ pending \in Seq(HouseCommands)
    /\ doing \in [cmd : HouseCommands \cup {Command("none")},
                  pc : {"idle", "alive", "setAlive", "wo", "setWo", "reset"}, current : Int]
    /\ doing.pc = "reset" => doing.current \in Addresses

(* Nothing is sent or executed before the boot is over. *)
BootInv ==
    phase # "run" => elapsed_sec = 1 /\ tosend = <<>> /\ pending = <<>> /\ doing = Waiting

(* The hours alive are exact in every phase, those without reset from the  *)
(* time the boot has set them.                                             *)
HoursInv ==
    /\ HrsAlive \in DOMAIN row => row[HrsAlive] = base[HrsAlive] + HoursAdded(HrsAlive)
    /\ phase \in {"resets", "run"} => /\ HrsWoReset \in DOMAIN row
                                      /\ row[HrsWoReset] = base[HrsWoReset] + HoursAdded(HrsWoReset)

(* What was read is not written by anyone else before it is written back. *)
DoingInv ==
    /\ doing.pc = "setAlive" /\ HrsAlive \in DOMAIN row => doing.current = row[HrsAlive] + 1
    /\ doing.pc = "setWo" => doing.current = row[HrsWoReset] + 1

HouseInv == HouseType /\ BootInv /\ HoursInv /\ DoingInv

LEMMA Pairs ==
    /\ HrsAlive # HrsWoReset /\ HrsAlive \notin {ResetCounter, Temp, DateTime}
    /\ HrsWoReset \notin {ResetCounter, Temp, DateTime}
  BY DEF HrsAlive, HrsWoReset, ResetCounter, Temp, DateTime

LEMMA ListFacts ==
    /\ Addresses = {0, 1, 2, 3, 4} /\ {HrsAlive, HrsWoReset, ResetCounter, Temp, DateTime} \subseteq Addresses
    /\ \A x \in Addresses : Default(x) \in Int
    /\ \A d \in Definitions : d.address \in Addresses
    /\ Default(HrsAlive) = 0
  <1>1. Definitions = {[address |-> 0, name |-> "obc_hrs_alive",     type |-> "u", value |-> 0],
                       [address |-> 1, name |-> "obc_hrs_wo_reset",  type |-> "u", value |-> 0],
                       [address |-> 2, name |-> "obc_reset_counter", type |-> "u", value |-> 0],
                       [address |-> 3, name |-> "obc_temp_1",        type |-> "f", value |-> -1],
                       [address |-> 4, name |-> "rtc_date_time",     type |-> "d", value |-> -1]}
    BY DEF Definitions, dat_status_list, HrsAlive, HrsWoReset, ResetCounter, Temp, DateTime
  <1>2. Addresses = {0, 1, 2, 3, 4}
    BY <1>1 DEF Addresses
  <1>3. \A d \in Definitions : d.value \in Int /\ d.address \in Addresses
    BY <1>1 DEF Addresses
  <1>4. ASSUME NEW x \in Addresses
        PROVE  Default(x) \in Int
    <2>1. \E d \in dat_get_status_var_def(x) : TRUE
      BY DEF Addresses, dat_get_status_var_def
    <2>2. (CHOOSE d \in dat_get_status_var_def(x) : TRUE) \in dat_get_status_var_def(x)
      BY <2>1
    <2> QED
      BY <1>3, <2>2 DEF Default, dat_get_status_var_def
  <1>5. {HrsAlive, HrsWoReset, ResetCounter, Temp, DateTime} \subseteq Addresses
    BY <1>2 DEF HrsAlive, HrsWoReset, ResetCounter, Temp, DateTime
  <1>6. Default(HrsAlive) = 0
    <2>1. dat_get_status_var_def(0) =
              {[address |-> 0, name |-> "obc_hrs_alive", type |-> "u", value |-> 0]}
      BY <1>1 DEF dat_get_status_var_def
    <2>2. (CHOOSE d \in dat_get_status_var_def(0) : TRUE) \in dat_get_status_var_def(0)
      BY <2>1
    <2> QED
      BY <2>1, <2>2 DEF Default, HrsAlive
  <1> QED
    BY <1>2, <1>3, <1>4, <1>5, <1>6

LEMMA TypedInt == \A t : \A h \in Nat : Typed(t, h) \in Int
  BY DEF Typed, ToFloat

LEMMA WriteFacts ==
    ASSUME HouseType, NEW x \in Addresses, NEW v \in Int, StatusWrite(x, v)
    PROVE  /\ row' \in [DOMAIN row' -> Int] /\ DOMAIN row' \subseteq Addresses
           /\ DOMAIN row' = DOMAIN row \cup {x} /\ row'[x] = v
           /\ \A y \in DOMAIN row : y # x => row'[y] = row[y]
  BY DEF HouseType, StatusWrite

--------------------------------------------------------------------------------
(* The hour commands of a queue *)

Marked(s) == {i \in DOMAIN s : s[i].c = "drp_add_hrs_alive"}

LEMMA MarkedFinite ==
    ASSUME NEW S, NEW s \in Seq(S)
    PROVE  /\ IsFiniteSet(Marked(s)) /\ HourCommands(s) = Cardinality(Marked(s))
           /\ HourCommands(s) \in Nat
  <1>1. DOMAIN s = 1 .. Len(s) /\ Len(s) \in Nat
    OBVIOUS
  <1>2. IsFiniteSet(1 .. Len(s))
    BY <1>1, FS_Interval
  <1>3. IsFiniteSet(Marked(s))
    BY <1>1, <1>2, FS_Subset DEF Marked
  <1>4. HourCommands(s) = Cardinality(Marked(s))
    BY DEF HourCommands, Marked
  <1> QED
    BY <1>3, <1>4, FS_CardinalityType

LEMMA NoneMarked ==
    ASSUME NEW S, NEW s \in Seq(S), \A o \in S : o.c # "drp_add_hrs_alive"
    PROVE  HourCommands(s) = 0
  <1>1. Marked(s) = {}
    BY DEF Marked
  <1> QED
    BY <1>1, MarkedFinite, FS_EmptySet

LEMMA MarkedAppend ==
    ASSUME NEW S, NEW s \in Seq(S), NEW o \in S
    PROVE  /\ o.c = "drp_add_hrs_alive" => HourCommands(Append(s, o)) = HourCommands(s) + 1
           /\ o.c # "drp_add_hrs_alive" => HourCommands(Append(s, o)) = HourCommands(s)
  <1>1. PICK n \in Nat : n = Len(s)
    OBVIOUS
  <1>2. PICK t : t = Append(s, o)
    OBVIOUS
  <1>3. /\ t \in Seq(S)
        /\ DOMAIN s = 1 .. n /\ DOMAIN t = 1 .. (n + 1) /\ t[n + 1] = o
        /\ \A i \in 1 .. n : t[i] = s[i]
    BY <1>1, <1>2
  <1>4. /\ IsFiniteSet(Marked(s)) /\ HourCommands(s) = Cardinality(Marked(s))
        /\ HourCommands(t) = Cardinality(Marked(t))
    BY <1>3, MarkedFinite
  <1>5. 1 .. (n + 1) = (1 .. n) \cup {n + 1} /\ n + 1 \notin 1 .. n
    OBVIOUS
  <1>6. ASSUME o.c = "drp_add_hrs_alive"
        PROVE  HourCommands(t) = HourCommands(s) + 1
    <2>1. Marked(t) = Marked(s) \cup {n + 1} /\ n + 1 \notin Marked(s)
      BY <1>3, <1>5, <1>6 DEF Marked
    <2> QED
      BY ZenonT(60), <1>4, <2>1, FS_AddElement
  <1>7. ASSUME o.c # "drp_add_hrs_alive"
        PROVE  HourCommands(t) = HourCommands(s)
    <2>1. Marked(t) = Marked(s)
      BY <1>3, <1>5, <1>7 DEF Marked
    <2> QED
      BY <1>4, <2>1
  <1> QED
    BY <1>2, <1>6, <1>7

LEMMA MarkedTail ==
    ASSUME NEW S, NEW s \in Seq(S), s # <<>>
    PROVE  /\ Tail(s) \in Seq(S) /\ Head(s) \in S
           /\ Head(s).c = "drp_add_hrs_alive" => HourCommands(s) = HourCommands(Tail(s)) + 1
           /\ Head(s).c # "drp_add_hrs_alive" => HourCommands(s) = HourCommands(Tail(s))
  <1>1. PICK n \in Nat : n = Len(s)
    OBVIOUS
  <1>2. PICK t : t = Tail(s)
    OBVIOUS
  <1>3. /\ t \in Seq(S)
        /\ DOMAIN s = 1 .. n /\ DOMAIN t = 1 .. (n - 1) /\ s[1] = Head(s) /\ n >= 1
        /\ \A i \in 1 .. (n - 1) : t[i] = s[i + 1]
    BY <1>1, <1>2
  <1>4. /\ IsFiniteSet(Marked(t)) /\ HourCommands(s) = Cardinality(Marked(s))
        /\ HourCommands(t) = Cardinality(Marked(t)) /\ HourCommands(t) \in Nat
    BY <1>3, MarkedFinite
  <1>12. PICK U : U = {i \in 2 .. n : s[i].c = "drp_add_hrs_alive"}
    OBVIOUS
  <1>5. \A i \in 1 .. (n - 1) : i + 1 \in 2 .. n
    BY <1>3
  <1>6. [i \in Marked(t) |-> i + 1] \in Bijection(Marked(t), U)
    <2> DEFINE f == [i \in Marked(t) |-> i + 1]
    <2>1. Marked(t) \subseteq 1 .. (n - 1)
      BY <1>3 DEF Marked
    <2>2. f \in [Marked(t) -> U]
      BY <1>3, <1>5, <1>12, <2>1 DEF Marked
    <2>3. \A i, j \in Marked(t) : f[i] = f[j] => i = j
      BY <2>1
    <2>4. ASSUME NEW u \in U
          PROVE  \E i \in Marked(t) : f[i] = u
      <3>1. u - 1 \in 1 .. (n - 1) /\ (u - 1) + 1 = u /\ s[u].c = "drp_add_hrs_alive"
        BY <1>12
      <3>2. t[u - 1] = s[u]
        BY <1>3, <3>1
      <3>3. u - 1 \in Marked(t)
        BY <1>3, <3>1, <3>2 DEF Marked
      <3> QED
        BY <3>1, <3>3
    <2> QED
      BY <2>2, <2>3, <2>4 DEF Bijection, Injection, IsInjective, Surjection
  <1>7. IsFiniteSet(U) /\ Cardinality(U) = Cardinality(Marked(t))
    <2>1. ExistsBijection(Marked(t), U)
      BY <1>6 DEF ExistsBijection
    <2> QED
      BY <1>4, <2>1, FS_Bijection
  <1>8. 1 .. n = {1} \cup (2 .. n) /\ 1 \notin 2 .. n
    BY <1>3
  <1>9. ASSUME Head(s).c = "drp_add_hrs_alive"
        PROVE  HourCommands(s) = HourCommands(t) + 1
    <2>1. Marked(s) = U \cup {1} /\ 1 \notin U
      BY <1>3, <1>8, <1>9, <1>12 DEF Marked
    <2> QED
      <3>1. Cardinality(U \cup {1}) = Cardinality(U) + 1
        BY <1>7, <2>1, FS_AddElement
      <3> QED
        BY <1>4, <1>7, <2>1, <3>1
  <1>10. ASSUME Head(s).c # "drp_add_hrs_alive"
         PROVE  HourCommands(s) = HourCommands(t)
    <2>1. Marked(s) = U
      BY <1>3, <1>8, <1>10, <1>12 DEF Marked
    <2> QED
      BY <1>4, <1>7, <2>1
  <1>11. Head(s) \in S
    BY <1>3
  <1> QED
    BY <1>2, <1>9, <1>10, <1>11

LEMMA NoneQueued == HourCommands(<<>>) = 0
  <1>1. DOMAIN <<>> = {}
    OBVIOUS
  <1>2. {i \in DOMAIN <<>> : <<>>[i].c = "drp_add_hrs_alive"} = {}
    BY <1>1
  <1> QED
    BY <1>2, FS_EmptySet DEF HourCommands

(* A full hour is over exactly when a second makes the next one. *)
LEMMA NextHour ==
    ASSUME NEW e \in Nat
    PROVE  /\ e \div Hour \in Nat
           /\ (e + 1) % Hour = 0 => (e + 1) \div Hour = e \div Hour + 1
           /\ (e + 1) % Hour # 0 => (e + 1) \div Hour = e \div Hour
           /\ 1 \div Hour = 0
  <1>1. PICK H \in Nat : H = Hour /\ H > 1
    BY HousekeepingAssumption
  <1>2. PICK q, r : q = e \div H /\ r = e % H
    OBVIOUS
  <1>3. q \in Nat /\ r \in 0 .. H - 1 /\ e = H * q + r
    BY <1>1, <1>2
  <1>4. CASE r = H - 1
    <2>1. H * (q + 1) = H * q + H
      BY <1>3
    <2>2. e + 1 = H * (q + 1)
      BY <1>3, <1>4, <2>1
    <2>3. (e + 1) % H = 0 /\ (e + 1) \div H = q + 1
      BY <1>1, <1>3, <2>2
    <2> QED
      BY <1>1, <1>2, <1>3, <2>3
  <1>5. CASE r # H - 1
    <2>1. e + 1 = H * q + (r + 1) /\ r + 1 \in 1 .. H - 1
      BY <1>3, <1>5
    <2>2. (e + 1) % H = r + 1 /\ (e + 1) \div H = q
      BY <1>1, <1>3, <2>1
    <2> QED
      BY <1>1, <1>2, <1>3, <2>1, <2>2
  <1> QED
    BY <1>3, <1>4, <1>5

--------------------------------------------------------------------------------
(* Hours on their way *)

AddedFacts ==
    /\ elapsed_sec \div Hour \in Nat /\ HourCommands(tosend) \in Nat /\ HourCommands(pending) \in Nat
    /\ doing.pc \in {"alive", "setAlive"} =>
           HoursAdded(HrsAlive) = elapsed_sec \div Hour - (HourCommands(tosend) + HourCommands(pending) + 1)
    /\ doing.pc \notin {"alive", "setAlive"} =>
           HoursAdded(HrsAlive) = elapsed_sec \div Hour - (HourCommands(tosend) + HourCommands(pending))
    /\ doing.pc \in {"alive", "setAlive", "wo", "setWo"} =>
           HoursAdded(HrsWoReset) = elapsed_sec \div Hour - (HourCommands(tosend) + HourCommands(pending) + 1)
    /\ doing.pc \notin {"alive", "setAlive", "wo", "setWo"} =>
           HoursAdded(HrsWoReset) = elapsed_sec \div Hour - (HourCommands(tosend) + HourCommands(pending))
    /\ HoursAdded(HrsAlive) \in Int /\ HoursAdded(HrsWoReset) \in Int

LEMMA AddedIs == HouseType => AddedFacts
  <1>1. SUFFICES ASSUME HouseType PROVE AddedFacts
    OBVIOUS
  <1>2. elapsed_sec \in Nat /\ tosend \in Seq(HouseCommands) /\ pending \in Seq(HouseCommands)
    BY <1>1 DEF HouseType
  <1>3. PICK q, t, p : q = elapsed_sec \div Hour /\ t = HourCommands(tosend) /\ p = HourCommands(pending)
    OBVIOUS
  <1>4. q \in Nat /\ t \in Nat /\ p \in Nat
    BY <1>2, <1>3, NextHour, MarkedFinite
  <1>5. PICK pc : pc = doing.pc
    OBVIOUS
  <1>6. /\ Outstanding(HrsAlive) = t + p + (IF pc \in {"alive", "setAlive"} THEN 1 ELSE 0)
        /\ Outstanding(HrsWoReset) = t + p + (IF pc \in {"alive", "setAlive", "wo", "setWo"} THEN 1 ELSE 0)
    BY <1>3, <1>5, Pairs DEF Outstanding
  <1>7. /\ pc \in {"alive", "setAlive"} => HoursAdded(HrsAlive) = q - (t + p + 1)
        /\ pc \notin {"alive", "setAlive"} => HoursAdded(HrsAlive) = q - (t + p)
    BY <1>3, <1>4, <1>6 DEF HoursAdded
  <1>8. /\ pc \in {"alive", "setAlive", "wo", "setWo"} => HoursAdded(HrsWoReset) = q - (t + p + 1)
        /\ pc \notin {"alive", "setAlive", "wo", "setWo"} => HoursAdded(HrsWoReset) = q - (t + p)
    BY <1>3, <1>4, <1>6 DEF HoursAdded
  <1>9. HoursAdded(HrsAlive) \in Int /\ HoursAdded(HrsWoReset) \in Int
    BY <1>4, <1>7, <1>8
  <1> QED
    BY <1>3, <1>4, <1>5, <1>7, <1>8, <1>9 DEF AddedFacts

LEMMA BootAdded ==
    HouseType /\ BootInv /\ phase # "run" => HoursAdded(HrsAlive) = 0 /\ HoursAdded(HrsWoReset) = 0
  <1>1. SUFFICES ASSUME HouseType, BootInv, phase # "run"
                 PROVE  HoursAdded(HrsAlive) = 0 /\ HoursAdded(HrsWoReset) = 0
    OBVIOUS
  <1>2. elapsed_sec = 1 /\ tosend = <<>> /\ pending = <<>> /\ doing.pc = "idle"
    BY <1>1 DEF BootInv, Waiting
  <1>3. elapsed_sec \div Hour = 0 /\ HourCommands(tosend) = 0 /\ HourCommands(pending) = 0
    BY <1>2, NextHour, NoneQueued
  <1>4. /\ HoursAdded(HrsAlive) = elapsed_sec \div Hour - (HourCommands(tosend) + HourCommands(pending))
        /\ HoursAdded(HrsWoReset) = elapsed_sec \div Hour - (HourCommands(tosend) + HourCommands(pending))
    BY <1>1, <1>2, AddedIs DEF AddedFacts
  <1> QED
    BY <1>3, <1>4

LEMMA HouseInvInit == HouseInit => HouseInv
  <1>1. SUFFICES ASSUME HouseInit PROVE HouseInv
    OBVIOUS
  <1>2. /\ phase = "repo" /\ elapsed_sec = 1 /\ tosend = <<>> /\ pending = <<>> /\ doing = Waiting
        /\ base = [x \in {HrsAlive, HrsWoReset} |-> 0]
    BY <1>1 DEF HouseInit
  <1>3. row \in [DOMAIN row -> Int] /\ DOMAIN row \subseteq Addresses /\ \A x \in DOMAIN row : row[x] = 0
    BY <1>1 DEF HouseInit
  <1>4. doing \in [cmd : HouseCommands \cup {Command("none")},
                   pc : {"idle", "alive", "setAlive", "wo", "setWo", "reset"}, current : Int]
        /\ doing.pc = "idle"
    BY <1>2 DEF Waiting
  <1>5. HouseType
    BY <1>2, <1>3, <1>4 DEF HouseType
  <1>6. BootInv /\ DoingInv
    BY <1>2, <1>4 DEF BootInv, DoingInv
  <1>7. HoursInv
    <2>1. HoursAdded(HrsAlive) = 0
      BY <1>2, <1>5, <1>6, BootAdded
    <2>2. base[HrsAlive] = 0
      BY <1>2
    <2> QED
      BY <1>2, <1>3, <2>1, <2>2 DEF HoursInv
  <1> QED
    BY <1>5, <1>6, <1>7 DEF HouseInv

(* Steps of the boot *)

LEMMA RepoStep ==
    ASSUME HouseInv, dat_repo_init
    PROVE  HouseInv'
  <1>1. HouseType /\ BootInv
    BY DEF HouseInv
  <1>2. /\ phase = "repo" /\ phase' = "hours"
        /\ UNCHANGED <<elapsed_sec, tosend, pending, doing>>
    BY DEF dat_repo_init
  <1>3. HoursAdded(HrsAlive) = 0 /\ doing = Waiting
    BY <1>1, <1>2, BootAdded DEF BootInv
  <1>4. HoursAdded(HrsAlive)' = HoursAdded(HrsAlive)
    BY <1>2 DEF HoursAdded, Outstanding
  <1>5. BootInv' /\ DoingInv'
    BY <1>1, <1>2, <1>3 DEF BootInv, DoingInv, Waiting
  <1>6. base \in [{HrsAlive, HrsWoReset} -> Int] /\ row \in [DOMAIN row -> Int] /\ DOMAIN row \subseteq Addresses
    BY <1>1 DEF HouseType
  <1>7. CASE store = "ram"
    <2>1. row' = [x \in Addresses |-> Default(x)] /\ base' = [base EXCEPT ![HrsAlive] = 0]
      BY <1>7 DEF dat_repo_init
    <2>2. row' \in [DOMAIN row' -> Int] /\ DOMAIN row' = Addresses /\ row'[HrsAlive] = 0
      BY <2>1, ListFacts
    <2>3. base' \in [{HrsAlive, HrsWoReset} -> Int] /\ base'[HrsAlive] = 0
      BY <1>6, <2>1
    <2>4. HouseType'
      BY <1>1, <1>2, <2>2, <2>3 DEF HouseType
    <2>5. HoursInv'
      BY <1>2, <1>3, <1>4, <2>2, <2>3 DEF HoursInv
    <2> QED
      BY <1>5, <2>4, <2>5 DEF HouseInv
  <1>8. CASE store # "ram"
    <2>1. row' = row /\ base' = base
      BY <1>6, <1>8 DEF dat_repo_init
    <2>2. HouseType'
      BY <1>1, <1>2, <2>1 DEF HouseType
    <2>3. HoursInv'
      BY <1>2, <1>4, <2>1 DEF HouseInv, HoursInv
    <2> QED
      BY <1>5, <2>2, <2>3 DEF HouseInv
  <1> QED
    BY <1>7, <1>8

LEMMA UpdateStep ==
    ASSUME HouseInv, init_update_status_vars
    PROVE  HouseInv'
  <1>1. HouseType /\ BootInv
    BY DEF HouseInv
  <1>2. phase \in {"hours", "resets"} /\ UNCHANGED <<elapsed_sec, tosend, pending, doing>>
    BY DEF init_update_status_vars
  <1>3. HoursAdded(HrsAlive) = 0 /\ HoursAdded(HrsWoReset) = 0 /\ doing = Waiting
    BY <1>1, <1>2, BootAdded DEF BootInv
  <1>4. HoursAdded(HrsAlive)' = HoursAdded(HrsAlive) /\ HoursAdded(HrsWoReset)' = HoursAdded(HrsWoReset)
    BY <1>2 DEF HoursAdded, Outstanding
  <1>5. BootInv' /\ DoingInv'
    BY <1>1, <1>2, <1>3 DEF BootInv, DoingInv, Waiting
  <1>6. base \in [{HrsAlive, HrsWoReset} -> Int] /\ row \in [DOMAIN row -> Int] /\ DOMAIN row \subseteq Addresses
    BY <1>1 DEF HouseType
  <1>7. CASE /\ phase = "hours" /\ StatusWrite(HrsWoReset, 0) /\ phase' = "resets"
             /\ base' = [base EXCEPT ![HrsWoReset] = 0]
    <2>1. /\ row' \in [DOMAIN row' -> Int] /\ DOMAIN row' \subseteq Addresses
          /\ DOMAIN row' = DOMAIN row \cup {HrsWoReset} /\ row'[HrsWoReset] = 0
          /\ \A y \in DOMAIN row : y # HrsWoReset => row'[y] = row[y]
      BY SMTT(60), <1>1, <1>7, WriteFacts, ListFacts
    <2>2. /\ base' \in [{HrsAlive, HrsWoReset} -> Int] /\ base'[HrsWoReset] = 0
          /\ base'[HrsAlive] = base[HrsAlive]
      BY <1>6, <1>7, Pairs
    <2>3. HouseType'
      BY <1>1, <1>2, <1>7, <2>1, <2>2 DEF HouseType
    <2>4. HoursInv'
      BY <1>3, <1>4, <2>1, <2>2, Pairs DEF HouseInv, HoursInv
    <2> QED
      BY <1>5, <2>3, <2>4 DEF HouseInv
  <1>8. CASE /\ phase = "resets" /\ phase' = "run" /\ UNCHANGED base
             /\ \E n \in StatusRead(ResetCounter) : StatusWrite(ResetCounter, n + 1)
    <2>1. PICK n \in StatusRead(ResetCounter) : StatusWrite(ResetCounter, n + 1)
      BY <1>8
    <2>2. n + 1 \in Int
      BY <1>6 DEF StatusRead
    <2>3. /\ row' \in [DOMAIN row' -> Int] /\ DOMAIN row' \subseteq Addresses
          /\ DOMAIN row' = DOMAIN row \cup {ResetCounter}
          /\ \A y \in DOMAIN row : y # ResetCounter => row'[y] = row[y]
      BY SMTT(60), <1>1, <2>1, <2>2, WriteFacts, ListFacts
    <2>4. HouseType'
      BY <1>1, <1>2, <1>8, <2>3 DEF HouseType
    <2>5. HoursInv'
      BY <1>4, <1>8, <2>3, Pairs DEF HouseInv, HoursInv
    <2> QED
      BY <1>5, <2>4, <2>5 DEF HouseInv
  <1> QED
    BY <1>7, <1>8 DEF init_update_status_vars

--------------------------------------------------------------------------------
(* The housekeeping task and the ground *)

LEMMA CommandKinds ==
    /\ \A o \in Orders : o.c # "drp_add_hrs_alive" /\ o.v \in Nat
    /\ \A c : Command(c).c = c /\ Command(c).v = 0
    /\ \A o \in HouseCommands : o.v \in Nat
    /\ {Command("obc_debug"), Command("obc_get_sensors"), Command("obc_update_status"),
        Command("drp_add_hrs_alive")} \subseteq HouseCommands
  <1>1. Given \subseteq Nat
    BY HousekeepingAssumption
  <1>2. \A c : Command(c).c = c /\ Command(c).v = 0
    BY DEF Command
  <1>3. \A o \in Orders : o.c # "drp_add_hrs_alive" /\ o.v \in Nat
    <2>1. ASSUME NEW o \in Orders
          PROVE  o.c # "drp_add_hrs_alive" /\ o.v \in Nat
      <3>1. CASE o \in [c : {"drp_set_var"}, at : {HrsAlive, Temp, Len(dat_status_list)}, v : Given]
        BY <1>1, <3>1
      <3>2. CASE o \in [c : {"drp_set_var_name"}, at : {"obc_hrs_wo_reset", "no_such_var"}, v : Given]
        BY <1>1, <3>2
      <3>3. CASE o = Command("drp_reset_status")
        BY <1>2, <3>3
      <3> QED
        BY <3>1, <3>2, <3>3 DEF Orders
    <2> QED
      BY <2>1
  <1>4. {Command("obc_debug"), Command("obc_get_sensors"), Command("obc_update_status"),
         Command("drp_add_hrs_alive")} \subseteq HouseCommands
    BY DEF HouseCommands
  <1>5. \A o \in HouseCommands : o.v \in Nat
    BY <1>2, <1>3 DEF HouseCommands
  <1> QED
    BY <1>2, <1>3, <1>4, <1>5

(* A step after the boot that leaves the hours on their way, the hours and *)
(* what they are counted on alone.                                         *)
LEMMA HoursStay ==
    ASSUME HouseInv, HouseType', phase = "run", phase' = "run", doing' = doing, base' = base,
           \A y \in {HrsAlive, HrsWoReset} : /\ y \in DOMAIN row' <=> y \in DOMAIN row
                                             /\ y \in DOMAIN row => row'[y] = row[y],
           elapsed_sec' \div Hour - (HourCommands(tosend') + HourCommands(pending'))
               = elapsed_sec \div Hour - (HourCommands(tosend) + HourCommands(pending))
    PROVE  HouseInv'
  <1>1. (HouseType => AddedFacts)'
    BY AddedIs, PTL
  <1>2. PICK q, t, p, q1, t1, p1 :
            /\ q = elapsed_sec \div Hour /\ t = HourCommands(tosend) /\ p = HourCommands(pending)
            /\ q1 = elapsed_sec' \div Hour /\ t1 = HourCommands(tosend') /\ p1 = HourCommands(pending')
    OBVIOUS
  <1>3. q \in Nat /\ t \in Nat /\ p \in Nat /\ q1 \in Nat /\ t1 \in Nat /\ p1 \in Nat
    BY <1>1, <1>2, AddedIs DEF HouseInv, AddedFacts
  <1>4. q1 - (t1 + p1) = q - (t + p) /\ q1 - (t1 + p1 + 1) = q - (t + p + 1)
    BY <1>2, <1>3
  <1>5. HoursAdded(HrsAlive)' = HoursAdded(HrsAlive)
    BY <1>1, <1>2, <1>4, AddedIs DEF HouseInv, AddedFacts
  <1>6. HoursAdded(HrsWoReset)' = HoursAdded(HrsWoReset)
    BY <1>1, <1>2, <1>4, AddedIs DEF HouseInv, AddedFacts
  <1>7. HoursInv'
    BY <1>5, <1>6 DEF HouseInv, HoursInv
  <1>8. BootInv'
    BY DEF BootInv
  <1>9. DoingInv'
    BY DEF HouseInv, DoingInv, HoursInv
  <1> QED
    BY <1>7, <1>8, <1>9 DEF HouseInv

LEMMA SecondStep ==
    ASSUME HouseInv, taskHousekeeping
    PROVE  HouseInv'
  <1>1. HouseType
    BY DEF HouseInv
  <1>2. /\ phase = "run" /\ tosend = <<>> /\ elapsed_sec' = elapsed_sec + 1
        /\ StatusWrite(DateTime, 1) /\ UNCHANGED <<phase, pending, doing, base>>
    BY DEF taskHousekeeping
  <1>3. /\ row' \in [DOMAIN row' -> Int] /\ DOMAIN row' \subseteq Addresses
        /\ DOMAIN row' = DOMAIN row \cup {DateTime}
        /\ \A y \in DOMAIN row : y # DateTime => row'[y] = row[y]
    <2>1. DateTime \in Addresses /\ 1 \in Int
      BY ListFacts
    <2> QED
      BY <1>1, <1>2, <2>1, WriteFacts
  <1>20. PICK Plain : Plain = HouseCommands \ {Command("drp_add_hrs_alive")}
    OBVIOUS
  <1>4. PICK a : a = IF verbose THEN <<Command("obc_debug")>> ELSE <<>>
    OBVIOUS
  <1>5. PICK b : b = IF elapsed_sec' % Minute = 0
                     THEN <<Command("obc_get_sensors"), Command("obc_update_status")>> ELSE <<>>
    OBVIOUS
  <1>6. {Command("obc_debug"), Command("obc_get_sensors"), Command("obc_update_status")} \subseteq Plain
    <2>1. /\ Command("obc_debug").c # Command("drp_add_hrs_alive").c
          /\ Command("obc_get_sensors").c # Command("drp_add_hrs_alive").c
          /\ Command("obc_update_status").c # Command("drp_add_hrs_alive").c
      BY CommandKinds
    <2> QED
      BY <1>20, <2>1, CommandKinds
  <1>7. a \in Seq(Plain)
    <2>1. PICK d \in Plain : d = Command("obc_debug")
      BY <1>6
    <2>2. <<d>> \in Seq(Plain) /\ <<>> \in Seq(Plain)
      OBVIOUS
    <2> QED
      BY <1>4, <2>1, <2>2
  <1>8. b \in Seq(Plain)
    <2>1. PICK d \in Plain, g \in Plain : d = Command("obc_get_sensors") /\ g = Command("obc_update_status")
      BY <1>6
    <2>2. <<d, g>> \in Seq(Plain) /\ <<>> \in Seq(Plain)
      OBVIOUS
    <2> QED
      BY <1>5, <2>1, <2>2
  <1>9. a \o b \in Seq(Plain)
    BY <1>7, <1>8
  <1>10. \A o \in Plain : o.c # "drp_add_hrs_alive"
    BY <1>20, CommandKinds DEF HouseCommands
  <1>11. HourCommands(a \o b) = 0 /\ a \o b \in Seq(HouseCommands)
    <2>1. HourCommands(a \o b) = 0
      BY <1>9, <1>10, NoneMarked
    <2>2. Plain \subseteq HouseCommands
      BY <1>20
    <2> QED
      BY <1>9, <2>1, <2>2
  <1>12. PICK e \in Nat : e = elapsed_sec
    BY <1>1 DEF HouseType
  <1>13. PICK u : u = a \o b
    OBVIOUS
  <1>14. tosend' = u \o (IF (e + 1) % Hour = 0 THEN <<Command("drp_add_hrs_alive")>> ELSE <<>>)
    BY <1>2, <1>4, <1>5, <1>12, <1>13 DEF taskHousekeeping
  <1>15. HourCommands(tosend) = 0
    BY <1>2, NoneQueued
  <1>16. /\ tosend' \in Seq(HouseCommands)
         /\ HourCommands(tosend') \in Nat
         /\ (e + 1) \div Hour - HourCommands(tosend') = e \div Hour
    <2>1. CASE (e + 1) % Hour = 0
      <3>1. tosend' = Append(u, Command("drp_add_hrs_alive"))
        BY <1>11, <1>13, <1>14, <2>1
      <3>2. tosend' \in Seq(HouseCommands) /\ HourCommands(tosend') = 1
        <4>1. HourCommands(tosend') = 0 + 1
          BY <1>11, <1>13, <3>1, MarkedAppend, CommandKinds
        <4> QED
          BY <1>11, <1>13, <3>1, <4>1, CommandKinds
      <3> QED
        BY <2>1, <3>2, NextHour
    <2>2. CASE (e + 1) % Hour # 0
      <3>1. tosend' = u
        BY <1>11, <1>13, <1>14, <2>2
      <3>2. tosend' \in Seq(HouseCommands) /\ HourCommands(tosend') = 0
        BY <1>11, <1>13, <3>1
      <3> QED
        BY <2>2, <3>2, NextHour
    <2> QED
      BY <2>1, <2>2
  <1>17. HouseType'
    BY <1>1, <1>2, <1>3, <1>16 DEF HouseType
  <1>18. elapsed_sec' \div Hour - (HourCommands(tosend') + HourCommands(pending'))
             = elapsed_sec \div Hour - (HourCommands(tosend) + HourCommands(pending))
    <2>1. PICK t, p, q, q1 : /\ t = HourCommands(tosend') /\ p = HourCommands(pending)
                             /\ q = e \div Hour /\ q1 = (e + 1) \div Hour
      OBVIOUS
    <2>2. p \in Nat /\ t \in Nat /\ q \in Nat /\ q1 \in Nat /\ q1 - t = q
      BY SMTT(60), <1>1, <1>16, <2>1, MarkedFinite, NextHour DEF HouseType
    <2>3. q1 - (t + p) = q - (0 + p)
      BY <2>2
    <2> QED
      BY <1>2, <1>12, <1>15, <2>1, <2>3
  <1>19. \A y \in {HrsAlive, HrsWoReset} : /\ y \in DOMAIN row' <=> y \in DOMAIN row
                                           /\ y \in DOMAIN row => row'[y] = row[y]
    BY <1>3, Pairs
  <1> QED
    BY <1>2, <1>17, <1>18, <1>19, HoursStay

LEMMA SendStep ==
    ASSUME HouseInv, SendHousekeeping
    PROVE  HouseInv'
  <1>1. HouseType
    BY DEF HouseInv
  <1>2. /\ tosend # <<>> /\ pending' = Append(pending, Head(tosend)) /\ tosend' = Tail(tosend)
        /\ UNCHANGED <<row, phase, elapsed_sec, doing, base>>
    BY DEF SendHousekeeping
  <1>3. phase = "run"
    BY <1>2 DEF HouseInv, BootInv
  <1>4. tosend \in Seq(HouseCommands) /\ pending \in Seq(HouseCommands)
    BY <1>1 DEF HouseType
  <1>5. PICK o, s, u, w : o = Head(tosend) /\ s = tosend /\ u = pending /\ w = Tail(tosend)
    OBVIOUS
  <1>6. /\ w \in Seq(HouseCommands) /\ o \in HouseCommands
        /\ o.c = "drp_add_hrs_alive" => HourCommands(s) = HourCommands(w) + 1
        /\ o.c # "drp_add_hrs_alive" => HourCommands(s) = HourCommands(w)
    BY <1>2, <1>4, <1>5, MarkedTail
  <1>7. /\ Append(u, o) \in Seq(HouseCommands)
        /\ o.c = "drp_add_hrs_alive" => HourCommands(Append(u, o)) = HourCommands(u) + 1
        /\ o.c # "drp_add_hrs_alive" => HourCommands(Append(u, o)) = HourCommands(u)
    BY <1>4, <1>5, <1>6, MarkedAppend
  <1>8. HourCommands(s) \in Nat /\ HourCommands(u) \in Nat /\ HourCommands(w) \in Nat
    BY <1>4, <1>5, <1>6, MarkedFinite
  <1>9. HourCommands(w) + HourCommands(Append(u, o)) = HourCommands(s) + HourCommands(u)
    BY <1>6, <1>7, <1>8
  <1>10. HourCommands(tosend') + HourCommands(pending') = HourCommands(tosend) + HourCommands(pending)
    BY <1>2, <1>5, <1>9
  <1>11. HouseType'
    BY <1>1, <1>2, <1>5, <1>6, <1>7 DEF HouseType
  <1> QED
    BY <1>2, <1>3, <1>10, <1>11, HoursStay

LEMMA OrderStep ==
    ASSUME HouseInv, NEW o \in Orders, GroundOrders(o)
    PROVE  HouseInv'
  <1>1. HouseType
    BY DEF HouseInv
  <1>2. /\ phase = "run" /\ pending' = Append(pending, o)
        /\ UNCHANGED <<row, phase, elapsed_sec, tosend, doing, base>>
    BY DEF GroundOrders
  <1>3. pending \in Seq(HouseCommands) /\ o \in HouseCommands /\ o.c # "drp_add_hrs_alive"
    BY <1>1, CommandKinds DEF HouseType, HouseCommands
  <1>4. HourCommands(pending') = HourCommands(pending) /\ pending' \in Seq(HouseCommands)
    BY <1>2, <1>3, MarkedAppend
  <1>5. HouseType'
    BY <1>1, <1>2, <1>4 DEF HouseType
  <1> QED
    BY <1>2, <1>4, <1>5, HoursStay

--------------------------------------------------------------------------------
(* The executer *)

(* A variable is written and, if it counts hours, counted anew from there. *)
LEMMA Rebased ==
    ASSUME HouseInv, phase = "run", phase' = "run", NEW x \in Addresses, NEW v \in Int, StatusWrite(x, v),
           Rebase(x, v - HoursAdded(x)),
           HoursAdded(HrsAlive)' = HoursAdded(HrsAlive), HoursAdded(HrsWoReset)' = HoursAdded(HrsWoReset)
    PROVE  /\ row' \in [DOMAIN row' -> Int] /\ DOMAIN row' \subseteq Addresses
           /\ base' \in [{HrsAlive, HrsWoReset} -> Int] /\ HoursInv'
  <1>1. HouseType
    BY DEF HouseInv
  <1>2. base \in [{HrsAlive, HrsWoReset} -> Int] /\ row \in [DOMAIN row -> Int]
    BY <1>1 DEF HouseType
  <1>3. /\ row' \in [DOMAIN row' -> Int] /\ DOMAIN row' \subseteq Addresses
        /\ DOMAIN row' = DOMAIN row \cup {x} /\ row'[x] = v
        /\ \A y \in DOMAIN row : y # x => row'[y] = row[y]
    BY <1>1, WriteFacts
  <1>4. PICK a, w : a = HoursAdded(HrsAlive) /\ w = HoursAdded(HrsWoReset)
    OBVIOUS
  <1>5. a \in Int /\ w \in Int
    BY <1>1, <1>4, AddedIs DEF AddedFacts
  <1>6. /\ HrsAlive \in DOMAIN row => row[HrsAlive] = base[HrsAlive] + a
        /\ HrsWoReset \in DOMAIN row /\ row[HrsWoReset] = base[HrsWoReset] + w
    BY <1>4 DEF HouseInv, HoursInv
  <1>7. /\ base' \in [{HrsAlive, HrsWoReset} -> Int]
        /\ HrsAlive \in DOMAIN row' => row'[HrsAlive] = base'[HrsAlive] + a
        /\ HrsWoReset \in DOMAIN row' /\ row'[HrsWoReset] = base'[HrsWoReset] + w
    <2>1. CASE x = HrsAlive
      <3>1. base' = [base EXCEPT ![HrsAlive] = v - a]
        BY <1>2, <1>4, <2>1 DEF Rebase
      <3>2. v - a \in Int /\ v = (v - a) + a
        BY <1>5
      <3>3. base' \in [{HrsAlive, HrsWoReset} -> Int] /\ base'[HrsAlive] = v - a
            /\ base'[HrsWoReset] = base[HrsWoReset]
        BY <1>2, <3>1, <3>2, Pairs
      <3> QED
        BY <1>3, <1>6, <2>1, <3>2, <3>3, Pairs
    <2>2. CASE x = HrsWoReset
      <3>1. base' = [base EXCEPT ![HrsWoReset] = v - w]
        BY <1>2, <1>4, <2>2 DEF Rebase
      <3>2. v - w \in Int /\ v = (v - w) + w
        BY <1>5
      <3>3. base' \in [{HrsAlive, HrsWoReset} -> Int] /\ base'[HrsWoReset] = v - w
            /\ base'[HrsAlive] = base[HrsAlive]
        BY <1>2, <3>1, <3>2, Pairs
      <3> QED
        BY <1>3, <1>6, <2>2, <3>2, <3>3, Pairs
    <2>3. CASE x \notin {HrsAlive, HrsWoReset}
      <3>1. base' = base
        BY <1>2, <2>3 DEF Rebase
      <3> QED
        BY <1>2, <1>3, <1>6, <2>3, <3>1
    <2> QED
      BY <2>1, <2>2, <2>3
  <1> QED
    BY <1>3, <1>4, <1>7 DEF HoursInv

LEMMA RunStep ==
    ASSUME HouseInv, RunCommand
    PROVE  HouseInv'
  <1>1. HouseType
    BY DEF HouseInv
  <1>2. /\ doing = Waiting /\ pending # <<>> /\ pending' = Tail(pending)
        /\ UNCHANGED <<phase, elapsed_sec, tosend>>
    BY DEF RunCommand
  <1>3. phase = "run" /\ phase' = "run" /\ doing.pc = "idle"
    BY <1>2 DEF HouseInv, BootInv, Waiting
  <1>4. PICK o : o = Head(pending)
    OBVIOUS
  <1>5. /\ pending' \in Seq(HouseCommands) /\ o \in HouseCommands
        /\ o.c = "drp_add_hrs_alive" => HourCommands(pending) = HourCommands(pending') + 1
        /\ o.c # "drp_add_hrs_alive" => HourCommands(pending) = HourCommands(pending')
    BY <1>1, <1>2, <1>4, MarkedTail DEF HouseType
  <1>6. /\ row \in [DOMAIN row -> Int] /\ DOMAIN row \subseteq Addresses
        /\ base \in [{HrsAlive, HrsWoReset} -> Int] /\ o.v \in Nat
    BY <1>1, <1>5, CommandKinds DEF HouseType
  <1>7. CASE o.c # "drp_add_hrs_alive" /\ doing' = doing /\ UNCHANGED <<row, base>>
    <2>1. HouseType'
      BY <1>1, <1>2, <1>5, <1>7 DEF HouseType
    <2> QED
      BY <1>2, <1>3, <1>5, <1>7, <2>1, HoursStay
  <1>8. CASE obc_update_status(o) /\ doing' = doing
    <2>1. o.c # "drp_add_hrs_alive" /\ base' = base
      BY <1>8 DEF obc_update_status
    <2>2. CASE row' = row
      BY <1>7, <1>8, <2>1, <2>2
    <2>3. CASE StatusWrite(Temp, 2)
      <3>1. Temp \in Addresses /\ 2 \in Int
        BY ListFacts
      <3>2. /\ row' \in [DOMAIN row' -> Int] /\ DOMAIN row' \subseteq Addresses
            /\ DOMAIN row' = DOMAIN row \cup {Temp}
            /\ \A y \in DOMAIN row : y # Temp => row'[y] = row[y]
        BY <1>1, <2>3, <3>1, WriteFacts
      <3>3. HouseType'
        BY <1>1, <1>2, <1>5, <1>8, <2>1, <3>2 DEF HouseType
      <3>4. \A y \in {HrsAlive, HrsWoReset} : /\ y \in DOMAIN row' <=> y \in DOMAIN row
                                              /\ y \in DOMAIN row => row'[y] = row[y]
        BY <3>2, Pairs
      <3> QED
        BY <1>2, <1>3, <1>5, <1>8, <2>1, <3>3, <3>4, HoursStay
    <2> QED
      BY <1>8, <2>2, <2>3 DEF obc_update_status
  <1>9. ASSUME NEW defs \in SUBSET Definitions, SetVar(defs, o.v), o.c # "drp_add_hrs_alive", doing' = doing
        PROVE  HouseInv'
    <2>1. CASE UNCHANGED <<row, base>>
      BY <1>7, <1>9, <2>1
    <2>2. ASSUME NEW d \in defs, StatusWrite(d.address, Typed(d.type, o.v)),
                 Rebase(d.address, Typed(d.type, o.v) - HoursAdded(d.address))
          PROVE  HouseInv'
      <3>1. PICK x, v : x = d.address /\ v = Typed(d.type, o.v)
        OBVIOUS
      <3>2. x \in Addresses /\ v \in Int
        BY <1>6, <3>1, ListFacts, TypedInt
      <3>3. HoursAdded(HrsAlive)' = HoursAdded(HrsAlive) /\ HoursAdded(HrsWoReset)' = HoursAdded(HrsWoReset)
        BY <1>2, <1>5, <1>9 DEF HoursAdded, Outstanding
      <3>4. /\ row' \in [DOMAIN row' -> Int] /\ DOMAIN row' \subseteq Addresses
            /\ base' \in [{HrsAlive, HrsWoReset} -> Int] /\ HoursInv'
        BY <1>3, <2>2, <3>1, <3>2, <3>3, Rebased
      <3>5. HouseType'
        BY <1>1, <1>2, <1>5, <1>9, <3>4 DEF HouseType
      <3>6. BootInv' /\ DoingInv'
        BY <1>3, <1>9 DEF BootInv, DoingInv
      <3> QED
        BY <3>4, <3>5, <3>6 DEF HouseInv
    <2> QED
      BY <1>9, <2>1, <2>2 DEF SetVar
  <1>10. CASE (drp_update_sys_var_idx(o) \/ drp_update_sys_var_name(o)) /\ doing' = doing
    <2>1. /\ dat_get_status_var_def(o.at) \subseteq Definitions
          /\ dat_get_status_var_def_name(o.at) \subseteq Definitions
      BY DEF dat_get_status_var_def, dat_get_status_var_def_name
    <2>2. CASE drp_update_sys_var_idx(o)
      <3>1. o.c # "drp_add_hrs_alive" /\ SetVar(dat_get_status_var_def(o.at), o.v)
        BY <2>2 DEF drp_update_sys_var_idx
      <3> QED
        BY <1>9, <1>10, <2>1, <3>1
    <2>3. CASE drp_update_sys_var_name(o)
      <3>1. o.c # "drp_add_hrs_alive" /\ SetVar(dat_get_status_var_def_name(o.at), o.v)
        BY <2>3 DEF drp_update_sys_var_name
      <3> QED
        BY <1>9, <1>10, <2>1, <3>1
    <2> QED
      BY <1>10, <2>2, <2>3
  <1>11. CASE NoStatus(o) /\ doing' = doing
    BY <1>7, <1>11 DEF NoStatus
  <1>12. CASE /\ o.c = "drp_add_hrs_alive" /\ UNCHANGED <<row, base>>
              /\ doing' = [Waiting EXCEPT !.cmd = o, !.pc = "alive"]
    <2>1. /\ doing' \in [cmd : HouseCommands \cup {Command("none")},
                         pc : {"idle", "alive", "setAlive", "wo", "setWo", "reset"}, current : Int]
          /\ doing'.pc = "alive"
      <3>2. doing' = [cmd |-> o, pc |-> "alive", current |-> 0]
        BY <1>12 DEF Waiting
      <3> QED
        BY <1>5, <3>2
    <2>2. HouseType'
      BY <1>1, <1>2, <1>5, <1>12, <2>1 DEF HouseType
    <2>3. (HouseType => AddedFacts)'
      BY AddedIs, PTL
    <2>4. PICK q, t, p, p1 : /\ q = elapsed_sec \div Hour /\ t = HourCommands(tosend)
                             /\ p = HourCommands(pending) /\ p1 = HourCommands(pending')
      OBVIOUS
    <2>5. q \in Nat /\ t \in Nat /\ p \in Nat /\ p1 \in Nat /\ p = p1 + 1
      BY <1>1, <1>2, <1>5, <1>12, <2>2, <2>3, <2>4, AddedIs DEF AddedFacts
    <2>6. q - (t + p1 + 1) = q - (t + p)
      BY <2>5
    <2>7. HoursAdded(HrsAlive)' = HoursAdded(HrsAlive)
      BY <1>1, <1>2, <1>3, <2>1, <2>2, <2>3, <2>4, <2>6, AddedIs DEF AddedFacts
    <2>8. HoursAdded(HrsWoReset)' = HoursAdded(HrsWoReset)
      BY <1>1, <1>2, <1>3, <2>1, <2>2, <2>3, <2>4, <2>6, AddedIs DEF AddedFacts
    <2>9. HoursInv'
      BY <1>3, <1>12, <2>7, <2>8 DEF HouseInv, HoursInv
    <2>10. BootInv' /\ DoingInv'
      BY <1>3, <2>1 DEF BootInv, DoingInv
    <2> QED
      BY <2>2, <2>9, <2>10 DEF HouseInv
  <1>13. CASE /\ o.c = "drp_reset_status" /\ UNCHANGED <<row, base>>
              /\ doing' = [Waiting EXCEPT !.cmd = o, !.pc = "reset"]
    <2>1. /\ doing' \in [cmd : HouseCommands \cup {Command("none")},
                         pc : {"idle", "alive", "setAlive", "wo", "setWo", "reset"}, current : Int]
          /\ doing'.pc = "reset" /\ doing'.current = 0
      <3>2. doing' = [cmd |-> o, pc |-> "reset", current |-> 0]
        BY <1>13 DEF Waiting
      <3> QED
        BY <1>5, <3>2
    <2>2. HouseType'
      BY <1>1, <1>2, <1>5, <1>13, <2>1, ListFacts DEF HouseType
    <2>3. HourCommands(pending') = HourCommands(pending)
      BY <1>5, <1>13
    <2>4. HoursAdded(HrsAlive)' = HoursAdded(HrsAlive) /\ HoursAdded(HrsWoReset)' = HoursAdded(HrsWoReset)
      BY <1>2, <1>3, <2>1, <2>3 DEF HoursAdded, Outstanding
    <2>5. HoursInv'
      BY <1>3, <1>13, <2>4 DEF HouseInv, HoursInv
    <2>6. BootInv' /\ DoingInv'
      BY <1>3, <2>1 DEF BootInv, DoingInv
    <2> QED
      BY <2>2, <2>5, <2>6 DEF HouseInv
  <1> QED
    BY <1>4, <1>8, <1>10, <1>11, <1>12, <1>13 DEF RunCommand

LEMMA WaitingTyped ==
    /\ Waiting \in [cmd : HouseCommands \cup {Command("none")},
                   pc : {"idle", "alive", "setAlive", "wo", "setWo", "reset"}, current : Int]
    /\ Waiting.pc = "idle"
  BY SMTT(60) DEF Waiting

(* The hours command: hours alive, then hours without reset. *)
LEMMA HoursStep ==
    ASSUME HouseInv, drp_update_hours_alive
    PROVE  HouseInv'
  <1>1. HouseType
    BY DEF HouseInv
  <1>2. UNCHANGED <<phase, elapsed_sec, tosend, pending>>
    BY DEF drp_update_hours_alive
  <1>3. doing.pc \in {"alive", "setAlive", "wo", "setWo"}
    BY DEF drp_update_hours_alive
  <1>4. phase = "run" /\ phase' = "run"
    <2>1. doing # Waiting
      BY <1>3 DEF Waiting
    <2> QED
      BY <1>2, <2>1 DEF HouseInv, BootInv
  <1>5. PICK D : D = HouseCommands \cup {Command("none")}
    OBVIOUS
  <1>6. /\ row \in [DOMAIN row -> Int] /\ DOMAIN row \subseteq Addresses
        /\ base \in [{HrsAlive, HrsWoReset} -> Int]
        /\ doing \in [cmd : D, pc : {"idle", "alive", "setAlive", "wo", "setWo", "reset"}, current : Int]
    BY <1>1, <1>5 DEF HouseType
  <1>7. /\ HrsAlive \in DOMAIN row => row[HrsAlive] = base[HrsAlive] + HoursAdded(HrsAlive)
        /\ HrsWoReset \in DOMAIN row /\ row[HrsWoReset] = base[HrsWoReset] + HoursAdded(HrsWoReset)
    BY <1>4 DEF HouseInv, HoursInv
  <1>8. (HouseType => AddedFacts)' /\ (HouseType => AddedFacts)
    <2>1. (HouseType => AddedFacts)'
      BY AddedIs, PTL
    <2> QED
      BY <2>1, AddedIs
  <1>9. \A x : \A n \in StatusRead(x) : n \in Int
    BY <1>6 DEF StatusRead
  <1>10. CASE /\ doing.pc = "alive" /\ UNCHANGED <<row, base>>
              /\ \E n \in StatusRead(HrsAlive) : doing' = [doing EXCEPT !.pc = "setAlive", !.current = n + 1]
    <2>1. PICK n \in StatusRead(HrsAlive) : doing' = [doing EXCEPT !.pc = "setAlive", !.current = n + 1]
      BY <1>10
    <2>2. n \in Int /\ (HrsAlive \in DOMAIN row => n = row[HrsAlive])
      BY <1>9 DEF StatusRead
    <2>3. /\ doing' \in [cmd : D, pc : {"idle", "alive", "setAlive", "wo", "setWo", "reset"}, current : Int]
          /\ doing'.pc = "setAlive" /\ doing'.current = n + 1
      <3>1. PICK m \in Int : m = n + 1
        BY <2>2
      <3>2. doing' = [doing EXCEPT !.pc = "setAlive", !.current = m]
        BY <2>1, <3>1
      <3> QED
        BY <1>6, <3>1, <3>2
    <2>4. HouseType'
      BY <1>1, <1>2, <1>5, <1>10, <2>3 DEF HouseType
    <2>5. HoursAdded(HrsAlive)' = HoursAdded(HrsAlive) /\ HoursAdded(HrsWoReset)' = HoursAdded(HrsWoReset)
      BY <1>2, <1>10, <2>3, Pairs DEF HoursAdded, Outstanding
    <2>6. HoursInv'
      BY <1>4, <1>7, <1>10, <2>5 DEF HoursInv
    <2>7. BootInv' /\ DoingInv'
      BY <1>4, <1>10, <2>2, <2>3 DEF BootInv, DoingInv
    <2> QED
      BY <2>4, <2>6, <2>7 DEF HouseInv
  <1>11. CASE /\ doing.pc = "setAlive" /\ StatusWrite(HrsAlive, doing.current)
              /\ IF HrsAlive \in DOMAIN row THEN UNCHANGED base
                 ELSE Rebase(HrsAlive, doing.current - HoursAdded(HrsAlive) - 1)
              /\ doing' = [doing EXCEPT !.pc = "wo"]
    <2>1. /\ doing' \in [cmd : D, pc : {"idle", "alive", "setAlive", "wo", "setWo", "reset"}, current : Int]
          /\ doing'.pc = "wo"
      BY <1>6, <1>11
    <2>2. PICK c \in Int : c = doing.current
      BY <1>6
    <2>3. HrsAlive \in Addresses
      BY ListFacts
    <2>4. /\ row' \in [DOMAIN row' -> Int] /\ DOMAIN row' \subseteq Addresses
          /\ DOMAIN row' = DOMAIN row \cup {HrsAlive} /\ row'[HrsAlive] = c
          /\ \A y \in DOMAIN row : y # HrsAlive => row'[y] = row[y]
      BY <1>1, <1>11, <2>2, <2>3, WriteFacts
    <2>5. PICK a \in Int, w \in Int : a = HoursAdded(HrsAlive) /\ w = HoursAdded(HrsWoReset)
      BY <1>1, <1>8 DEF AddedFacts
    <2>6. /\ base' \in [{HrsAlive, HrsWoReset} -> Int] /\ base'[HrsWoReset] = base[HrsWoReset]
          /\ c = base'[HrsAlive] + (a + 1)
      <3>1. CASE HrsAlive \in DOMAIN row
        <4>1. c = row[HrsAlive] + 1 /\ row[HrsAlive] = base[HrsAlive] + a /\ base' = base
          BY <1>7, <1>11, <2>2, <2>5, <3>1 DEF HouseInv, DoingInv
        <4>2. PICK b \in Int : b = base[HrsAlive]
          BY <1>6
        <4>3. c = b + (a + 1)
          BY <4>1, <4>2
        <4> QED
          BY <1>6, <4>1, <4>2, <4>3
      <3>2. CASE HrsAlive \notin DOMAIN row
        <4>1. base' = [base EXCEPT ![HrsAlive] = c - a - 1]
          BY <1>6, <1>11, <2>2, <2>5, <3>2 DEF Rebase
        <4>2. PICK b \in Int : b = c - a - 1
          OBVIOUS
        <4>3. c = b + (a + 1)
          BY <4>2
        <4>4. /\ base' \in [{HrsAlive, HrsWoReset} -> Int] /\ base'[HrsWoReset] = base[HrsWoReset]
              /\ base'[HrsAlive] = b
          BY <1>6, <4>1, <4>2, Pairs
        <4> QED
          BY <4>3, <4>4
      <3> QED
        BY <3>1, <3>2
    <2>7. HouseType'
      BY <1>1, <1>2, <1>5, <2>1, <2>4, <2>6 DEF HouseType
    <2>8. HoursAdded(HrsAlive)' = a + 1
      <3>1. PICK q, t, p : q = elapsed_sec \div Hour /\ t = HourCommands(tosend) /\ p = HourCommands(pending)
        OBVIOUS
      <3>2. q \in Nat /\ t \in Nat /\ p \in Nat /\ a = q - (t + p + 1)
        BY <1>1, <1>8, <1>11, <2>5, <3>1 DEF AddedFacts
      <3>3. HoursAdded(HrsAlive)' = q - (t + p)
        BY <1>2, <1>8, <2>1, <2>7, <3>1 DEF AddedFacts
      <3> QED
        BY <3>2, <3>3
    <2>9. HoursAdded(HrsWoReset)' = w
      BY <1>2, <1>11, <2>1, <2>5, Pairs DEF HoursAdded, Outstanding
    <2>10. HoursInv'
      BY <1>4, <1>7, <2>4, <2>5, <2>6, <2>8, <2>9, Pairs DEF HoursInv
    <2>11. BootInv' /\ DoingInv'
      BY <1>4, <2>1 DEF BootInv, DoingInv
    <2> QED
      BY <2>7, <2>10, <2>11 DEF HouseInv
  <1>12. CASE /\ doing.pc = "wo" /\ UNCHANGED <<row, base>>
              /\ \E n \in StatusRead(HrsWoReset) : doing' = [doing EXCEPT !.pc = "setWo", !.current = n + 1]
    <2>1. PICK n \in StatusRead(HrsWoReset) : doing' = [doing EXCEPT !.pc = "setWo", !.current = n + 1]
      BY <1>12
    <2>2. n \in Int /\ n = row[HrsWoReset]
      BY <1>7, <1>9 DEF StatusRead
    <2>3. /\ doing' \in [cmd : D, pc : {"idle", "alive", "setAlive", "wo", "setWo", "reset"}, current : Int]
          /\ doing'.pc = "setWo" /\ doing'.current = n + 1
      <3>1. PICK m \in Int : m = n + 1
        BY <2>2
      <3>2. doing' = [doing EXCEPT !.pc = "setWo", !.current = m]
        BY <2>1, <3>1
      <3> QED
        BY <1>6, <3>1, <3>2
    <2>4. HouseType'
      BY <1>1, <1>2, <1>5, <1>12, <2>3 DEF HouseType
    <2>5. HoursAdded(HrsAlive)' = HoursAdded(HrsAlive) /\ HoursAdded(HrsWoReset)' = HoursAdded(HrsWoReset)
      BY <1>2, <1>12, <2>3, Pairs DEF HoursAdded, Outstanding
    <2>6. HoursInv'
      BY <1>4, <1>7, <1>12, <2>5 DEF HoursInv
    <2>7. BootInv' /\ DoingInv'
      BY <1>4, <1>12, <2>2, <2>3 DEF BootInv, DoingInv
    <2> QED
      BY <2>4, <2>6, <2>7 DEF HouseInv
  <1>13. CASE /\ doing.pc = "setWo" /\ UNCHANGED base
              /\ StatusWrite(HrsWoReset, doing.current) /\ doing' = Waiting
    <2>1. /\ doing' \in [cmd : D, pc : {"idle", "alive", "setAlive", "wo", "setWo", "reset"}, current : Int]
          /\ doing'.pc = "idle"
      BY <1>5, <1>13, WaitingTyped
    <2>2. PICK c \in Int : c = doing.current
      BY <1>6
    <2>3. HrsWoReset \in Addresses
      BY ListFacts
    <2>4. /\ row' \in [DOMAIN row' -> Int] /\ DOMAIN row' \subseteq Addresses
          /\ DOMAIN row' = DOMAIN row \cup {HrsWoReset} /\ row'[HrsWoReset] = c
          /\ \A y \in DOMAIN row : y # HrsWoReset => row'[y] = row[y]
      BY <1>1, <1>13, <2>2, <2>3, WriteFacts
    <2>5. PICK a \in Int, w \in Int : a = HoursAdded(HrsAlive) /\ w = HoursAdded(HrsWoReset)
      BY <1>1, <1>8 DEF AddedFacts
    <2>6. c = base[HrsWoReset] + (w + 1)
      <3>1. c = row[HrsWoReset] + 1 /\ row[HrsWoReset] = base[HrsWoReset] + w
        BY <1>7, <1>13, <2>2, <2>5 DEF HouseInv, DoingInv
      <3>2. PICK b \in Int : b = base[HrsWoReset]
        BY <1>6
      <3>3. c = b + (w + 1)
        BY <3>1, <3>2
      <3> QED
        BY <3>2, <3>3
    <2>7. HouseType'
      BY <1>1, <1>2, <1>5, <1>13, <2>1, <2>4 DEF HouseType
    <2>8. HoursAdded(HrsWoReset)' = w + 1
      <3>1. PICK q, t, p : q = elapsed_sec \div Hour /\ t = HourCommands(tosend) /\ p = HourCommands(pending)
        OBVIOUS
      <3>2. q \in Nat /\ t \in Nat /\ p \in Nat /\ w = q - (t + p + 1)
        BY <1>1, <1>8, <1>13, <2>5, <3>1 DEF AddedFacts
      <3>3. HoursAdded(HrsWoReset)' = q - (t + p)
        BY <1>2, <1>8, <2>1, <2>7, <3>1 DEF AddedFacts
      <3> QED
        BY <3>2, <3>3
    <2>9. HoursAdded(HrsAlive)' = a
      BY <1>2, <1>13, <2>1, <2>5, Pairs DEF HoursAdded, Outstanding
    <2>10. HoursInv'
      BY <1>4, <1>7, <1>13, <2>4, <2>5, <2>6, <2>8, <2>9, Pairs DEF HoursInv
    <2>11. BootInv' /\ DoingInv'
      BY <1>4, <2>1 DEF BootInv, DoingInv
    <2> QED
      BY <2>7, <2>10, <2>11 DEF HouseInv
  <1> QED
    BY <1>10, <1>11, <1>12, <1>13 DEF drp_update_hours_alive

LEMMA ResetStep ==
    ASSUME HouseInv, drp_reset_status
    PROVE  HouseInv'
  <1>1. HouseType
    BY DEF HouseInv
  <1>2. /\ doing.pc = "reset" /\ UNCHANGED <<phase, elapsed_sec, tosend, pending>>
    BY DEF drp_reset_status
  <1>3. phase = "run" /\ phase' = "run"
    <2>1. doing # Waiting
      BY <1>2 DEF Waiting
    <2> QED
      BY <1>2, <2>1 DEF HouseInv, BootInv
  <1>4. PICK D : D = HouseCommands \cup {Command("none")}
    OBVIOUS
  <1>5. PICK x, v : x = doing.current /\ v = Default(x)
    OBVIOUS
  <1>6. x \in Addresses /\ v \in Int /\ x \in Int
    <2>1. x \in Addresses
      BY <1>1, <1>2, <1>5 DEF HouseType
    <2> QED
      BY <1>5, <2>1, ListFacts
  <1>7. /\ StatusWrite(x, v) /\ Rebase(x, v - HoursAdded(x))
        /\ doing' = IF x + 1 \in Addresses THEN [doing EXCEPT !.current = x + 1] ELSE Waiting
    BY <1>5 DEF drp_reset_status
  <1>8. /\ doing' \in [cmd : D, pc : {"idle", "alive", "setAlive", "wo", "setWo", "reset"}, current : Int]
        /\ doing'.pc \in {"reset", "idle"} /\ (doing'.pc = "reset" => doing'.current \in Addresses)
    <2>1. doing \in [cmd : D, pc : {"idle", "alive", "setAlive", "wo", "setWo", "reset"}, current : Int]
      BY <1>1, <1>4 DEF HouseType
    <2>2. CASE x + 1 \in Addresses
      <3>1. doing' = [doing EXCEPT !.current = x + 1]
        BY <1>7, <2>2
      <3> QED
        BY <1>2, <1>6, <2>1, <2>2, <3>1
    <2>3. CASE x + 1 \notin Addresses
      <3>1. doing' = Waiting
        BY <1>7, <2>3
      <3> QED
        BY <1>4, <3>1, WaitingTyped
    <2> QED
      BY <2>2, <2>3
  <1>9. HoursAdded(HrsAlive)' = HoursAdded(HrsAlive) /\ HoursAdded(HrsWoReset)' = HoursAdded(HrsWoReset)
    BY <1>2, <1>8 DEF HoursAdded, Outstanding
  <1>10. /\ row' \in [DOMAIN row' -> Int] /\ DOMAIN row' \subseteq Addresses
         /\ base' \in [{HrsAlive, HrsWoReset} -> Int] /\ HoursInv'
    BY <1>3, <1>6, <1>7, <1>9, Rebased
  <1>11. HouseType'
    BY <1>1, <1>2, <1>4, <1>8, <1>10 DEF HouseType
  <1>12. BootInv' /\ DoingInv'
    BY <1>3, <1>8 DEF BootInv, DoingInv
  <1> QED
    BY <1>10, <1>11, <1>12 DEF HouseInv

(* A restart keeps the hours that were added and drops those on their way. *)
LEMMA RestartStep ==
    ASSUME HouseInv, RestartHouse
    PROVE  HouseInv'
  <1>1. HouseType
    BY DEF HouseInv
  <1>2. /\ base' = [x \in DOMAIN base |-> base[x] + HoursAdded(x)] /\ row' = row
        /\ phase' = "repo" /\ elapsed_sec' = 1 /\ tosend' = <<>> /\ pending' = <<>> /\ doing' = Waiting
    BY DEF RestartHouse
  <1>3. PICK a \in Int, w \in Int : a = HoursAdded(HrsAlive) /\ w = HoursAdded(HrsWoReset)
    BY <1>1, AddedIs DEF AddedFacts
  <1>4. base \in [{HrsAlive, HrsWoReset} -> Int]
    BY <1>1 DEF HouseType
  <1>5. /\ base' \in [{HrsAlive, HrsWoReset} -> Int] /\ base'[HrsAlive] = base[HrsAlive] + a
    BY <1>2, <1>3, <1>4
  <1>6. PICK D : D = HouseCommands \cup {Command("none")}
    OBVIOUS
  <1>7. /\ doing' \in [cmd : D, pc : {"idle", "alive", "setAlive", "wo", "setWo", "reset"}, current : Int]
        /\ doing'.pc = "idle"
    BY <1>2, <1>6, WaitingTyped
  <1>8. HouseType'
    BY <1>1, <1>2, <1>5, <1>6, <1>7 DEF HouseType
  <1>9. BootInv' /\ DoingInv'
    BY <1>2, <1>7 DEF BootInv, DoingInv
  <1>10. HoursAdded(HrsAlive)' = 0
    <2>1. (HouseType /\ BootInv /\ phase # "run" => HoursAdded(HrsAlive) = 0 /\ HoursAdded(HrsWoReset) = 0)'
      BY BootAdded, PTL
    <2> QED
      BY <1>2, <1>8, <1>9, <2>1
  <1>11. HrsAlive \in DOMAIN row => row[HrsAlive] = base'[HrsAlive]
    BY <1>3, <1>5 DEF HouseInv, HoursInv
  <1>12. HoursInv'
    <2>1. base'[HrsAlive] \in Int
      BY <1>5
    <2>2. base'[HrsAlive] = base'[HrsAlive] + 0
      BY <2>1
    <2> QED
      BY <1>2, <1>10, <1>11, <2>2 DEF HoursInv
  <1> QED
    BY <1>8, <1>9, <1>12 DEF HouseInv

LEMMA HouseInvNext == HouseInv /\ [HouseNext]_houseVars => HouseInv'
  <1>1. SUFFICES ASSUME HouseInv, [HouseNext]_houseVars
                 PROVE  HouseInv'
    OBVIOUS
  <1>2. CASE UNCHANGED houseVars
    BY <1>1, <1>2 DEF houseVars, HouseInv, HouseType, BootInv, HoursInv, DoingInv, HoursAdded, Outstanding
  <1>3. CASE dat_repo_init
    BY <1>1, <1>3, RepoStep
  <1>4. CASE init_update_status_vars
    BY <1>1, <1>4, UpdateStep
  <1>5. CASE taskHousekeeping
    BY <1>1, <1>5, SecondStep
  <1>6. CASE SendHousekeeping
    BY <1>1, <1>6, SendStep
  <1>7. CASE \E o \in Orders : GroundOrders(o)
    BY <1>1, <1>7, OrderStep
  <1>8. CASE RunCommand
    BY <1>1, <1>8, RunStep
  <1>9. CASE drp_update_hours_alive
    BY <1>1, <1>9, HoursStep
  <1>10. CASE drp_reset_status
    BY <1>1, <1>10, ResetStep
  <1>11. CASE RestartHouse
    BY <1>1, <1>11, RestartStep
  <1> QED
    BY <1>1, <1>2, <1>3, <1>4, <1>5, <1>6, <1>7, <1>8, <1>9, <1>10, <1>11 DEF HouseNext

LEMMA HouseInvariant == HouseSpec => []HouseInv
  BY HouseInvInit, HouseInvNext, PTL DEF HouseSpec

(* taskHousekeeping.c:63-67, cmdDRP.c:242-274: every full hour the task    *)
(* counted is in both counters once, but for those on their way, for every *)
(* length of the hour and of the queue, whatever the ground sets and       *)
(* wherever a restart cuts the updates.                                    *)
THEOREM HoursCorrect == HouseSpec => []HoursExact
  <1>1. HouseInv => HoursExact
    <2>1. SUFFICES ASSUME HouseInv, phase = "run", NEW x \in DOMAIN base \cap DOMAIN row
                   PROVE  row[x] = base[x] + HoursAdded(x)
      BY DEF HoursExact
    <2>2. x \in {HrsAlive, HrsWoReset}
      BY <2>1 DEF HouseInv, HouseType
    <2> QED
      BY <2>1, <2>2 DEF HouseInv, HoursInv
  <1> QED
    BY <1>1, HouseInvariant, PTL

================================================================================
