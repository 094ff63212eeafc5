----------------------------- MODULE MCApplication -----------------------------
(* Instances for TLC of the parts of the SUCHAI application, of the        *)
(* arithmetic it uses and of the sample application.  They share no state: *)
(* `part' says which of them runs in a behaviour, so that their state      *)
(* spaces add up.                                                          *)
EXTENDS Sensors, Interstages, Attitude, AttitudeMath, FieldModel, Housekeeping

VARIABLE part

appVars == <<part, sensorsVars, stagesVars, attitudeVars, mathVars, fieldVars, houseVars>>

MCTables == {<<13, 8>>, <<3, 3>>, <<2, 4>>}
MCAxes == {Vec(1, 0, 0), Vec(0, 1, 0), Vec(0, 0, -1), Vec(1, 1, 1), Vec(1, -1, 1), Vec(0, 0, 0)}

Init ==
    /\ part \in {"sensors", "stages", "attitude", "math", "field", "house"}
    /\ SensorsInit /\ StagesInit /\ AttitudeInit /\ MathInit /\ FieldInit /\ HouseInit
    /\ part # "field" => table = <<3, 3>> /\ way = "extrapsh"
    /\ part # "house" => store = "ram" /\ ~verbose

Sensing(A) == part = "sensors" /\ A /\ UNCHANGED <<part, stagesVars, attitudeVars, mathVars, fieldVars, houseVars>>

Next ==
    \/ Sensing(SensorsNext)
    \/ /\ part = "stages" /\ StagesNext
       /\ UNCHANGED <<part, sensorsVars, attitudeVars, mathVars, fieldVars, houseVars>>
    \/ /\ part = "attitude" /\ AttitudeNext
       /\ UNCHANGED <<part, sensorsVars, stagesVars, mathVars, fieldVars, houseVars>>
    \/ /\ part = "math" /\ MathNext
       /\ UNCHANGED <<part, sensorsVars, stagesVars, attitudeVars, fieldVars, houseVars>>
    \/ /\ part = "field" /\ FieldNext
       /\ UNCHANGED <<part, sensorsVars, stagesVars, attitudeVars, mathVars, houseVars>>
    \/ /\ part = "house" /\ HouseNext
       /\ UNCHANGED <<part, sensorsVars, stagesVars, attitudeVars, mathVars, fieldVars>>

(* taskSensors keeps running, and a command that was begun ends. *)
Spec ==
    /\ Init /\ [][Next]_appVars
    /\ WF_appVars(Sensing(TaskSensors)) /\ WF_appVars(Sensing(set_state_end))

================================================================================
