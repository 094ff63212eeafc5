------------------------------- MODULE MCStorage -------------------------------
(* Instances of FlashPlan, SqlPlan, Payload and PayloadFields for TLC.  A  *)
(* build has one of the storages and the tables share no state: `part'     *)
(* says which of them runs in a behaviour, so that their state spaces add  *)
(* up.  The flash is followed up to the first fault that spoils it: after  *)
(* that nothing is promised.                                               *)
EXTENDS FlashPlan, SqlPlan, Payload, PayloadFields

VARIABLE part

storageVars == <<part, flashVars, sqlVars, payloadVars, fieldsVars>>

(* Two payloads, the first with the larger samples. *)
MCSampleSize == 0 :> 3 @@ 1 :> 2

Init ==
    /\ part \in {"flash", "sql", "payload", "fields"}
    /\ FlashInit /\ SqlInit /\ PayloadInit /\ FieldsInit
    /\ part # "payload" => build = "ram"
    /\ part # "fields" => order = <<"d">> /\ sample = (0 :> Number(1))

Next ==
    /\ UNCHANGED part
    /\ \/ part = "flash" /\ ~spoilt /\ FlashNext /\ UNCHANGED <<sqlVars, payloadVars, fieldsVars>>
       \/ part = "flash" /\ spoilt /\ UNCHANGED <<flashVars, sqlVars, payloadVars, fieldsVars>>
       \/ part = "sql" /\ SqlNext /\ UNCHANGED <<flashVars, payloadVars, fieldsVars>>
       \/ part = "payload" /\ PayloadNext /\ UNCHANGED <<flashVars, sqlVars, fieldsVars>>
       \/ part = "fields" /\ FieldsNext /\ UNCHANGED <<flashVars, sqlVars, payloadVars>>

Spec == Init /\ [][Next]_storageVars

================================================================================
