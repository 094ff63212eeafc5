-------------------------------- MODULE MCGround --------------------------------
(* Instances for TLC of what a telecommand and its answers go through:     *)
(* Communications, CommandRepo, Telemetry, FileTransfer and I2cUart.  They *)
(* share no state: `part' says which of them runs in a behaviour, so that  *)
(* their state spaces add up.                                              *)
EXTENDS Communications, CommandRepo, Telemetry, FileTransfer, I2cUart

VARIABLE part

groundVars == <<part, commVars, repoVars, telemetryVars, fileVars, uartVars>>

MCTcFrames == {<<"a", "?", "b">>, <<"c">>}
MCFiles == {<<"d", "AA">>, <<"d", "d", "d", "d", "AA">>}

Init ==
    /\ part \in {"comm", "repo", "telemetry", "file", "uart"}
    /\ CommInit /\ RepoInit /\ TelemetryInit /\ FileInit /\ UartInit
    /\ part # "file" => Len(sent[PartId]) = 2

CommStep(A) == part = "comm" /\ A /\ UNCHANGED <<part, repoVars, telemetryVars, fileVars, uartVars>>
RepoStep(A) == part = "repo" /\ A /\ UNCHANGED <<part, commVars, telemetryVars, fileVars, uartVars>>

Next ==
    \/ CommStep(CommNext)
    \/ RepoStep(RepoNext)
    \/ part = "telemetry" /\ TelemetryNext /\ UNCHANGED <<part, commVars, repoVars, fileVars, uartVars>>
    \/ part = "file" /\ FileNext /\ UNCHANGED <<part, commVars, repoVars, telemetryVars, uartVars>>
    \/ part = "uart" /\ UartNext /\ UNCHANGED <<part, commVars, repoVars, telemetryVars, fileVars>>

(* taskCommunications, the dispatcher, the executer and taskInit keep      *)
(* running.                                                                *)
Spec ==
    /\ Init /\ [][Next]_groundVars
    /\ WF_groundVars(CommStep(QueueCommand)) /\ WF_groundVars(CommStep(FreePacket))
    /\ WF_groundVars(CommStep(ExecuteCommand)) /\ WF_groundVars(CommStep(ExecuteOther))
    /\ WF_groundVars(CommStep(EndCommand)) /\ WF_groundVars(RepoStep(Boot))

================================================================================
