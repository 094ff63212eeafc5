----------------------------- MODULE Communications -----------------------------
(***************************************************************************)
(* taskCommunications of the satellite and the commands that reach it from *)
(* the ground (cmdCOM.c).  A packet is counted, answered where its port    *)
(* asks for an answer, and turned into commands, which are queued one by   *)
(* one.  Packets and answers may be lost; the ground waits one second for  *)
(* an answer; the satellite may restart.  CSP buffers are a bounded pool.  *)
(* The executer may wait for room in the queue too: a command may send one *)
(* itself (bound: a plain one).  Other tasks send none here.               *)
(***************************************************************************)
EXTENDS Integers, Sequences

CONSTANTS TcFrames,     \* TC frames: sequences of commands, "?" is unknown
          QueueLen,     \* length of the queue of the dispatcher
          Buffers,      \* CSP buffers of the satellite
          MaxPackets,   \* bound on the packets sent
          MaxBoots      \* bound on the restarts

ASSUME CommunicationsAssumption ==
    /\ TcFrames \subseteq Seq(STRING)
    /\ {QueueLen, Buffers, MaxPackets, MaxBoots} \subseteq Nat

VARIABLES
    up,       \* packets on the way up: [n, port, cmds]
    down,     \* answers on the way down: the numbers of their packets
    ground,   \* number of the packet the ground waits for, 0 when none
    answers,  \* what com_send_* returned for each packet
    task,     \* taskCommunications: where it is, its packet, commands taken from it
    pool,     \* CSP buffers that are free
    cmdq,     \* queue of the dispatcher; a command is <<packet read, place in it>>
    others,   \* commands in the queue that commands sent
    running,  \* the executer: "none", or whether its command is "plain" or "sends" one
    count_tc, \* dat_com_count_tc
    ran,      \* history: the commands executed since the boot
    got,      \* history: the packets read since the boot
    lost,     \* history: the commands cmd_send gave up on since the boot
    leaked,   \* history: answers that could not be sent since the boot
    boots     \* restarts so far

queueVars == <<cmdq, others, running>>
commVars == <<up, down, ground, answers, task, pool, queueVars, count_tc, ran, got, lost, leaked, boots>>

NoPacket == [n |-> 0, port |-> "none", cmds |-> <<>>]
Reading == [pc |-> "read", pkt |-> NoPacket, done |-> 0]

(* rep_ok_tmp, the template of the answers, is never given back. *)
CommInit ==
    /\ up = <<>> /\ down = {} /\ ground = 0 /\ answers = <<>>
    /\ task = Reading /\ pool = Buffers - 1
    /\ cmdq = <<>> /\ others = 0 /\ running = "none"
    /\ count_tc = 0 /\ ran = <<>> /\ got = <<>> /\ lost = {} /\ leaked = 0 /\ boots = 0

--------------------------------------------------------------------------------
(* The ground *)

SendPacket(port, cmds) ==
    /\ ground = 0 /\ Len(answers) < MaxPackets
    /\ up' = Append(up, [n |-> Len(answers) + 1, port |-> port, cmds |-> cmds])
    /\ UNCHANGED <<down, task, pool, queueVars, count_tc, ran, got, lost, leaked, boots>>

(* csp_transaction with an answer: com_send_tc_frame, com_send_cmd with    *)
(* one command, com_set_time_node with the command obc_set_time.           *)
com_send_tc_frame(cmds) ==
    /\ SendPacket("tc", cmds)
    /\ ground' = Len(answers) + 1
    /\ answers' = Append(answers, "wait")

com_send_cmd(cmd) == com_send_tc_frame(<<cmd>>)
com_set_time_node == com_send_cmd("obc_set_time")

(* Without an answer: com_send_data to any port, com_send_rpt, com_ping    *)
(* (the service handler of CSP answers a ping).                            *)
com_send_data(port, cmds) ==
    /\ SendPacket(port, cmds)
    /\ answers' = Append(answers, "sent")
    /\ UNCHANGED ground

com_send_rpt == com_send_data("rpt", <<>>)
com_ping == com_send_data("service", <<>>)

(* The connection is closed after the answer or the second: an answer that *)
(* comes later finds no connection.                                        *)
ReceiveAnswer(n) ==
    /\ n \in down
    /\ down' = down \ {n}
    /\ IF n = ground
       THEN ground' = 0 /\ answers' = [answers EXCEPT ![n] = "ok"]
       ELSE UNCHANGED <<ground, answers>>
    /\ UNCHANGED <<up, task, pool, queueVars, count_tc, ran, got, lost, leaked, boots>>

AnswerTimeout ==
    /\ ground # 0
    /\ answers' = [answers EXCEPT ![ground] = "error"]
    /\ ground' = 0
    /\ UNCHANGED <<up, down, task, pool, queueVars, count_tc, ran, got, lost, leaked, boots>>

LosePacket ==
    /\ up # <<>> /\ up' = Tail(up)
    /\ UNCHANGED <<down, ground, answers, task, pool, queueVars, count_tc, ran, got, lost, leaked, boots>>

LoseAnswer(n) ==
    /\ n \in down /\ down' = down \ {n}
    /\ UNCHANGED <<up, ground, answers, task, pool, queueVars, count_tc, ran, got, lost, leaked, boots>>

--------------------------------------------------------------------------------
(* The satellite *)

(* What com_receive_tc, com_receive_cmd, com_receive_tm and                *)
(* com_receive_file make of a packet; "?" stands for a string that is not  *)
(* a command and a frame of a type that is not known.                      *)
Commands(pkt) ==
    CASE pkt.port = "tc" -> pkt.cmds
      [] pkt.port \in {"cmd", "tm", "file"} /\ pkt.cmds # <<>> -> <<pkt.cmds[1]>>
      [] OTHER -> <<>>

(* csp_read: the packet has taken a buffer; every packet is counted. *)
ReadPacket ==
    /\ task.pc = "read" /\ up # <<>> /\ pool > 0
    /\ LET pkt == Head(up) IN
       /\ task' = [pc |-> IF pkt.port \in {"tc", "cmd"} THEN "reply"
                          ELSE IF pkt.port = "rpt" THEN "repeat" ELSE "queue",
                   pkt |-> pkt, done |-> 0]
       /\ got' = Append(got, pkt)
    /\ up' = Tail(up) /\ pool' = pool - 1
    /\ count_tc' = count_tc + 1
    /\ UNCHANGED <<down, ground, answers, queueVars, ran, lost, leaked, boots>>

(* The answer goes out before the commands are queued.  Without a buffer   *)
(* there is none; a buffer that is not sent is not freed.                  *)
Reply(ok) ==
    /\ task.pc = "reply"
    /\ task' = [task EXCEPT !.pc = "queue"]
    /\ IF pool = 0
       THEN UNCHANGED <<pool, down, leaked>>
       ELSE IF ok
       THEN down' = down \cup {task.pkt.n} /\ UNCHANGED <<pool, leaked>>
       ELSE pool' = pool - 1 /\ leaked' = leaked + 1 /\ UNCHANGED down
    /\ UNCHANGED <<up, ground, answers, queueVars, count_tc, ran, got, lost, boots>>

(* The digital repeater: the packet itself is sent, or freed. *)
Repeat ==
    /\ task.pc = "repeat"
    /\ task' = Reading /\ pool' = pool + 1
    /\ UNCHANGED <<up, down, ground, answers, queueVars, count_tc, ran, got, lost, leaked, boots>>

Room == Len(cmdq) + others < QueueLen
NextOf(pkt) == Commands(pkt)[task.done + 1]

(* Seeded fault: the first string that is not a command ends the frame. *)
QueueCommandStops ==
    /\ task.pc = "queue" /\ task.done < Len(Commands(task.pkt))
    /\ IF NextOf(task.pkt) = "?"
       THEN UNCHANGED cmdq /\ task' = [task EXCEPT !.done = Len(Commands(task.pkt))]
       ELSE /\ Room /\ cmdq' = Append(cmdq, <<Len(got), task.done + 1>>)
            /\ task' = [task EXCEPT !.done = @ + 1]
    /\ UNCHANGED <<up, down, ground, answers, others, running, pool, count_tc, ran, got, lost, leaked, boots>>

(* cmd_build_from_str and cmd_send, which waits for room in the queue. *)
QueueCommand ==
    /\ task.pc = "queue" /\ task.done < Len(Commands(task.pkt))
    /\ IF NextOf(task.pkt) = "?"
       THEN UNCHANGED cmdq
       ELSE Room /\ cmdq' = Append(cmdq, <<Len(got), task.done + 1>>)
    /\ task' = [task EXCEPT !.done = @ + 1]
    /\ UNCHANGED <<up, down, ground, answers, others, running, pool, count_tc, ran, got, lost, leaked, boots>>

(* The time of the deadline of a send: obc_set_time has run, or the        *)
(* executer itself waits for room, which makes all wait for the 49 days of *)
(* portMAX_DELAY.                                                          *)
ClockSet == \E k \in DOMAIN ran : Commands(got[ran[k][1]])[ran[k][2]] = "obc_set_time"
DeadlinePassed == ~Room /\ (ClockSet \/ running = "sends")

(* osQueueSend gives up (Linux) and the command is lost. *)
QueueGivesUp ==
    /\ task.pc = "queue" /\ task.done < Len(Commands(task.pkt)) /\ NextOf(task.pkt) # "?"
    /\ DeadlinePassed
    /\ lost' = lost \cup {<<Len(got), task.done + 1>>}
    /\ task' = [task EXCEPT !.done = @ + 1]
    /\ UNCHANGED <<up, down, ground, answers, queueVars, pool, count_tc, ran, got, leaked, boots>>

(* Seeded fault: the buffer of a packet without commands is not freed. *)
FreePacketSome ==
    /\ task.pc = "queue" /\ task.done = Len(Commands(task.pkt))
    /\ pool' = IF Commands(task.pkt) = <<>> THEN pool ELSE pool + 1
    /\ task' = Reading
    /\ UNCHANGED <<up, down, ground, answers, queueVars, count_tc, ran, got, lost, leaked, boots>>

FreePacket ==
    /\ task.pc = "queue" /\ task.done = Len(Commands(task.pkt))
    /\ pool' = pool + 1
    /\ task' = Reading
    /\ UNCHANGED <<up, down, ground, answers, queueVars, count_tc, ran, got, lost, leaked, boots>>

(* The dispatcher hands a command to the executer, which is free: one of a *)
(* packet, which may send one itself, or one that a command sent.  Which   *)
(* of those in the queue is first is not followed.                         *)
ExecuteCommand ==
    /\ running = "none" /\ cmdq # <<>>
    /\ cmdq' = Tail(cmdq) /\ ran' = Append(ran, Head(cmdq))
    /\ running' \in {"plain", "sends"}
    /\ UNCHANGED <<up, down, ground, answers, task, pool, others, count_tc, got, lost, leaked, boots>>

ExecuteOther ==
    /\ running = "none" /\ others > 0
    /\ others' = others - 1 /\ running' = "plain"
    /\ UNCHANGED <<up, down, ground, answers, task, pool, cmdq, count_tc, ran, got, lost, leaked, boots>>

(* The command ends; one that sends a command waits for room first, which  *)
(* only the executer can make.                                             *)
EndCommand ==
    /\ running # "none" /\ (running = "sends" => Room)
    /\ others' = IF running = "sends" THEN others + 1 ELSE others
    /\ running' = "none"
    /\ UNCHANGED <<up, down, ground, answers, task, pool, cmdq, count_tc, ran, got, lost, leaked, boots>>

(* The send of the command gives up (Linux). *)
EndGivesUp ==
    /\ running = "sends" /\ DeadlinePassed
    /\ running' = "none"
    /\ UNCHANGED <<up, down, ground, answers, task, pool, cmdq, others, count_tc, ran, got, lost, leaked, boots>>

(* The queue and the packets in memory are gone after a restart. *)
RestartSatellite ==
    /\ boots < MaxBoots /\ boots' = boots + 1
    /\ task' = Reading /\ pool' = Buffers - 1
    /\ cmdq' = <<>> /\ others' = 0 /\ running' = "none"
    /\ ran' = <<>> /\ got' = <<>> /\ lost' = {} /\ leaked' = 0
    /\ UNCHANGED <<up, down, ground, answers, count_tc>>

CommNext ==
    \/ \E c \in TcFrames : com_send_tc_frame(c) \/ com_send_data("cmd", c)
    \/ com_send_cmd("b") \/ com_set_time_node \/ com_send_rpt \/ com_ping
    \/ \E port \in {"tm", "file", "dbg"} : com_send_data(port, <<"parse">>)
    \/ \E n \in down : ReceiveAnswer(n) \/ LoseAnswer(n)
    \/ AnswerTimeout \/ LosePacket
    \/ ReadPacket \/ Repeat \/ QueueCommand \/ QueueGivesUp \/ FreePacket
    \/ ExecuteCommand \/ ExecuteOther \/ EndCommand \/ EndGivesUp
    \/ \E ok \in BOOLEAN : Reply(ok)
    \/ RestartSatellite

CommSpec == CommInit /\ [][CommNext]_commVars

--------------------------------------------------------------------------------
(* A command that can run; the packet at hand may still hold it, or        *)
(* cmd_send gave up on it.                                                 *)
Known(i, j) == Commands(got[i])[j] # "?"
Left(i, j) == (task.pc # "read" /\ i = Len(got) /\ j > task.done) \/ <<i, j>> \in lost

(* Commands run in the order in which their packets arrive, each once as   *)
(* often as it was received: those given to the executer and then those in *)
(* the queue are the commands of the packets read, in their order, up to   *)
(* those left in the packet at hand, and without those whose send into a   *)
(* full queue gave up.  A string that is no command costs nothing else.    *)
RunInOrder ==
    LET c == ran \o cmdq IN
    /\ \A k \in DOMAIN c : c[k][1] \in DOMAIN got /\ c[k][2] \in DOMAIN Commands(got[c[k][1]])
    /\ \A k, l \in DOMAIN c : k < l =>
           c[k][1] < c[l][1] \/ (c[k][1] = c[l][1] /\ c[k][2] < c[l][2])
    /\ \A i \in DOMAIN got : \A j \in DOMAIN Commands(got[i]) :
           (\E k \in DOMAIN c : c[k] = <<i, j>>) <=> Known(i, j) /\ ~Left(i, j)

(* Every buffer comes back: the free ones, the one of the packet at hand,  *)
(* the template and those of answers that failed are all there are.        *)
BuffersBack == pool + (IF task.pc = "read" THEN 0 ELSE 1) + 1 + leaked = Buffers

(* A frame is acknowledged before its commands are queued, and the queue   *)
(* may be full.  Once the ground has the answer, the commands of the frame *)
(* and of those before it have run or will, but those whose send gave up;  *)
(* unless the satellite restarts, or the executer stops in a command that  *)
(* sends one into a queue that is full.                                    *)
ExecuterStopped == running = "sends" /\ ~Room
AckedRuns ==
    \A n \in 1 .. MaxPackets :
        (n \in DOMAIN answers /\ answers[n] = "ok" /\ boots = 0)
            ~> \/ boots > 0 \/ ExecuterStopped
               \/ \E i \in DOMAIN got :
                     got[i].n = n /\ \A h \in 1 .. i : \A j \in DOMAIN Commands(got[h]) :
                         Known(h, j) => <<h, j>> \in lost \/ \E k \in DOMAIN ran : ran[k] = <<h, j>>

================================================================================
