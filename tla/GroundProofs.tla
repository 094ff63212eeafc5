------------------------------ MODULE GroundProofs ------------------------------
(***************************************************************************)
(* The link to the ground: the buffers of Communications and the order of  *)
(* its commands, for any frames of telecommands, any pool, queue and       *)
(* number of packets; the bus of I2cUart, for any tasks that send, any     *)
(* length of a frame, and any way the serial line cuts what it carries;    *)
(* the lookups of CommandRepo, for any number of entries and any tasks     *)
(* that ask; the reports of Telemetry, for any room of a frame and any     *)
(* structs; and the files of FileTransfer, for any contents and lengths.   *)
(***************************************************************************)
EXTENDS Communications, I2cUart, CommandRepo, Telemetry, FileTransfer, SequenceTheorems,
        WellFoundedInduction, TLAPS

--------------------------------------------------------------------------------
(* Communications: the buffers of the satellite *)

(* Where taskCommunications is, and the numbers that count buffers.        *)
CommType ==
    /\ "pc" \in DOMAIN task /\ task.pc \in {"read", "reply", "repeat", "queue"}
    /\ pool \in Int /\ leaked \in Nat

CommInv == CommType /\ BuffersBack

(* The ground and the link touch no buffer of the satellite.               *)
LEMMA GroundSteps ==
    ASSUME \/ \E c \in TcFrames : com_send_tc_frame(c) \/ com_send_data("cmd", c)
           \/ com_send_cmd("b") \/ com_set_time_node \/ com_send_rpt \/ com_ping
           \/ \E port \in {"tm", "file", "dbg"} : com_send_data(port, <<"parse">>)
           \/ \E n \in down : ReceiveAnswer(n) \/ LoseAnswer(n)
           \/ AnswerTimeout \/ LosePacket
    PROVE  UNCHANGED <<task, pool, leaked>>
  BY DEF com_send_tc_frame, com_send_data, com_send_cmd, com_set_time_node, com_send_rpt,
         com_ping, SendPacket, ReceiveAnswer, LoseAnswer, AnswerTimeout, LosePacket, queueVars

LEMMA CommInvInit == CommInit => CommInv
  BY CommunicationsAssumption DEF CommInit, CommInv, CommType, BuffersBack, Reading

LEMMA CommInvNext == CommInv /\ [CommNext]_commVars => CommInv'
  <1> SUFFICES ASSUME CommInv, [CommNext]_commVars
               PROVE  CommInv'
    OBVIOUS
  <1>0. Buffers \in Nat
    BY CommunicationsAssumption
  <1>1. CASE UNCHANGED <<task, pool, leaked>>
    BY <1>1 DEF CommInv, CommType, BuffersBack
  <1>2. CASE ReadPacket
    <2>1. task.pc = "read" /\ pool' = pool - 1 /\ leaked' = leaked
      BY <1>2 DEF ReadPacket
    <2>2. "pc" \in DOMAIN task' /\ task'.pc \in {"reply", "repeat", "queue"}
      BY <1>2 DEF ReadPacket
    <2> QED
      BY <2>1, <2>2 DEF CommInv, CommType, BuffersBack
  <1>3. ASSUME NEW ok \in BOOLEAN, Reply(ok)
        PROVE  CommInv'
    <2>1. task.pc = "reply" /\ "pc" \in DOMAIN task' /\ task'.pc = "queue"
      BY <1>3 DEF Reply, CommInv, CommType
    <2>2. (pool' = pool /\ leaked' = leaked) \/ (pool' = pool - 1 /\ leaked' = leaked + 1)
      BY <1>3 DEF Reply
    <2> QED
      BY <2>1, <2>2 DEF CommInv, CommType, BuffersBack
  <1>4. CASE Repeat \/ FreePacket
    <2>1. task.pc # "read" /\ pool' = pool + 1 /\ leaked' = leaked /\ task' = Reading
      BY <1>4 DEF Repeat, FreePacket
    <2> QED
      BY <2>1 DEF CommInv, CommType, BuffersBack, Reading
  <1>5. CASE QueueCommand \/ QueueGivesUp
    <2>1. /\ task.pc = "queue" /\ task' = [task EXCEPT !.done = @ + 1]
          /\ UNCHANGED <<pool, leaked>>
      BY <1>5 DEF QueueCommand, QueueGivesUp
    <2>2. "pc" \in DOMAIN task' /\ task'.pc = "queue"
      BY <2>1 DEF CommInv, CommType
    <2> QED
      BY <2>1, <2>2 DEF CommInv, CommType, BuffersBack
  <1>6. CASE ExecuteCommand \/ ExecuteOther \/ EndCommand \/ EndGivesUp
    BY <1>1, <1>6 DEF ExecuteCommand, ExecuteOther, EndCommand, EndGivesUp
  <1>7. CASE RestartSatellite
    <2>1. task' = Reading /\ pool' = Buffers - 1 /\ leaked' = 0
      BY <1>7 DEF RestartSatellite
    <2> QED
      BY <1>0, <2>1 DEF CommInv, CommType, BuffersBack, Reading
  <1>8. CASE UNCHANGED commVars
    BY <1>1, <1>8 DEF commVars
  <1> QED
    BY <1>1, <1>2, <1>3, <1>4, <1>5, <1>6, <1>7, <1>8, GroundSteps DEF CommNext

(* taskCommunications.c:60-180: whatever packets arrive, whichever answers *)
(* fail and wherever the satellite restarts, every CSP buffer is free, in  *)
(* the hands of the task, the template of the answers, or one of those     *)
(* whose answer could not be sent.                                         *)
THEOREM BuffersCorrect == CommSpec => []BuffersBack
  <1>1. CommInv => BuffersBack
    BY DEF CommInv
  <1> QED
    BY <1>1, CommInvInit, CommInvNext, PTL DEF CommSpec

--------------------------------------------------------------------------------
(* Communications: the commands of the packets *)

(* The strings of the packets, and the packets themselves.                 *)
Word == STRING \cup {"b", "obc_set_time", "parse"}
Packet == [n : Nat, port : {"tc", "cmd", "rpt", "service", "tm", "file", "dbg"},
           cmds : Seq(Word)]

RunType ==
    /\ up \in Seq(Packet) /\ got \in Seq(Packet)
    /\ answers \in Seq({"wait", "sent", "ok", "error"})
    /\ cmdq \in Seq(Nat \X Nat) /\ ran \in Seq(Nat \X Nat)
    /\ task \in [pc : {"read", "reply", "repeat", "queue"}, pkt : Packet \cup {NoPacket}, done : Nat]

(* The task is busy with the packet it read last; it takes no command from *)
(* it before it has answered, and none at all from one it repeats.         *)
AtHand ==
    task.pc # "read" =>
        /\ got # <<>> /\ task.pkt = got[Len(got)]
        /\ task.done <= Len(Commands(got[Len(got)]))
        /\ task.pc = "reply" => task.done = 0
        /\ task.pc = "repeat" => Commands(got[Len(got)]) = <<>>

(* The sends that gave up are of packets read, and of commands taken from  *)
(* the packet at hand.                                                     *)
LostTaken ==
    /\ lost \subseteq Nat \X Nat
    /\ \A t \in lost : t[1] <= Len(got)
    /\ \A t \in lost : (task.pc # "read" /\ t[1] = Len(got)) => t[2] <= task.done

RunInv == RunType /\ AtHand /\ LostTaken /\ RunInOrder

LEMMA CommandsType ==
    ASSUME NEW pkt \in Packet
    PROVE  /\ Commands(pkt) \in Seq(Word) /\ Len(Commands(pkt)) \in Nat
           /\ DOMAIN Commands(pkt) = 1 .. Len(Commands(pkt))
  <1>1. pkt.cmds \in Seq(Word)
    BY DEF Packet
  <1>2. <<>> \in Seq(Word)
    OBVIOUS
  <1>3. pkt.cmds # <<>> => pkt.cmds[1] \in Word
    BY <1>1
  <1>5. pkt.cmds # <<>> => <<pkt.cmds[1]>> \in Seq(Word)
    BY <1>3
  <1>4. Commands(pkt) \in Seq(Word)
    BY <1>1, <1>2, <1>5 DEF Commands
  <1> QED
    BY <1>4, LenProperties

LEMMA JoinType ==
    ASSUME RunType
    PROVE  ran \o cmdq \in Seq(Nat \X Nat)
  BY DEF RunType

(* Writing one answer, whether it is there or not.                         *)
LEMMA AnswerSet ==
    ASSUME NEW S, NEW s \in Seq(S), NEW i, NEW e \in S
    PROVE  [s EXCEPT ![i] = e] \in Seq(S)
  <1>1. CASE i \in 1 .. Len(s)
    BY <1>1, ExceptSeq, Zenon
  <1>2. CASE i \notin 1 .. Len(s)
    <2>1. \A k \in 1 .. Len(s) : [s EXCEPT ![i] = e][k] = s[k]
      BY <1>2
    <2>2. [s EXCEPT ![i] = e] = s
      BY <1>2, <2>1
    <2> QED BY <2>2
  <1> QED BY <1>1, <1>2

(* What the ground and the link do leaves the task and its commands alone. *)
LEMMA GroundRun ==
    ASSUME RunType,
           \/ \E c \in TcFrames : com_send_tc_frame(c) \/ com_send_data("cmd", c)
           \/ com_send_cmd("b") \/ com_set_time_node \/ com_send_rpt \/ com_ping
           \/ \E port \in {"tm", "file", "dbg"} : com_send_data(port, <<"parse">>)
           \/ \E n \in down : ReceiveAnswer(n) \/ LoseAnswer(n)
           \/ AnswerTimeout \/ LosePacket
    PROVE  RunType' /\ UNCHANGED <<task, cmdq, ran, got, lost>>
  <1>1. ASSUME NEW port \in {"tc", "cmd", "rpt", "service", "tm", "file", "dbg"},
               NEW cmds \in Seq(Word), SendPacket(port, cmds)
        PROVE  up' \in Seq(Packet) /\ UNCHANGED <<task, cmdq, ran, got, lost>>
    <2>1. Len(answers) + 1 \in Nat
      BY DEF RunType
    <2>2. [n |-> Len(answers) + 1, port |-> port, cmds |-> cmds] \in Packet
      BY <2>1 DEF Packet
    <2> QED
      BY <1>1, <2>2 DEF SendPacket, RunType, queueVars
  <1>2. ASSUME NEW cmds \in Seq(Word), com_send_tc_frame(cmds)
        PROVE  RunType' /\ UNCHANGED <<task, cmdq, ran, got, lost>>
    BY <1>1, <1>2 DEF com_send_tc_frame, RunType
  <1>3. ASSUME NEW port \in {"tc", "cmd", "rpt", "service", "tm", "file", "dbg"},
               NEW cmds \in Seq(Word), com_send_data(port, cmds)
        PROVE  RunType' /\ UNCHANGED <<task, cmdq, ran, got, lost>>
    BY <1>1, <1>3 DEF com_send_data, RunType
  <1>4. \A c \in TcFrames : c \in Seq(Word)
    <2> SUFFICES ASSUME NEW c \in TcFrames PROVE c \in Seq(Word)
      OBVIOUS
    <2>1. c \in Seq(STRING)
      BY CommunicationsAssumption
    <2>2. STRING \subseteq Word
      BY DEF Word
    <2> QED
      BY <2>1, <2>2, SeqMonotonic, Zenon
  <1>5. /\ <<"b">> \in Seq(Word) /\ <<"obc_set_time">> \in Seq(Word)
        /\ <<"parse">> \in Seq(Word) /\ <<>> \in Seq(Word)
    <2>1. "b" \in Word /\ "obc_set_time" \in Word /\ "parse" \in Word
      BY DEF Word
    <2> QED
      BY <2>1
  <1>6. CASE \E c \in TcFrames : com_send_tc_frame(c) \/ com_send_data("cmd", c)
    BY <1>2, <1>3, <1>4, <1>6
  <1>7. CASE com_send_cmd("b") \/ com_set_time_node
    <2>1. com_send_tc_frame(<<"b">>) \/ com_send_tc_frame(<<"obc_set_time">>)
      BY <1>7 DEF com_send_cmd, com_set_time_node
    <2> QED
      BY <1>2, <1>5, <2>1, Zenon
  <1>8. CASE com_send_rpt \/ com_ping
    <2>1. com_send_data("rpt", <<>>) \/ com_send_data("service", <<>>)
      BY <1>8 DEF com_send_rpt, com_ping
    <2> QED
      BY <1>3, <1>5, <2>1, Zenon
  <1>9. CASE \E port \in {"tm", "file", "dbg"} : com_send_data(port, <<"parse">>)
    BY <1>3, <1>5, <1>9
  <1>10. CASE \E n \in down : ReceiveAnswer(n) \/ LoseAnswer(n)
    <2>1. /\ UNCHANGED <<up, task, cmdq, ran, got, lost>>
          /\ \/ answers' = answers
             \/ \E n \in down : answers' = [answers EXCEPT ![n] = "ok"]
      BY <1>10 DEF ReceiveAnswer, LoseAnswer, queueVars
    <2>2. \A n : [answers EXCEPT ![n] = "ok"] \in Seq({"wait", "sent", "ok", "error"})
      BY AnswerSet, Zenon DEF RunType
    <2>3. answers' \in Seq({"wait", "sent", "ok", "error"})
      BY ZenonT(60), <2>1, <2>2 DEF RunType
    <2> QED
      BY <2>1, <2>3 DEF RunType
  <1>11. CASE AnswerTimeout
    <2>1. /\ UNCHANGED <<up, task, cmdq, ran, got, lost>>
          /\ answers' = [answers EXCEPT ![ground] = "error"]
      BY <1>11 DEF AnswerTimeout, queueVars
    <2>2. answers' \in Seq({"wait", "sent", "ok", "error"})
      BY <2>1, AnswerSet, Zenon DEF RunType
    <2> QED
      BY <2>1, <2>2 DEF RunType
  <1>12. CASE LosePacket
    BY <1>12 DEF LosePacket, RunType, queueVars
  <1> QED
    BY <1>6, <1>7, <1>8, <1>9, <1>10, <1>11, <1>12

(* The first command of the queue becomes the last one executed.           *)
LEMMA MoveFirst ==
    ASSUME NEW S, NEW s \in Seq(S), NEW t \in Seq(S), t # <<>>
    PROVE  Append(s, Head(t)) \o Tail(t) = s \o t
  <1>1. Head(t) \in S /\ Tail(t) \in Seq(S) /\ Len(Tail(t)) = Len(t) - 1
        /\ Len(t) \in Nat /\ Len(t) >= 1 /\ Head(t) = t[1]
    OBVIOUS
  <1>2. \A k \in 1 .. Len(t) - 1 : Tail(t)[k] = t[k + 1]
    OBVIOUS
  <1>3. /\ Append(s, Head(t)) \in Seq(S) /\ Len(Append(s, Head(t))) = Len(s) + 1 /\ Len(s) \in Nat
        /\ Append(s, Head(t))[Len(s) + 1] = t[1]
        /\ \A k \in 1 .. Len(s) : Append(s, Head(t))[k] = s[k]
    BY <1>1
  <1>4. PICK a \in Seq(S), b \in Seq(S) : a = Append(s, Head(t)) /\ b = Tail(t)
    BY <1>1, <1>3
  <1>5. /\ a \o b \in Seq(S) /\ s \o t \in Seq(S)
        /\ Len(a \o b) = Len(s) + Len(t) /\ Len(s \o t) = Len(s) + Len(t)
    BY <1>1, <1>3, <1>4
  <1>6. \A k \in 1 .. Len(s) + Len(t) : (a \o b)[k] = (s \o t)[k]
    <2> SUFFICES ASSUME NEW k \in 1 .. Len(s) + Len(t) PROVE (a \o b)[k] = (s \o t)[k]
      OBVIOUS
    <2>1. (a \o b)[k] = IF k <= Len(s) + 1 THEN a[k] ELSE b[k - (Len(s) + 1)]
      BY <1>1, <1>3, <1>4
    <2>2. (s \o t)[k] = IF k <= Len(s) THEN s[k] ELSE t[k - Len(s)]
      BY <1>1, <1>3
    <2>3. k > Len(s) + 1 => k - (Len(s) + 1) \in 1 .. Len(t) - 1
      BY <1>1, <1>3
    <2> QED
      BY <1>1, <1>2, <1>3, <1>4, <2>1, <2>2, <2>3
  <1>7. a \o b = s \o t
    BY <1>5, <1>6, SeqEqual
  <1> QED BY <1>4, <1>7

LEMMA RunInvInit == CommInit => RunInv
  <1> SUFFICES ASSUME CommInit PROVE RunInv
    OBVIOUS
  <1>1. /\ up = <<>> /\ got = <<>> /\ answers = <<>> /\ cmdq = <<>> /\ ran = <<>> /\ lost = {}
        /\ task = [pc |-> "read", pkt |-> NoPacket, done |-> 0]
    BY DEF CommInit, Reading
  <1>2. RunType /\ AtHand /\ LostTaken
    BY <1>1 DEF RunType, AtHand, LostTaken
  <1>3. DOMAIN (ran \o cmdq) = {} /\ DOMAIN got = {}
    BY <1>1
  <1> QED
    BY <1>2, <1>3 DEF RunInv, RunInOrder

(* The commands and the packets stay, and what is left in the packet at    *)
(* hand.                                                                   *)
LEMMA SameRun ==
    ASSUME RunInOrder, (ran \o cmdq)' = ran \o cmdq, got' = got,
           \A i \in DOMAIN got : \A j \in DOMAIN Commands(got[i]) : Left(i, j)' <=> Left(i, j)
    PROVE  RunInOrder'
  <1> DEFINE c == ran \o cmdq
  <1>1. \A i, j : Known(i, j)' <=> Known(i, j)
    BY DEF Known
  <1>2. \A k \in DOMAIN c : c[k][1] \in DOMAIN got' /\ c[k][2] \in DOMAIN Commands(got'[c[k][1]])
    BY DEF RunInOrder
  <1>3. \A k, l \in DOMAIN c : k < l =>
            c[k][1] < c[l][1] \/ (c[k][1] = c[l][1] /\ c[k][2] < c[l][2])
    BY DEF RunInOrder
  <1>4. \A i \in DOMAIN got : \A j \in DOMAIN Commands(got[i]) :
            (\E k \in DOMAIN c : c[k] = <<i, j>>) <=> Known(i, j) /\ ~Left(i, j)
    BY DEF RunInOrder
  <1>5. \A i \in DOMAIN got' : \A j \in DOMAIN Commands(got'[i]) :
            (\E k \in DOMAIN c : c[k] = <<i, j>>) <=> Known(i, j)' /\ ~Left(i, j)'
    BY <1>1, <1>4
  <1>6. (ran \o cmdq)' = c
    OBVIOUS
  <1> HIDE DEF c
  <1> QED
    BY <1>2, <1>3, <1>5, <1>6 DEF RunInOrder

LEMMA ReadRun == RunInv /\ ReadPacket => RunInv'
  <1> SUFFICES ASSUME RunInv, ReadPacket PROVE RunInv'
    OBVIOUS
  <1> DEFINE pkt == Head(up)
             c == ran \o cmdq
  <1>1. pkt \in Packet /\ got' = Append(got, pkt) /\ up' = Tail(up) /\ up' \in Seq(Packet)
    BY DEF ReadPacket, RunInv, RunType
  <1>2. /\ task.pc = "read" /\ UNCHANGED <<answers, cmdq, ran, lost>>
        /\ task'.pc # "read" /\ task'.pkt = pkt /\ task'.done = 0
        /\ task'.pc = "repeat" => pkt.port = "rpt"
        /\ task' \in [pc : {"read", "reply", "repeat", "queue"}, pkt : Packet \cup {NoPacket}, done : Nat]
    BY <1>1 DEF ReadPacket, queueVars
  <1>3. /\ got \in Seq(Packet) /\ got' \in Seq(Packet) /\ Len(got) \in Nat /\ Len(got') = Len(got) + 1
        /\ got'[Len(got')] = pkt /\ \A i \in 1 .. Len(got) : got'[i] = got[i]
        /\ DOMAIN got = 1 .. Len(got) /\ DOMAIN got' = 1 .. Len(got')
    BY <1>1 DEF RunInv, RunType
  <1>4. RunType'
    BY <1>1, <1>2, <1>3 DEF RunInv, RunType
  <1>5. AtHand'
    <2>1. Len(Commands(pkt)) \in Nat
      BY <1>1, CommandsType
    <2>2. pkt.port = "rpt" => Commands(pkt) = <<>>
      BY DEF Commands
    <2>3. got' # <<>>
      BY <1>3
    <2>4. Commands(got[Len(got)])' = Commands(pkt)
      BY <1>3 DEF Commands
    <2> QED
      BY <1>2, <1>3, <2>1, <2>2, <2>3, <2>4 DEF AtHand
  <1>6. RunInOrder'
    <2>1. (ran \o cmdq)' = c
      BY <1>2
    <2>2. \A k \in DOMAIN c : c[k][1] \in 1 .. Len(got) /\ c[k][2] \in DOMAIN Commands(got[c[k][1]])
      BY <1>3 DEF RunInv, RunInOrder
    <2>3. \A k, l \in DOMAIN c : k < l =>
              c[k][1] < c[l][1] \/ (c[k][1] = c[l][1] /\ c[k][2] < c[l][2])
      BY DEF RunInv, RunInOrder
    <2>4. \A i \in 1 .. Len(got) : Commands(got'[i]) = Commands(got[i])
      BY <1>3
    <2>5. ASSUME NEW i \in 1 .. Len(got'), NEW j \in DOMAIN Commands(got'[i])
          PROVE  (\E k \in DOMAIN c : c[k] = <<i, j>>) <=> Known(i, j)' /\ ~Left(i, j)'
      <3>1. CASE i \in 1 .. Len(got)
        <4>1. j \in DOMAIN Commands(got[i]) /\ i # Len(got')
          BY <1>3, <2>4, <3>1
        <4>2. Left(i, j)' <=> Left(i, j)
          BY <1>2, <4>1 DEF Left
        <4>3. Known(i, j)' <=> Known(i, j)
          BY <2>4, <3>1 DEF Known
        <4>4. (\E k \in DOMAIN c : c[k] = <<i, j>>) <=> Known(i, j) /\ ~Left(i, j)
          BY <1>3, <3>1, <4>1 DEF RunInv, RunInOrder
        <4> QED
          BY <4>2, <4>3, <4>4
      <3>2. CASE i = Len(got')
        <4>1. j > task'.done
          <5>1. DOMAIN Commands(got'[i]) = 1 .. Len(Commands(pkt)) /\ Len(Commands(pkt)) \in Nat
            BY <1>1, <1>3, <3>2, CommandsType
          <5> QED BY <1>2, <5>1
        <4>2. Left(i, j)'
          BY <1>2, <3>2, <4>1 DEF Left
        <4>3. ~\E k \in DOMAIN c : c[k] = <<i, j>>
          BY <1>3, <2>2, <3>2
        <4> QED
          BY <4>2, <4>3
      <3>3. i \in 1 .. Len(got) \/ i = Len(got')
        BY <1>3
      <3> QED
        BY <3>1, <3>2, <3>3
    <2>6. \A k \in DOMAIN c : c[k][1] \in DOMAIN got' /\ c[k][2] \in DOMAIN Commands(got'[c[k][1]])
      BY SMTT(60), <1>3, <2>2, <2>4
    <2>7. \A i \in DOMAIN got' : \A j \in DOMAIN Commands(got'[i]) :
              (\E k \in DOMAIN c : c[k] = <<i, j>>) <=> Known(i, j)' /\ ~Left(i, j)'
      BY <1>3, <2>5
    <2> HIDE DEF c
    <2> QED
      BY <2>1, <2>3, <2>6, <2>7 DEF RunInOrder
  <1>7. LostTaken'
    <2>1. LostTaken
      BY DEF RunInv
    <2>2. lost \subseteq Nat \X Nat /\ \A t \in lost : t[1] \in Nat /\ t[1] <= Len(got)
      BY <2>1 DEF LostTaken
    <2>3. \A t \in lost : t[1] <= Len(got') /\ t[1] # Len(got')
      BY <1>3, <2>2
    <2> QED BY <1>2, <2>2, <2>3 DEF LostTaken
  <1> QED
    BY <1>4, <1>5, <1>6, <1>7 DEF RunInv

(* The next command of the packet at hand comes after all those before.    *)
LEMMA QueueRun == RunInv /\ QueueCommand => RunInv'
  <1> SUFFICES ASSUME RunInv, QueueCommand PROVE RunInv'
    OBVIOUS
  <1> DEFINE c == ran \o cmdq
  <1>g. PICK g \in Nat, d \in Nat : g = Len(got) /\ d = task.done
    BY DEF RunInv, RunType
  <1>0. /\ got \in Seq(Packet) /\ DOMAIN got = 1 .. g /\ g \in Nat /\ g >= 1
        /\ got[g] \in Packet /\ task.pkt = got[g] /\ d \in Nat /\ task.pc = "queue"
    BY <1>g DEF RunInv, RunType, AtHand, QueueCommand
  <1>1. /\ UNCHANGED <<up, answers, ran, got, lost>>
        /\ d < Len(Commands(got[g]))
        /\ \/ Commands(got[g])[d + 1] = "?" /\ cmdq' = cmdq
           \/ Commands(got[g])[d + 1] # "?" /\ cmdq' = Append(cmdq, <<g, d + 1>>)
    BY <1>g, <1>0 DEF QueueCommand, NextOf
  <1>2. /\ task' \in [pc : {"read", "reply", "repeat", "queue"}, pkt : Packet \cup {NoPacket}, done : Nat]
        /\ task'.pc = "queue" /\ task'.pkt = got[g] /\ task'.done = d + 1
    <2>1. task' = [pc |-> "queue", pkt |-> got[g], done |-> d + 1]
      BY <1>g, <1>0 DEF QueueCommand, RunInv, RunType
    <2>2. got[g] \in Packet \cup {NoPacket}
      BY <1>0
    <2> QED BY <2>1, <2>2
  <1>3. Len(Commands(got[g])) \in Nat /\ DOMAIN Commands(got[g]) = 1 .. Len(Commands(got[g]))
    BY <1>0, CommandsType
  <1>4. RunType'
    <2>1. cmdq' \in Seq(Nat \X Nat)
      <3>1. <<g, d + 1>> \in Nat \X Nat
        OBVIOUS
      <3>2. cmdq \in Seq(Nat \X Nat)
        BY DEF RunInv, RunType
      <3>3. Append(cmdq, <<g, d + 1>>) \in Seq(Nat \X Nat)
        BY <3>1, <3>2
      <3> QED BY <1>1, <3>2, <3>3
    <2> QED
      BY <1>1, <1>2, <2>1 DEF RunInv, RunType
  <1>5. AtHand'
    BY <1>g, <1>0, <1>1, <1>2, <1>3 DEF AtHand
  <1>6. c \in Seq(Nat \X Nat) /\ Len(c) \in Nat /\ DOMAIN c = 1 .. Len(c)
    BY JoinType DEF RunInv
  <1>7. /\ \A k \in DOMAIN c : c[k][1] \in DOMAIN got /\ c[k][2] \in DOMAIN Commands(got[c[k][1]])
        /\ \A k, l \in DOMAIN c : k < l =>
              c[k][1] < c[l][1] \/ (c[k][1] = c[l][1] /\ c[k][2] < c[l][2])
        /\ \A i \in DOMAIN got : \A j \in DOMAIN Commands(got[i]) :
              (\E k \in DOMAIN c : c[k] = <<i, j>>) <=> Known(i, j) /\ ~Left(i, j)
    BY DEF RunInv, RunInOrder
  <1>t. <<g, d + 1>> \notin lost /\ LostTaken'
    <2>0. LostTaken
      BY DEF RunInv
    <2>1. \A t \in lost : t[1] = g => t[2] <= d
      BY <1>g, <1>0, <2>0 DEF LostTaken
    <2>2. \A t \in lost : t \in Nat \X Nat /\ t[1] <= g
      BY <1>g, <2>0 DEF LostTaken
    <2>3. <<g, d + 1>> \notin lost
      BY <2>1
    <2>4. \A t \in lost : t[1] = g => t[2] <= d + 1
      BY <2>1, <2>2
    <2> QED BY <1>g, <1>1, <1>2, <2>2, <2>3, <2>4 DEF LostTaken
  <1>8. \A i \in DOMAIN got : \A j \in DOMAIN Commands(got[i]) :
            /\ Known(i, j)' <=> Known(i, j)
            /\ Left(i, j) <=> (i = g /\ j > d) \/ <<i, j>> \in lost
            /\ Left(i, j)' <=> (i = g /\ j > d + 1) \/ <<i, j>> \in lost
    BY <1>g, <1>0, <1>1, <1>2 DEF Known, Left
  <1>9. \A i \in DOMAIN got : \A j \in DOMAIN Commands(got[i]) : j \in Nat
    <2> SUFFICES ASSUME NEW i \in DOMAIN got, NEW j \in DOMAIN Commands(got[i]) PROVE j \in Nat
      OBVIOUS
    <2>1. got[i] \in Packet
      BY <1>0
    <2> QED BY <2>1, CommandsType
  <1>10. ASSUME NEW e, e = (ran \o cmdq)',
                /\ \A k \in DOMAIN e : e[k][1] \in DOMAIN got /\ e[k][2] \in DOMAIN Commands(got[e[k][1]])
                /\ \A k, l \in DOMAIN e : k < l =>
                      e[k][1] < e[l][1] \/ (e[k][1] = e[l][1] /\ e[k][2] < e[l][2])
                /\ \A i \in DOMAIN got : \A j \in DOMAIN Commands(got[i]) :
                      (\E k \in DOMAIN e : e[k] = <<i, j>>) <=> Known(i, j)' /\ ~Left(i, j)'
         PROVE  RunInOrder'
    <2>1. DOMAIN got' = DOMAIN got /\ \A i : Commands(got'[i]) = Commands(got[i])
      BY <1>1
    <2>2. \A k \in DOMAIN e : e[k][1] \in DOMAIN got' /\ e[k][2] \in DOMAIN Commands(got'[e[k][1]])
      BY <1>10, <2>1
    <2>3. \A i \in DOMAIN got' : \A j \in DOMAIN Commands(got'[i]) :
              (\E k \in DOMAIN e : e[k] = <<i, j>>) <=> Known(i, j)' /\ ~Left(i, j)'
      BY <1>10, <2>1
    <2> QED BY ZenonT(60), <1>10, <2>2, <2>3 DEF RunInOrder
  <1>11. CASE Commands(got[g])[d + 1] = "?" /\ cmdq' = cmdq
    <2>1. (ran \o cmdq)' = c
      BY <1>1, <1>11
    <2>2. ASSUME NEW i \in DOMAIN got, NEW j \in DOMAIN Commands(got[i])
          PROVE  (\E k \in DOMAIN c : c[k] = <<i, j>>) <=> Known(i, j)' /\ ~Left(i, j)'
      <3>1. CASE i = g /\ j = d + 1
        <4>1. ~Known(i, j)
          BY <1>11, <3>1 DEF Known
        <4>2. ~Known(i, j)'
          BY <1>8, <4>1
        <4>3. ~\E k \in DOMAIN c : c[k] = <<i, j>>
          BY <1>7, <4>1
        <4> QED BY <4>2, <4>3
      <3>2. CASE ~(i = g /\ j = d + 1)
        <4>1. Left(i, j)' <=> Left(i, j)
          <5>1. j \in Nat
            BY <1>9
          <5>2. (i = g /\ j > d) <=> (i = g /\ j > d + 1)
            BY <3>2, <5>1
          <5>3. Left(i, j) <=> (i = g /\ j > d) \/ <<i, j>> \in lost
            BY <1>8
          <5>4. Left(i, j)' <=> (i = g /\ j > d + 1) \/ <<i, j>> \in lost
            BY <1>8
          <5> QED BY <5>2, <5>3, <5>4
        <4> QED
          BY <1>7, <1>8, <4>1
      <3> QED BY <3>1, <3>2
    <2> HIDE DEF c
    <2>3. RunInOrder'
      BY ZenonT(60), <1>7, <1>10, <2>1, <2>2
    <2> QED BY <1>t, <1>4, <1>5, <2>3 DEF RunInv
  <1>12. CASE Commands(got[g])[d + 1] # "?" /\ cmdq' = Append(cmdq, <<g, d + 1>>)
    <2> DEFINE e == Append(c, <<g, d + 1>>)
    <2>1. (ran \o cmdq)' = e
      <3>1. ran' \o cmdq' = ran \o Append(cmdq, <<g, d + 1>>)
        BY <1>1, <1>12
      <3>2. ran \in Seq(Nat \X Nat) /\ cmdq \in Seq(Nat \X Nat) /\ <<g, d + 1>> \in Nat \X Nat
        BY <1>0 DEF RunInv, RunType
      <3>3. ran \o Append(cmdq, <<g, d + 1>>) = Append(ran \o cmdq, <<g, d + 1>>)
        BY <3>2, SMTT(60)
      <3> QED BY <3>1, <3>3
    <2>2. /\ DOMAIN e = 1 .. Len(c) + 1 /\ e[Len(c) + 1] = <<g, d + 1>>
          /\ \A k \in 1 .. Len(c) : e[k] = c[k]
      BY <1>0, <1>6
    <2> HIDE DEF e, c
    <2>3. \A k \in 1 .. Len(c) : c[k][1] < g \/ (c[k][1] = g /\ c[k][2] < d + 1)
      <3> SUFFICES ASSUME NEW k \in 1 .. Len(c) PROVE c[k][1] < g \/ (c[k][1] = g /\ c[k][2] < d + 1)
        OBVIOUS
      <3> DEFINE i == c[k][1]
                 j == c[k][2]
      <3>1. c[k] = <<i, j>> /\ i \in 1 .. g /\ j \in DOMAIN Commands(got[i])
        <4>1. c[k] \in Nat \X Nat
          BY <1>6
        <4>2. c[k] = <<i, j>>
          BY <4>1
        <4> QED BY <1>0, <1>6, <1>7, <4>2
      <3>2. ~Left(i, j)
        BY <1>0, <1>6, <1>7, <3>1
      <3> HIDE DEF i, j
      <3>3. ~(i = g /\ j > d) /\ j \in Nat
        BY <1>0, <1>8, <1>9, <3>1, <3>2
      <3>4. i < g \/ (i = g /\ j < d + 1)
        BY <1>0, <3>1, <3>3
      <3> QED BY <3>4 DEF i, j
    <2>4. \A k \in DOMAIN e : e[k][1] \in DOMAIN got /\ e[k][2] \in DOMAIN Commands(got[e[k][1]])
      <3> SUFFICES ASSUME NEW k \in 1 .. Len(c) + 1
                   PROVE  e[k][1] \in DOMAIN got /\ e[k][2] \in DOMAIN Commands(got[e[k][1]])
        BY <2>2
      <3>1. CASE k = Len(c) + 1
        BY <1>0, <1>1, <1>3, <2>2, <3>1
      <3>2. CASE k \in 1 .. Len(c)
        BY <1>6, <1>7, <2>2, <3>2
      <3> QED BY <1>6, <3>1, <3>2
    <2>5. \A k, l \in DOMAIN e : k < l =>
              e[k][1] < e[l][1] \/ (e[k][1] = e[l][1] /\ e[k][2] < e[l][2])
      <3> SUFFICES ASSUME NEW k \in 1 .. Len(c) + 1, NEW l \in 1 .. Len(c) + 1, k < l
                   PROVE  e[k][1] < e[l][1] \/ (e[k][1] = e[l][1] /\ e[k][2] < e[l][2])
        BY <2>2
      <3>1. k \in 1 .. Len(c)
        BY <1>6
      <3>2. CASE l = Len(c) + 1
        <4>1. c[k][1] < g \/ (c[k][1] = g /\ c[k][2] < d + 1)
          BY <2>3, <3>1
        <4>2. e[l][1] = g /\ e[l][2] = d + 1 /\ e[k] = c[k]
          BY <2>2, <3>1, <3>2
        <4> QED BY <4>1, <4>2
      <3>3. CASE l \in 1 .. Len(c)
        <4>1. k \in DOMAIN c /\ l \in DOMAIN c /\ e[k] = c[k] /\ e[l] = c[l]
          BY <1>6, <2>2, <3>1, <3>3
        <4>2. c[k][1] < c[l][1] \/ (c[k][1] = c[l][1] /\ c[k][2] < c[l][2])
          BY <1>7, <4>1
        <4> QED BY <4>1, <4>2
      <3>4. Len(c) \in Nat
        BY <1>6
      <3>5. l = Len(c) + 1 \/ l \in 1 .. Len(c)
        BY <3>4
      <3> QED BY <3>2, <3>3, <3>5
    <2>6. ASSUME NEW i \in DOMAIN got, NEW j \in DOMAIN Commands(got[i])
          PROVE  (\E k \in DOMAIN e : e[k] = <<i, j>>) <=> Known(i, j)' /\ ~Left(i, j)'
      <3>1. CASE i = g /\ j = d + 1
        <4>1. Known(i, j)' /\ ~Left(i, j)'
          <5>1. Known(i, j)
            BY <1>12, <3>1 DEF Known
          <5>2. ~((i = g /\ j > d + 1) \/ <<i, j>> \in lost)
            BY <1>t, <3>1
          <5> QED BY <1>8, <5>1, <5>2
        <4>2. e[Len(c) + 1] = <<i, j>> /\ Len(c) + 1 \in DOMAIN e
          BY <1>6, <2>2, <3>1
        <4> QED BY <4>1, <4>2
      <3>2. CASE ~(i = g /\ j = d + 1)
        <4>1. Left(i, j)' <=> Left(i, j)
          <5>1. j \in Nat
            BY <1>9
          <5>2. (i = g /\ j > d) <=> (i = g /\ j > d + 1)
            BY <3>2, <5>1
          <5>3. Left(i, j) <=> (i = g /\ j > d) \/ <<i, j>> \in lost
            BY <1>8
          <5>4. Left(i, j)' <=> (i = g /\ j > d + 1) \/ <<i, j>> \in lost
            BY <1>8
          <5> QED BY <5>2, <5>3, <5>4
        <4>2. (\E k \in DOMAIN e : e[k] = <<i, j>>) <=> (\E k \in DOMAIN c : c[k] = <<i, j>>)
          <5>1. e[Len(c) + 1] # <<i, j>>
            BY <2>2, <3>2
          <5>2. ASSUME NEW k \in DOMAIN e, e[k] = <<i, j>>
                PROVE  \E l \in DOMAIN c : c[l] = <<i, j>>
            <6>1. k \in 1 .. Len(c)
              BY SMTT(60), <1>6, <2>2, <5>1, <5>2
            <6> QED BY <1>6, <2>2, <5>2, <6>1
          <5>3. ASSUME NEW k \in DOMAIN c, c[k] = <<i, j>>
                PROVE  \E l \in DOMAIN e : e[l] = <<i, j>>
            <6>1. k \in DOMAIN e /\ e[k] = c[k]
              BY <1>6, <2>2
            <6> QED BY <5>3, <6>1
          <5> QED BY <5>2, <5>3
        <4> QED
          BY <1>7, <1>8, <4>1, <4>2
      <3> QED BY <3>1, <3>2
    <2>7. RunInOrder'
      BY ZenonT(60), <1>10, <2>1, <2>4, <2>5, <2>6
    <2> QED BY <1>t, <1>4, <1>5, <2>7 DEF RunInv
  <1> QED
    BY <1>1, <1>11, <1>12

(* A send that gives up costs the packet at hand that command.             *)
LEMMA GiveUpRun == RunInv /\ QueueGivesUp => RunInv'
  <1> SUFFICES ASSUME RunInv, QueueGivesUp PROVE RunInv'
    OBVIOUS
  <1>g. PICK g \in Nat, d \in Nat : g = Len(got) /\ d = task.done
    BY DEF RunInv, RunType
  <1>0. /\ DOMAIN got = 1 .. g /\ g >= 1 /\ got[g] \in Packet /\ task.pkt = got[g] /\ task.pc = "queue"
    BY <1>g DEF RunInv, RunType, AtHand, QueueGivesUp
  <1>1. /\ UNCHANGED <<up, answers, ran, got, cmdq>> /\ d < Len(Commands(got[g]))
        /\ lost' = lost \cup {<<g, d + 1>>}
        /\ task' = [pc |-> "queue", pkt |-> got[g], done |-> d + 1]
    BY <1>g, <1>0 DEF QueueGivesUp, queueVars, RunInv, RunType
  <1>2. Len(Commands(got[g])) \in Nat
    BY <1>0, CommandsType
  <1>3. RunType'
    BY <1>0, <1>1 DEF RunInv, RunType
  <1>4. AtHand'
    BY <1>g, <1>0, <1>1, <1>2 DEF AtHand
  <1>5. LostTaken'
    <2>0. LostTaken
      BY DEF RunInv
    <2>1. \A t \in lost : t \in Nat \X Nat /\ t[1] <= g /\ (t[1] = g => t[2] <= d)
      BY <1>g, <1>0, <2>0 DEF LostTaken
    <2>2. \A t \in lost' : t \in Nat \X Nat /\ t[1] <= g /\ (t[1] = g => t[2] <= d + 1)
      BY <1>1, <2>1
    <2> QED BY <1>g, <1>1, <2>2 DEF LostTaken
  <1>6. \A i \in DOMAIN got : \A j \in DOMAIN Commands(got[i]) : Left(i, j)' <=> Left(i, j)
    <2> SUFFICES ASSUME NEW i \in DOMAIN got, NEW j \in DOMAIN Commands(got[i])
                 PROVE  Left(i, j)' <=> Left(i, j)
      OBVIOUS
    <2>1. got[i] \in Packet
      BY DEF RunInv, RunType
    <2>2. j \in Nat
      BY <2>1, CommandsType
    <2>3. Left(i, j) <=> (i = g /\ j > d) \/ <<i, j>> \in lost
      BY <1>g, <1>0 DEF Left
    <2>4. Left(i, j)' <=> (i = g /\ j > d + 1) \/ <<i, j>> \in lost'
      BY <1>g, <1>1 DEF Left
    <2>5. <<i, j>> \in lost' <=> <<i, j>> \in lost \/ (i = g /\ j = d + 1)
      BY <1>1
    <2> QED BY <2>2, <2>3, <2>4, <2>5
  <1>7. RunInOrder'
    BY <1>1, <1>6, SameRun DEF RunInv
  <1> QED
    BY <1>3, <1>4, <1>5, <1>7 DEF RunInv

LEMMA RunInvNext == RunInv /\ [CommNext]_commVars => RunInv'
  <1> SUFFICES ASSUME RunInv, [CommNext]_commVars PROVE RunInv'
    OBVIOUS
  <1>0. RunType /\ AtHand /\ LostTaken /\ RunInOrder
    BY DEF RunInv
  <1>1. ASSUME RunType', UNCHANGED <<task, cmdq, ran, got, lost>>
        PROVE  RunInv'
    <2>1. AtHand'
      BY <1>0, <1>1 DEF AtHand
    <2>2. RunInOrder'
      BY <1>0, <1>1, SameRun DEF Left
    <2>3. LostTaken'
      BY <1>0, <1>1 DEF LostTaken
    <2> QED BY <1>1, <2>1, <2>2, <2>3 DEF RunInv
  <1>2. ASSUME NEW ok \in BOOLEAN, Reply(ok)
        PROVE  RunInv'
    <2>1. /\ task.pc = "reply" /\ UNCHANGED <<up, got, answers, cmdq, ran, lost>>
          /\ task' = [pc |-> "queue", pkt |-> task.pkt, done |-> task.done]
      BY <1>0, <1>2 DEF Reply, RunType, queueVars
    <2>2. RunType'
      BY <1>0, <2>1 DEF RunType
    <2>3. AtHand'
      BY <1>0, <2>1 DEF AtHand
    <2>4. RunInOrder'
      BY <1>0, <2>1, SameRun DEF Left
    <2>5. LostTaken'
      BY <1>0, <2>1 DEF LostTaken
    <2> QED BY <2>2, <2>3, <2>4, <2>5 DEF RunInv
  <1>3. CASE Repeat \/ FreePacket
    <2>1. /\ task.pc # "read" /\ UNCHANGED <<up, got, answers, cmdq, ran, lost>>
          /\ task' = [pc |-> "read", pkt |-> NoPacket, done |-> 0]
      BY <1>3 DEF Repeat, FreePacket, Reading, queueVars
    <2>2. RunType'
      BY <1>0, <2>1 DEF RunType
    <2>3. AtHand'
      BY <2>1 DEF AtHand
    <2>4. got[Len(got)] \in Packet /\ Len(Commands(got[Len(got)])) \in Nat
          /\ DOMAIN Commands(got[Len(got)]) = 1 .. Len(Commands(got[Len(got)]))
      <3>1. got[Len(got)] \in Packet
        BY <1>0, <2>1 DEF RunType, AtHand
      <3> QED BY <3>1, CommandsType
    <2>5. task.done >= Len(Commands(got[Len(got)])) /\ task.done \in Nat
      <3>1. CASE FreePacket
        BY <1>0, <2>1, <2>4, <3>1 DEF FreePacket, AtHand, RunType
      <3>2. CASE Repeat
        BY <1>0, <2>1, <2>4, <3>2 DEF Repeat, AtHand, RunType
      <3> QED BY <1>3, <3>1, <3>2
    <2>6. \A i \in DOMAIN got : \A j \in DOMAIN Commands(got[i]) : Left(i, j)' <=> Left(i, j)
      BY <2>1, <2>4, <2>5 DEF Left
    <2>7. RunInOrder'
      BY <1>0, <2>1, <2>6, SameRun
    <2>8. LostTaken'
      BY <1>0, <2>1 DEF LostTaken
    <2> QED BY <2>2, <2>3, <2>7, <2>8 DEF RunInv
  <1>4. CASE ExecuteCommand
    <2>1. cmdq # <<>> /\ cmdq' = Tail(cmdq) /\ ran' = Append(ran, Head(cmdq))
          /\ UNCHANGED <<up, got, answers, task, lost>>
      BY <1>4 DEF ExecuteCommand
    <2>2. cmdq \in Seq(Nat \X Nat) /\ ran \in Seq(Nat \X Nat) /\ Head(cmdq) \in Nat \X Nat
      BY SMTT(60), <1>0, <2>1 DEF RunType
    <2>3. RunType'
      BY <1>0, <2>1, <2>2 DEF RunType
    <2>4. AtHand'
      BY <1>0, <2>1 DEF AtHand
    <2>5. Append(ran, Head(cmdq)) \o Tail(cmdq) = ran \o cmdq
      BY <2>1, <2>2, MoveFirst
    <2>6. RunInOrder'
      BY <1>0, <2>1, <2>5, SameRun DEF Left
    <2>7. LostTaken'
      BY <1>0, <2>1 DEF LostTaken
    <2> QED BY <2>3, <2>4, <2>6, <2>7 DEF RunInv
  <1>5. CASE RestartSatellite
    <2>1. /\ got' = <<>> /\ cmdq' = <<>> /\ ran' = <<>> /\ lost' = {} /\ UNCHANGED <<up, answers>>
          /\ task' = [pc |-> "read", pkt |-> NoPacket, done |-> 0]
      BY <1>5 DEF RestartSatellite, Reading
    <2>2. RunType' /\ AtHand' /\ LostTaken'
      BY <1>0, <2>1 DEF RunType, AtHand, LostTaken
    <2>3. DOMAIN (ran \o cmdq)' = {} /\ DOMAIN got' = {}
      BY <2>1
    <2> QED
      BY <2>2, <2>3 DEF RunInv, RunInOrder
  <1>6. CASE UNCHANGED commVars
    <2>1. RunType'
      BY <1>0, <1>6 DEF commVars, queueVars, RunType
    <2> QED BY <1>1, <1>6, <2>1 DEF commVars, queueVars
  <1>7. CASE ExecuteOther \/ EndCommand \/ EndGivesUp
    <2>1. UNCHANGED <<up, answers, task, cmdq, ran, got, lost>>
      BY <1>7 DEF ExecuteOther, EndCommand, EndGivesUp
    <2>2. RunType'
      BY <1>0, <2>1 DEF RunType
    <2> QED BY <1>1, <2>1, <2>2
  <1>8. CASE \/ \E c \in TcFrames : com_send_tc_frame(c) \/ com_send_data("cmd", c)
             \/ com_send_cmd("b") \/ com_set_time_node \/ com_send_rpt \/ com_ping
             \/ \E port \in {"tm", "file", "dbg"} : com_send_data(port, <<"parse">>)
             \/ \E n \in down : ReceiveAnswer(n) \/ LoseAnswer(n)
             \/ AnswerTimeout \/ LosePacket
    BY <1>0, <1>1, <1>8, GroundRun
  <1> QED
    BY <1>2, <1>3, <1>4, <1>5, <1>6, <1>7, <1>8, ReadRun, QueueRun, GiveUpRun DEF CommNext

(* taskCommunications.c:60-195: whatever the link loses, however small the *)
(* queue of the dispatcher is, whichever sends into it give up, whatever   *)
(* the commands send themselves and wherever the satellite restarts, the   *)
(* commands executed and then those queued are the known commands of the   *)
(* packets read since the boot, in the order of the packets and of the     *)
(* commands in them, each once, but those still in the packet at hand and  *)
(* those whose send gave up.                                               *)
THEOREM RunInOrderCorrect == CommSpec => []RunInOrder
  <1>1. RunInv => RunInOrder
    BY DEF RunInv
  <1> QED
    BY <1>1, RunInvInit, RunInvNext, PTL DEF CommSpec

--------------------------------------------------------------------------------
(* I2cUart: the frames and their answers *)

Token == Nat \X Nat

UartType ==
    /\ tx \in [Tasks -> {"idle", "lock", "answer"}]
    /\ lock \in Tasks \cup {0}
    /\ ans \in BOOLEAN /\ late \in BOOLEAN
    /\ nsent \in [Tasks -> Nat]
    /\ board \in Seq(Tasks \X Nat)
    /\ line \in Seq(Token) /\ cbuf \in Seq(Token)
    /\ passed \in Seq(Seq(Token))
    /\ nrx \in Nat /\ overran \in BOOLEAN /\ misread \in BOOLEAN

--------------------------------------------------------------------------------
(* What is on its way for one frame: it waits in the controller, its "TX"  *)
(* is on the line, or the semaphore was posted.                            *)

(* One task at most waits for an answer, the one that has the lock. *)
Locked == \A t \in Tasks : tx[t] = "answer" <=> lock = t

NoTX(s) == \A i \in 1 .. Len(s) : s[i] # TX

OneTX(s) == \A i, j \in 1 .. Len(s) : s[i] = TX /\ s[j] = TX => i = j

(* As long as no task gave up and no frame was taken for an answer, there  *)
(* is at most one answer, it is for the task that has the lock, and its    *)
(* frame is on the bus.                                                    *)
OneAnswer ==
    ~late /\ ~misread =>
        /\ lock = 0 => board = <<>> /\ NoTX(line) /\ ~ans
        /\ board # <<>> => board = <<<<lock, nsent[lock]>>>> /\ NoTX(line) /\ ~ans
        /\ ~NoTX(line) => OneTX(line) /\ ~ans /\ <<lock, nsent[lock]>> \in onbus
        /\ ans => <<lock, nsent[lock]>> \in onbus

TxInv == UartType /\ Locked /\ OneAnswer /\ ConfirmedOnBus

LEMMA NextCases ==
    ASSUME [UartNext]_uartVars
    PROVE  \/ \E t \in Tasks : TxBegin(t) \/ TxLockTimeout(t)
           \/ \E t \in Tasks : TxWrite(t)
           \/ \E t \in Tasks : TxConfirmed(t)
           \/ \E t \in Tasks : TxAnswerTimeout(t)
           \/ BoardTransmits
           \/ BoardLoses
           \/ BoardReceives
           \/ \E found \in {"TX", "OK", "none"} : RxSync(found)
           \/ \E k \in 1 .. UartLen - 1 : RxRead(k)
           \/ UNCHANGED uartVars
  BY DEF UartNext

(* What taking from the front of the line leaves. *)
LEMMA LineTail ==
    ASSUME NEW s \in Seq(Token), s # <<>>
    PROVE  /\ Tail(s) \in Seq(Token) /\ Len(Tail(s)) = Len(s) - 1
           /\ \A i \in 1 .. Len(Tail(s)) : Tail(s)[i] = s[i + 1] /\ i + 1 \in 1 .. Len(s)
           /\ Head(s) = s[1] /\ Head(s) \in Token
  OBVIOUS

LEMMA LineRest ==
    ASSUME NEW s \in Seq(Token), NEW k \in Nat, k <= Len(s)
    PROVE  /\ SubSeq(s, k + 1, Len(s)) \in Seq(Token)
           /\ Len(SubSeq(s, k + 1, Len(s))) = Len(s) - k
           /\ \A i \in 1 .. Len(s) - k : SubSeq(s, k + 1, Len(s))[i] = s[i + k]
                                         /\ i + k \in 1 .. Len(s)
  OBVIOUS

LEMMA LineFront ==
    ASSUME NEW s \in Seq(Token), NEW c \in Seq(Token), NEW k \in Nat, k <= Len(s)
    PROVE  /\ c \o SubSeq(s, 1, k) \in Seq(Token)
           /\ Len(c \o SubSeq(s, 1, k)) = Len(c) + k
           /\ \A i \in 1 .. Len(c) : (c \o SubSeq(s, 1, k))[i] = c[i]
           /\ \A i \in 1 .. k : (c \o SubSeq(s, 1, k))[Len(c) + i] = s[i]
  <1>1. SubSeq(s, 1, k) \in Seq(Token) /\ Len(SubSeq(s, 1, k)) = k
    OBVIOUS
  <1>2. \A i \in 1 .. k : SubSeq(s, 1, k)[i] = s[i]
    OBVIOUS
  <1> QED
    BY <1>1, <1>2

Frame(n) == [i \in 1 .. UartLen |-> <<n, i>>]

LEMMA FrameSeq ==
    ASSUME NEW n \in Nat
    PROVE  Frame(n) \in Seq(Token) /\ Len(Frame(n)) = UartLen
  BY UartAssumption DEF Frame, Token

LEMMA LineJoin ==
    ASSUME NEW s \in Seq(Token), NEW f \in Seq(Token)
    PROVE  /\ s \o f \in Seq(Token)
           /\ Len(s \o f) = Len(s) + Len(f)
           /\ \A i \in 1 .. Len(s) : (s \o f)[i] = s[i]
           /\ \A i \in Len(s) + 1 .. Len(s) + Len(f) : (s \o f)[i] = f[i - Len(s)]
  OBVIOUS

LEMMA LineFrame ==
    ASSUME NEW s \in Seq(Token), NEW n \in Nat
    PROVE  /\ s \o Frame(n) \in Seq(Token)
           /\ Len(s \o Frame(n)) = Len(s) + UartLen
           /\ \A i \in 1 .. Len(s) : (s \o Frame(n))[i] = s[i]
           /\ \A i \in Len(s) + 1 .. Len(s) + UartLen : (s \o Frame(n))[i] = <<n, i - Len(s)>>
  <1>1. Frame(n) \in Seq(Token) /\ Len(Frame(n)) = UartLen
    BY FrameSeq
  <1>2. \A i \in 1 .. UartLen : Frame(n)[i] = <<n, i>>
    BY DEF Frame
  <1>3. /\ s \o Frame(n) \in Seq(Token) /\ Len(s \o Frame(n)) = Len(s) + UartLen
        /\ \A i \in 1 .. Len(s) : (s \o Frame(n))[i] = s[i]
        /\ \A i \in Len(s) + 1 .. Len(s) + UartLen : (s \o Frame(n))[i] = Frame(n)[i - Len(s)]
    BY <1>1, LineJoin
  <1>4. \A i \in Len(s) + 1 .. Len(s) + UartLen : i - Len(s) \in 1 .. UartLen
    BY UartAssumption
  <1> QED
    BY <1>2, <1>3, <1>4

LEMMA TypeStep ==
    ASSUME UartType, [UartNext]_uartVars
    PROVE  UartType'
  <1> USE UartAssumption
  <1>1. CASE \E t \in Tasks : TxBegin(t) \/ TxLockTimeout(t)
    BY <1>1 DEF UartType, TxBegin, TxLockTimeout, rxVars
  <1>2. CASE \E t \in Tasks : TxWrite(t)
    BY SMTT(60), <1>2 DEF UartType, TxWrite, rxVars
  <1>3. CASE \E t \in Tasks : TxConfirmed(t)
    BY <1>3 DEF UartType, TxConfirmed, rxVars
  <1>4. CASE \E t \in Tasks : TxAnswerTimeout(t)
    BY <1>4 DEF UartType, TxAnswerTimeout, rxVars
  <1>5. CASE BoardTransmits
    <2>1. Append(line, TX) \in Seq(Token)
      BY DEF UartType, Token, TX
    <2> QED
      BY <1>5, <2>1 DEF UartType, BoardTransmits, rxVars
  <1>6. CASE BoardLoses
    BY SMTT(60), <1>6 DEF UartType, BoardLoses, rxVars
  <1>7. CASE BoardReceives
    <2>1. line' = line \o Frame(nrx + 1)
      BY <1>7 DEF BoardReceives, Frame
    <2>2. line' \in Seq(Token)
      BY <2>1, LineFrame DEF UartType
    <2> QED
      BY <1>7, <2>2 DEF UartType, BoardReceives
  <1>8. CASE \E found \in {"TX", "OK", "none"} : RxSync(found)
    <2> PICK found \in {"TX", "OK", "none"} : RxSync(found)
      BY <1>8
    <2>1. line' \in Seq(Token) /\ Head(line) \in Token
      BY LineTail DEF UartType, RxSync
    <2>2. cbuf' \in Seq(Token)
      BY <2>1 DEF RxSync
    <2>3. ans' \in BOOLEAN /\ misread' \in BOOLEAN
      BY DEF UartType, RxSync
    <2> QED
      BY <2>1, <2>2, <2>3 DEF UartType, RxSync
  <1>9. CASE \E k \in 1 .. UartLen - 1 : RxRead(k)
    <2> PICK k \in 1 .. UartLen - 1 : RxRead(k)
      BY <1>9
    <2> DEFINE buf == cbuf \o SubSeq(line, 1, k)
    <2>1. line' \in Seq(Token)
      BY LineRest DEF UartType, RxRead
    <2>2. buf \in Seq(Token)
      BY LineFront DEF UartType, RxRead
    <2>3. cbuf' \in {buf, <<>>} /\ passed' \in {passed, Append(passed, buf)}
      BY DEF RxRead, csp_i2c_uart_rx
    <2> HIDE DEF buf
    <2>4. passed \in Seq(Seq(Token)) /\ <<>> \in Seq(Token)
      BY DEF UartType
    <2>5. cbuf' \in Seq(Token)
      BY <2>2, <2>3, <2>4, Zenon
    <2>6. Append(passed, buf) \in Seq(Seq(Token))
      BY <2>2, <2>4
    <2>7. passed' \in Seq(Seq(Token))
      BY <2>3, <2>4, <2>6
    <2>8. overran' \in BOOLEAN
      BY DEF UartType, RxRead
    <2> QED
      BY <2>1, <2>5, <2>7, <2>8 DEF UartType, RxRead
  <1>10. CASE UNCHANGED uartVars
    BY <1>10 DEF UartType, uartVars, rxVars
  <1> QED
    BY <1>1, <1>2, <1>3, <1>4, <1>5, <1>6, <1>7, <1>8, <1>9, <1>10, NextCases

--------------------------------------------------------------------------------
(* Sending *)

(* The answers on the line, when something is added or taken.              *)
LEMMA TXAdded ==
    ASSUME NEW s \in Seq(Token), NoTX(s)
    PROVE  OneTX(Append(s, TX))
  <1>1. Len(Append(s, TX)) = Len(s) + 1 /\ \A i \in 1 .. Len(s) : Append(s, TX)[i] = s[i]
    OBVIOUS
  <1>2. Len(s) \in Nat
    OBVIOUS
  <1>3. \A i \in 1 .. Len(s) + 1 : Append(s, TX)[i] = TX => i = Len(s) + 1
    BY <1>1, <1>2 DEF NoTX
  <1> QED
    BY <1>1, <1>3 DEF OneTX

LEMMA TXFrame ==
    ASSUME NEW s \in Seq(Token), NEW n \in Nat, n # 0
    PROVE  (NoTX(s) <=> NoTX(s \o Frame(n))) /\ (OneTX(s) => OneTX(s \o Frame(n)))
  <1> DEFINE r == s \o Frame(n)
  <1>1. /\ Len(r) = Len(s) + UartLen
        /\ \A i \in 1 .. Len(s) : r[i] = s[i]
        /\ \A i \in Len(s) + 1 .. Len(s) + UartLen : r[i] = <<n, i - Len(s)>>
    BY LineFrame
  <1>2. Len(s) \in Nat
    OBVIOUS
  <1> HIDE DEF r
  <1>3. \A i \in 1 .. Len(r) : r[i] = TX => i \in 1 .. Len(s) /\ s[i] = TX
    BY <1>1, <1>2, UartAssumption DEF TX
  <1>4. \A i \in 1 .. Len(s) : i \in 1 .. Len(r)
    BY <1>1, <1>2, UartAssumption
  <1>5. (NoTX(s) <=> NoTX(r)) /\ (OneTX(s) => OneTX(r))
    BY <1>1, <1>3, <1>4 DEF NoTX, OneTX
  <1> QED
    BY <1>5 DEF r

LEMMA TXTail ==
    ASSUME NEW s \in Seq(Token), s # <<>>
    PROVE  /\ NoTX(s) => NoTX(Tail(s)) /\ Head(s) # TX
           /\ OneTX(s) => OneTX(Tail(s))
           /\ OneTX(s) /\ Head(s) = TX => NoTX(Tail(s))
  <1> DEFINE r == Tail(s)
  <1>1. /\ \A i \in 1 .. Len(r) : r[i] = s[i + 1] /\ i + 1 \in 1 .. Len(s)
        /\ Head(s) = s[1] /\ 1 \in 1 .. Len(s)
    BY LineTail
  <1> HIDE DEF r
  <1>2. \A i \in 1 .. Len(r) : i + 1 # 1
    OBVIOUS
  <1>3. NoTX(s) => NoTX(r) /\ Head(s) # TX
    BY <1>1 DEF NoTX
  <1>4. OneTX(s) => OneTX(r)
    <2> SUFFICES ASSUME OneTX(s), NEW i \in 1 .. Len(r), NEW j \in 1 .. Len(r), r[i] = TX, r[j] = TX
                 PROVE  i = j
      BY DEF OneTX
    <2>1. i + 1 = j + 1
      BY SMTT(60), <1>1 DEF OneTX
    <2> QED
      BY <2>1
  <1>5. OneTX(s) /\ Head(s) = TX => NoTX(r)
    BY <1>1, <1>2 DEF OneTX, NoTX
  <1> QED
    BY <1>3, <1>4, <1>5 DEF r

LEMMA TXRest ==
    ASSUME NEW s \in Seq(Token), NEW k \in Nat, k <= Len(s)
    PROVE  /\ NoTX(s) => NoTX(SubSeq(s, k + 1, Len(s)))
           /\ OneTX(s) => OneTX(SubSeq(s, k + 1, Len(s)))
  <1> DEFINE r == SubSeq(s, k + 1, Len(s))
  <1>1. \A i \in 1 .. Len(r) : r[i] = s[i + k] /\ i + k \in 1 .. Len(s)
    BY LineRest
  <1> HIDE DEF r
  <1>2. NoTX(s) => NoTX(r)
    BY <1>1 DEF NoTX
  <1>3. OneTX(s) => OneTX(r)
    <2> SUFFICES ASSUME OneTX(s), NEW i \in 1 .. Len(r), NEW j \in 1 .. Len(r), r[i] = TX, r[j] = TX
                 PROVE  i = j
      BY DEF OneTX
    <2>1. i + k = j + k
      BY <1>1 DEF OneTX
    <2> QED
      BY <2>1
  <1> QED
    BY <1>2, <1>3 DEF r

LEMMA TxStep ==
    ASSUME TxInv, [UartNext]_uartVars
    PROVE  Locked' /\ OneAnswer' /\ ConfirmedOnBus'
  <1> USE UartAssumption
  <1>1. CASE \E t \in Tasks : TxBegin(t) \/ TxLockTimeout(t)
    <2>1. Locked'
      BY <1>1 DEF TxInv, UartType, Locked, TxBegin, TxLockTimeout, rxVars
    <2> QED
      BY <1>1, <2>1 DEF TxInv, OneAnswer, ConfirmedOnBus, TxBegin, TxLockTimeout, rxVars
  <1>2. CASE \E t \in Tasks : TxWrite(t)
    <2> PICK t \in Tasks : TxWrite(t)
      BY <1>2
    <2>1. Locked'
      BY DEF TxInv, UartType, Locked, TxWrite, rxVars
    <2>2. ~late /\ ~misread => board' = <<<<t, nsent'[t]>>>> /\ lock' = t /\ NoTX(line') /\ ~ans'
      BY DEF TxInv, UartType, OneAnswer, TxWrite, rxVars
    <2>3. OneAnswer'
      BY <2>2 DEF OneAnswer, TxWrite, rxVars
    <2> QED
      BY <2>1, <2>3 DEF TxInv, ConfirmedOnBus, TxWrite, rxVars
  <1>3. CASE \E t \in Tasks : TxConfirmed(t)
    <2> PICK t \in Tasks : TxConfirmed(t)
      BY <1>3
    <2>1. lock = t
      BY DEF TxInv, Locked, TxConfirmed, rxVars
    <2>2. Locked'
      BY <2>1 DEF TxInv, UartType, Locked, TxConfirmed, rxVars
    <2>3. ~late /\ ~misread => board = <<>> /\ NoTX(line) /\ <<t, nsent[t]>> \in onbus
      BY <2>1 DEF TxInv, OneAnswer, TxConfirmed, rxVars
    <2>4. OneAnswer'
      BY <2>3 DEF OneAnswer, TxConfirmed, rxVars
    <2> QED
      BY <2>2, <2>3, <2>4 DEF TxInv, ConfirmedOnBus, TxConfirmed, rxVars
  <1>4. CASE \E t \in Tasks : TxAnswerTimeout(t)
    BY <1>4 DEF TxInv, UartType, Locked, OneAnswer, ConfirmedOnBus, TxAnswerTimeout, rxVars
  <1>5. CASE BoardTransmits
    <2>1. Locked' /\ ConfirmedOnBus'
      BY <1>5 DEF TxInv, Locked, ConfirmedOnBus, BoardTransmits, rxVars
    <2>2. ASSUME ~late, ~misread
          PROVE  OneAnswer'
      <3>1. lock # 0 /\ board = <<<<lock, nsent[lock]>>>> /\ NoTX(line) /\ ~ans
        BY <1>5, <2>2 DEF TxInv, OneAnswer, BoardTransmits, rxVars
      <3>2. board' = <<>> /\ <<lock, nsent[lock]>> \in onbus'
        BY <1>5, <3>1 DEF BoardTransmits, rxVars
      <3>3. line \in Seq(Token) /\ line' = Append(line, TX)
        BY <1>5 DEF TxInv, UartType, BoardTransmits, rxVars
      <3>4. OneTX(line')
        BY <3>1, <3>3, TXAdded
      <3> QED
        BY <1>5, <3>1, <3>2, <3>4 DEF OneAnswer, BoardTransmits, rxVars
    <2>3. late' = late /\ misread' = misread
      BY <1>5 DEF BoardTransmits, rxVars
    <2> QED
      BY <2>1, <2>2, <2>3 DEF OneAnswer
  <1>6. CASE BoardLoses
    <2>1. ~late /\ ~misread => board = <<<<lock, nsent[lock]>>>> /\ board' = <<>>
      BY SMTT(60), <1>6 DEF TxInv, OneAnswer, BoardLoses, rxVars
    <2> QED
      BY <1>6, <2>1 DEF TxInv, Locked, OneAnswer, ConfirmedOnBus, BoardLoses, rxVars
  <1>7. CASE BoardReceives
    <2>1. line' = line \o Frame(nrx + 1)
      BY <1>7 DEF BoardReceives, Frame
    <2>2. line \in Seq(Token) /\ nrx + 1 \in Nat /\ nrx + 1 # 0
      BY DEF TxInv, UartType
    <2>4. (NoTX(line) <=> NoTX(line')) /\ (OneTX(line) => OneTX(line'))
      BY <2>1, <2>2, TXFrame
    <2> QED
      BY <1>7, <2>4 DEF TxInv, Locked, OneAnswer, ConfirmedOnBus, BoardReceives
  <1>8. CASE \E found \in {"TX", "OK", "none"} : RxSync(found)
    <2> PICK found \in {"TX", "OK", "none"} : RxSync(found)
      BY <1>8
    <2>1. line \in Seq(Token) /\ line # <<>> /\ line' = Tail(line)
      BY DEF TxInv, UartType, RxSync
    <2>2. (NoTX(line) => NoTX(line') /\ Head(line) # TX) /\ (OneTX(line) => OneTX(line'))
      BY <2>1, TXTail
    <2>3. OneTX(line) /\ Head(line) = TX => NoTX(line')
      BY <2>1, TXTail
    <2>4. ~misread' => ~misread /\ (ans' <=> ans \/ Head(line) = TX)
      BY DEF RxSync, Header
    <2>5. UNCHANGED <<tx, lock, board, nsent, onbus, okd, late>>
      BY DEF RxSync
    <2>6. OneAnswer'
      BY <2>2, <2>3, <2>4, <2>5 DEF TxInv, UartType, OneAnswer
    <2> QED
      BY <2>4, <2>5, <2>6 DEF TxInv, Locked, ConfirmedOnBus
  <1>9. CASE \E k \in 1 .. UartLen - 1 : RxRead(k)
    <2> PICK k \in 1 .. UartLen - 1 : RxRead(k)
      BY <1>9
    <2>1. line \in Seq(Token) /\ k \in Nat /\ k <= Len(line) /\ line' = SubSeq(line, k + 1, Len(line))
      BY DEF TxInv, UartType, RxRead
    <2>2. (NoTX(line) => NoTX(line')) /\ (OneTX(line) => OneTX(line'))
      BY <2>1, TXRest
    <2> QED
      BY <2>2 DEF TxInv, Locked, OneAnswer, ConfirmedOnBus, RxRead
  <1>10. CASE UNCHANGED uartVars
    BY <1>10 DEF TxInv, Locked, OneAnswer, ConfirmedOnBus, uartVars, rxVars
  <1> QED
    BY <1>1, <1>2, <1>3, <1>4, <1>5, <1>6, <1>7, <1>8, <1>9, <1>10, NextCases

--------------------------------------------------------------------------------
(* Receiving *)

(* Position i of s holds piece s[i][2] of a frame; TX has piece 0. *)
Piece(s, i) == i \in 1 .. Len(s) /\ s[i][2] # 0

(* From any piece on, the rest of its frame follows without a gap; it is   *)
(* there to the end; and the frames come in order.                         *)
Whole(s) ==
    \A i \in 1 .. Len(s) : s[i][2] # 0 =>
        /\ s[i][2] <= UartLen
        /\ i + UartLen - s[i][2] <= Len(s)
        /\ \A j \in i .. i + UartLen - s[i][2] : s[j] = <<s[i][1], s[i][2] + j - i>>

InOrder(s) ==
    \A i, j \in 1 .. Len(s) : s[i][2] # 0 /\ s[j][2] # 0 /\ i < j =>
        s[i][1] < s[j][1] \/ (s[i][1] = s[j][1] /\ s[i][2] < s[j][2])

UpTo(s, n) == \A i \in 1 .. Len(s) : s[i][2] # 0 => s[i][1] <= n

After(s, n) == \A i \in 1 .. Len(s) : s[i][2] # 0 => n < s[i][1]

LineInv == Whole(line) /\ InOrder(line) /\ UpTo(line, nrx)

(* What was read since the sync are the first pieces of a frame, and the   *)
(* line goes on with the next one.                                         *)
Begun ==
    cbuf # <<>> =>
        /\ Len(cbuf) < UartLen
        /\ \A j \in 1 .. Len(cbuf) : cbuf[j] = <<cbuf[1][1], j>>
        /\ cbuf[1][1] <= nrx
        /\ line # <<>> /\ line[1] = <<cbuf[1][1], Len(cbuf) + 1>>

(* The frames passed to CSP are older than anything still to come. *)
PassedOld ==
    \A i \in 1 .. Len(passed) :
        /\ passed[i][1][1] <= nrx
        /\ After(line, passed[i][1][1])

(* RxIntact, as long as no bytes of a frame were taken for "OK".           *)
Intact ==
    /\ \A i \in DOMAIN passed :
          /\ Len(passed[i]) = UartLen
          /\ \A j \in 1 .. UartLen : passed[i][j] = <<passed[i][1][1], j>>
    /\ \A i \in 1 .. Len(passed) - 1 : passed[i][1][1] < passed[i + 1][1][1]

RxSound == UartType /\ LineInv /\ Begun /\ PassedOld /\ Intact

(* Before a piece comes the one with the number before it, so a thread     *)
(* that looks for a header between two frames finds the next one's.        *)
Starts(s) == \A i \in 2 .. Len(s) : s[i][2] > 1 => s[i - 1] = <<s[i][1], s[i][2] - 1>>

Aligned ==
    ~overran => ~misread /\ (cbuf = <<>> /\ line # <<>> => line[1][2] <= 1)

RxInv == UartType /\ LineInv /\ Starts(line) /\ Aligned /\ (~misread => RxSound)

LEMMA TokenParts ==
    ASSUME NEW s \in Seq(Token)
    PROVE  Len(s) \in Nat /\ \A i \in 1 .. Len(s) : s[i][1] \in Nat /\ s[i][2] \in Nat
  <1>1. Len(s) \in Nat /\ \A i \in 1 .. Len(s) : s[i] \in Token
    OBVIOUS
  <1> QED
    BY <1>1 DEF Token

LEMMA WholeAt ==
    ASSUME NEW s \in Seq(Token), Whole(s), NEW i \in 1 .. Len(s), s[i][2] # 0
    PROVE  /\ s[i][2] <= UartLen /\ i + UartLen - s[i][2] <= Len(s)
           /\ \A j \in i .. i + UartLen - s[i][2] :
                 j \in 1 .. Len(s) /\ s[j] = <<s[i][1], s[i][2] + j - i>>
  <1>1. /\ s[i][2] <= UartLen /\ i + UartLen - s[i][2] <= Len(s)
        /\ \A j \in i .. i + UartLen - s[i][2] : s[j] = <<s[i][1], s[i][2] + j - i>>
    BY DEF Whole
  <1>2. Len(s) \in Nat /\ s[i][2] \in Nat
    BY TokenParts
  <1>3. \A j \in i .. i + UartLen - s[i][2] : j \in 1 .. Len(s)
    BY <1>1, <1>2, UartAssumption
  <1> QED
    BY <1>1, <1>3

LEMMA WholeTX ==
    ASSUME NEW s \in Seq(Token), NEW n \in Nat, Whole(s), InOrder(s), UpTo(s, n)
    PROVE  /\ Whole(Append(s, TX)) /\ InOrder(Append(s, TX)) /\ UpTo(Append(s, TX), n)
           /\ \A m \in Nat : After(s, m) => After(Append(s, TX), m)
  <1> DEFINE r == Append(s, TX)
  <1>1. /\ Len(r) = Len(s) + 1 /\ Len(s) \in Nat
        /\ \A i \in 1 .. Len(s) : r[i] = s[i] /\ s[i] \in Token
        /\ r[Len(s) + 1] = TX
    OBVIOUS
  <1>2. \A i \in 1 .. Len(r) : r[i][2] # 0 => i \in 1 .. Len(s)
    BY <1>1 DEF TX
  <1> HIDE DEF r
  <1>3. Whole(r)
    <2> SUFFICES ASSUME NEW i \in 1 .. Len(r), r[i][2] # 0
                 PROVE  /\ r[i][2] <= UartLen
                        /\ i + UartLen - r[i][2] <= Len(r)
                        /\ \A j \in i .. i + UartLen - r[i][2] : r[j] = <<r[i][1], r[i][2] + j - i>>
      BY DEF Whole
    <2>1. i \in 1 .. Len(s) /\ r[i] = s[i] /\ s[i][2] \in Nat
      BY <1>1, <1>2, TokenParts
    <2>2. /\ s[i][2] <= UartLen /\ i + UartLen - s[i][2] <= Len(s)
          /\ \A j \in i .. i + UartLen - s[i][2] :
                j \in 1 .. Len(s) /\ s[j] = <<s[i][1], s[i][2] + j - i>>
      BY <2>1, WholeAt
    <2>3. i + UartLen - s[i][2] <= Len(r)
      BY <1>1, <2>1, <2>2, UartAssumption
    <2> QED
      BY <1>1, <2>1, <2>2, <2>3
  <1>4. InOrder(r)
    BY SMTT(60), <1>1, <1>2 DEF InOrder
  <1>5. UpTo(r, n) /\ \A m \in Nat : After(s, m) => After(r, m)
    BY <1>1, <1>2 DEF UpTo, After
  <1> QED
    BY <1>3, <1>4, <1>5 DEF r

LEMMA WholeFrame ==
    ASSUME NEW s \in Seq(Token), NEW n \in Nat, Whole(s), InOrder(s), UpTo(s, n)
    PROVE  /\ Whole(s \o Frame(n + 1)) /\ InOrder(s \o Frame(n + 1))
           /\ UpTo(s \o Frame(n + 1), n + 1)
           /\ \A m \in Nat : m <= n /\ After(s, m) => After(s \o Frame(n + 1), m)
  <1> DEFINE r == s \o Frame(n + 1)
  <1>0. n + 1 \in Nat
    OBVIOUS
  <1>1. /\ Len(r) = Len(s) + UartLen
        /\ \A i \in 1 .. Len(s) : r[i] = s[i]
        /\ \A i \in Len(s) + 1 .. Len(s) + UartLen : r[i] = <<n + 1, i - Len(s)>>
    BY <1>0, LineFrame
  <1>2. Len(s) \in Nat /\ \A i \in 1 .. Len(s) : s[i] \in Token
    OBVIOUS
  <1> HIDE DEF r
  <1>3. \A i \in 1 .. Len(r) : i \in 1 .. Len(s) \/ i \in Len(s) + 1 .. Len(s) + UartLen
    BY <1>1, <1>2, UartAssumption
  <1>4. \A i \in 1 .. Len(s) : r[i] = s[i] /\ s[i][1] \in Nat /\ s[i][2] \in Nat
    BY <1>1, <1>2 DEF Token
  <1>5. \A i \in Len(s) + 1 .. Len(s) + UartLen : r[i][1] = n + 1 /\ r[i][2] = i - Len(s)
    BY <1>1
  <1>6. Whole(r)
    <2> SUFFICES ASSUME NEW i \in 1 .. Len(r), r[i][2] # 0
                 PROVE  /\ r[i][2] <= UartLen
                        /\ i + UartLen - r[i][2] <= Len(r)
                        /\ \A j \in i .. i + UartLen - r[i][2] : r[j] = <<r[i][1], r[i][2] + j - i>>
      BY DEF Whole
    <2>1. CASE i \in 1 .. Len(s)
      <3>1. r[i] = s[i] /\ s[i][2] \in Nat
        BY <1>4, <2>1
      <3>2. /\ s[i][2] <= UartLen /\ i + UartLen - s[i][2] <= Len(s)
            /\ \A j \in i .. i + UartLen - s[i][2] :
                  j \in 1 .. Len(s) /\ s[j] = <<s[i][1], s[i][2] + j - i>>
        BY <2>1, <3>1, WholeAt
      <3>3. i + UartLen - s[i][2] <= Len(r)
        BY SMTT(60), <1>1, <1>2, <3>1, <3>2, UartAssumption
      <3> QED
        BY <1>4, <3>1, <3>2, <3>3
    <2>2. CASE i \in Len(s) + 1 .. Len(s) + UartLen
      <3>1. r[i][1] = n + 1 /\ r[i][2] = i - Len(s)
        BY <1>5, <2>2
      <3>2. \A j \in i .. i + UartLen - r[i][2] :
               j \in Len(s) + 1 .. Len(s) + UartLen /\ r[i][2] + j - i = j - Len(s)
        BY SMTT(60), <1>2, <2>2, <3>1, UartAssumption
      <3> QED
        BY <1>1, <1>2, <2>2, <3>1, <3>2, UartAssumption
    <2> QED
      BY <1>3, <2>1, <2>2
  <1>7. InOrder(r)
    <2> SUFFICES ASSUME NEW i \in 1 .. Len(r), NEW j \in 1 .. Len(r), r[i][2] # 0, r[j][2] # 0, i < j
                 PROVE  r[i][1] < r[j][1] \/ (r[i][1] = r[j][1] /\ r[i][2] < r[j][2])
      BY DEF InOrder
    <2>1. CASE j \in 1 .. Len(s)
      <3>1. i \in 1 .. Len(s)
        BY <1>2, <2>1
      <3> QED
        BY SMTT(60), <1>4, <2>1, <3>1 DEF InOrder
    <2>2. CASE j \in Len(s) + 1 .. Len(s) + UartLen
      <3>1. r[j][1] = n + 1 /\ r[j][2] = j - Len(s)
        BY <1>5, <2>2
      <3>2. CASE i \in 1 .. Len(s)
        <4>1. r[i][1] <= n /\ r[i][1] \in Nat
          BY <1>4, <3>2 DEF UpTo
        <4> QED
          BY <3>1, <4>1
      <3>3. CASE i \in Len(s) + 1 .. Len(s) + UartLen
        <4>1. r[i][1] = n + 1 /\ r[i][2] = i - Len(s)
          BY <1>5, <3>3
        <4> QED
          BY <1>2, <3>1, <4>1
      <3> QED
        BY <1>3, <3>2, <3>3
    <2> QED
      BY <1>3, <2>1, <2>2
  <1>8. UpTo(r, n + 1) /\ \A m \in Nat : m <= n /\ After(s, m) => After(r, m)
    BY SMTT(60), <1>3, <1>4, <1>5 DEF UpTo, After
  <1> QED
    BY <1>6, <1>7, <1>8 DEF r

(* Taking k from the front. *)
LEMMA WholeRest ==
    ASSUME NEW s \in Seq(Token), NEW k \in Nat, k <= Len(s), NEW n \in Nat,
           NEW r \in Seq(Token), Len(r) = Len(s) - k,
           \A i \in 1 .. Len(s) - k : r[i] = s[i + k] /\ i + k \in 1 .. Len(s),
           Whole(s), InOrder(s), UpTo(s, n)
    PROVE  /\ Whole(r) /\ InOrder(r) /\ UpTo(r, n)
           /\ \A m \in Nat : After(s, m) => After(r, m)
  <1>1. Len(s) \in Nat /\ \A i \in 1 .. Len(s) : s[i][1] \in Nat /\ s[i][2] \in Nat
    BY TokenParts
  <1>2. Whole(r)
    <2> SUFFICES ASSUME NEW i \in 1 .. Len(r), r[i][2] # 0
                 PROVE  /\ r[i][2] <= UartLen
                        /\ i + UartLen - r[i][2] <= Len(r)
                        /\ \A j \in i .. i + UartLen - r[i][2] : r[j] = <<r[i][1], r[i][2] + j - i>>
      BY DEF Whole
    <2>1. r[i] = s[i + k] /\ i + k \in 1 .. Len(s) /\ s[i + k][2] \in Nat
      BY <1>1
    <2> DEFINE p == s[i + k][2]
               last == i + UartLen - p
    <2>2. /\ p <= UartLen /\ (i + k) + UartLen - p <= Len(s)
          /\ \A j \in i + k .. (i + k) + UartLen - p : s[j] = <<s[i + k][1], p + j - (i + k)>>
      BY <2>1, WholeAt
    <2>3. r[i][2] = p /\ p \in Nat /\ r[i][1] = s[i + k][1]
      BY <2>1
    <2> HIDE DEF p
    <2>4. last <= Len(r)
      BY <1>1, <2>2, <2>3, UartAssumption
    <2>5. ASSUME NEW j \in i .. last
          PROVE  r[j] = <<r[i][1], p + j - i>>
      <3>1. j + k \in i + k .. (i + k) + UartLen - p /\ p + (j + k) - (i + k) = p + j - i
        <4>1. i \in Int /\ j \in Int /\ i <= j /\ j <= i + UartLen - p /\ p \in Int /\ UartLen \in Int
          BY <2>3, UartAssumption
        <4> QED
          BY SMTT(60), <4>1
      <3>2. j \in 1 .. Len(s) - k
        BY <1>1, <2>3, <2>4, <2>5, UartAssumption
      <3>3. r[j] = s[j + k]
        BY <3>2
      <3>4. s[j + k] = <<s[i + k][1], p + (j + k) - (i + k)>>
        BY <2>2, <3>1
      <3> QED
        BY <2>3, <3>1, <3>3, <3>4
    <2> QED
      BY <2>2, <2>3, <2>4, <2>5
  <1>3. InOrder(r)
    <2> SUFFICES ASSUME NEW i \in 1 .. Len(r), NEW j \in 1 .. Len(r), r[i][2] # 0, r[j][2] # 0, i < j
                 PROVE  r[i][1] < r[j][1] \/ (r[i][1] = r[j][1] /\ r[i][2] < r[j][2])
      BY DEF InOrder
    <2>1. r[i] = s[i + k] /\ r[j] = s[j + k] /\ i + k \in 1 .. Len(s) /\ j + k \in 1 .. Len(s)
      OBVIOUS
    <2>2. i + k < j + k
      OBVIOUS
    <2> QED
      BY SMTT(60), <2>1, <2>2 DEF InOrder
  <1>4. UpTo(r, n) /\ \A m \in Nat : After(s, m) => After(r, m)
    BY DEF UpTo, After
  <1> QED
    BY <1>2, <1>3, <1>4

(* Reading k more pieces of the frame that was begun gives its next ones.  *)
LEMMA Reads ==
    ASSUME RxSound, cbuf # <<>>, NEW k \in Nat, k <= Len(line), Len(cbuf) + k <= UartLen
    PROVE  /\ \A j \in 1 .. k : line[j] = <<cbuf[1][1], Len(cbuf) + j>>
           /\ Len(cbuf) + k < UartLen =>
                k + 1 \in 1 .. Len(line) /\ line[k + 1] = <<cbuf[1][1], Len(cbuf) + k + 1>>
  <1> DEFINE n == cbuf[1][1]
             p == Len(cbuf) + 1
  <1>1. /\ line \in Seq(Token) /\ cbuf \in Seq(Token) /\ Whole(line)
        /\ Len(cbuf) < UartLen /\ line # <<>> /\ line[1] = <<n, p>>
    BY DEF RxSound, UartType, LineInv, Begun
  <1>2. Len(cbuf) \in Nat /\ Len(line) \in Nat /\ 1 \in 1 .. Len(line)
    BY <1>1
  <1>3. line[1][1] = n /\ line[1][2] = p /\ p # 0
    BY <1>1, <1>2
  <1> HIDE DEF n
  <1>4. /\ 1 + UartLen - p <= Len(line)
        /\ \A j \in 1 .. 1 + UartLen - p : line[j] = <<n, p + j - 1>>
    <2>1. /\ 1 + UartLen - line[1][2] <= Len(line)
          /\ \A j \in 1 .. 1 + UartLen - line[1][2] : line[j] = <<line[1][1], line[1][2] + j - 1>>
      BY <1>1, <1>2, <1>3, WholeAt
    <2> QED
      BY <1>3, <2>1
  <1>5. ASSUME NEW j \in 1 .. UartLen - Len(cbuf)
        PROVE  line[j] = <<n, Len(cbuf) + j>> /\ j \in 1 .. Len(line)
    <2>1. j \in 1 .. 1 + UartLen - p /\ p + j - 1 = Len(cbuf) + j /\ j \in 1 .. Len(line)
      BY <1>2, <1>4, UartAssumption
    <2> QED
      BY <1>4, <2>1
  <1>6. \A j \in 1 .. k : j \in 1 .. UartLen - Len(cbuf)
    BY <1>2, UartAssumption
  <1>7. Len(cbuf) + k < UartLen => k + 1 \in 1 .. UartLen - Len(cbuf)
    BY <1>2, UartAssumption
  <1>8. Len(cbuf) + (k + 1) = Len(cbuf) + k + 1
    BY <1>2
  <1>9. Len(cbuf) + k < UartLen =>
            k + 1 \in 1 .. Len(line) /\ line[k + 1] = <<n, Len(cbuf) + k + 1>>
    BY <1>5, <1>7, <1>8
  <1>10. \A j \in 1 .. k : line[j] = <<n, Len(cbuf) + j>>
    BY <1>5, <1>6
  <1> QED
    BY <1>9, <1>10 DEF n

LEMMA OldNumbers == RxSound => \A i \in 1 .. Len(passed) : passed[i][1][1] \in Nat
  <1> SUFFICES ASSUME RxSound, NEW i \in 1 .. Len(passed)
               PROVE  passed[i][1][1] \in Nat
    OBVIOUS
  <1>1. passed \in Seq(Seq(Token)) /\ passed[i] \in Seq(Token)
    BY DEF RxSound, UartType
  <1>2. i \in DOMAIN passed
    BY <1>1
  <1>3. 1 \in 1 .. Len(passed[i])
    BY <1>2, UartAssumption DEF RxSound, Intact
  <1> QED
    BY <1>1, <1>3, TokenParts

LEMMA RxStep ==
    ASSUME RxSound, UartType', [UartNext]_uartVars
    PROVE  ~misread /\ ~misread' => LineInv' /\ Begun' /\ PassedOld' /\ Intact'
  <1> SUFFICES ASSUME ~misread, ~misread'
               PROVE  LineInv' /\ Begun' /\ PassedOld' /\ Intact'
    OBVIOUS
  <1> USE UartAssumption
  <1>0. /\ line \in Seq(Token) /\ nrx \in Nat /\ cbuf \in Seq(Token) /\ passed \in Seq(Seq(Token))
        /\ Whole(line) /\ InOrder(line) /\ UpTo(line, nrx)
    BY DEF RxSound, UartType, LineInv
  <1>1. CASE UNCHANGED <<line, nrx, cbuf, passed>>
    BY <1>1 DEF RxSound, LineInv, Begun, PassedOld, Intact
  <1>2. CASE BoardTransmits
    <2>1. line' = Append(line, TX) /\ UNCHANGED <<nrx, cbuf, passed>>
      BY <1>2 DEF BoardTransmits, rxVars
    <2>2. LineInv' /\ \A m \in Nat : After(line, m) => After(line', m)
      BY <1>0, <2>1, WholeTX DEF LineInv
    <2>3. line # <<>> => line' # <<>> /\ line'[1] = line[1]
      BY SMTT(60), <1>0, <2>1
    <2>4. Begun'
      BY <2>1, <2>3 DEF RxSound, Begun
    <2>5. PassedOld'
      BY <2>1, <2>2, OldNumbers DEF RxSound, PassedOld
    <2> QED
      BY <2>1, <2>2, <2>4, <2>5 DEF RxSound, Intact
  <1>3. CASE BoardReceives
    <2>1. line' = line \o Frame(nrx + 1) /\ nrx' = nrx + 1 /\ UNCHANGED <<cbuf, passed>>
      BY <1>3 DEF BoardReceives, Frame
    <2>2. LineInv' /\ \A m \in Nat : m <= nrx /\ After(line, m) => After(line', m)
      BY <1>0, <2>1, WholeFrame DEF LineInv
    <2>3. Len(line') = Len(line) + UartLen /\ \A i \in 1 .. Len(line) : line'[i] = line[i]
      <3>1. nrx + 1 \in Nat
        BY <1>0
      <3> QED
        BY <1>0, <2>1, <3>1, LineFrame
    <2>4. line # <<>> => line' # <<>> /\ line'[1] = line[1]
      <3>1. line # <<>> => 1 \in 1 .. Len(line)
        BY <1>0
      <3>2. Len(line) \in Nat /\ Len(line') # 0
        BY <1>0, <2>3
      <3> QED
        BY <2>3, <3>1, <3>2
    <2>5. Begun'
      <3>1. cbuf # <<>> => cbuf[1][1] <= nrx + 1
        <4>1. cbuf # <<>> => cbuf[1][1] \in Nat
          BY <1>0, TokenParts
        <4> QED
          BY <1>0, <4>1 DEF RxSound, Begun
      <3> QED
        BY <2>1, <2>4, <3>1 DEF RxSound, Begun
    <2>6. PassedOld'
      <3> SUFFICES ASSUME NEW i \in 1 .. Len(passed)
                   PROVE  passed[i][1][1] <= nrx + 1 /\ After(line', passed[i][1][1])
        BY <2>1 DEF PassedOld
      <3>1. passed[i][1][1] \in Nat /\ passed[i][1][1] <= nrx /\ After(line, passed[i][1][1])
        BY OldNumbers DEF RxSound, PassedOld
      <3> QED
        BY SMTT(60), <1>0, <2>2, <3>1
    <2> QED
      BY <2>1, <2>2, <2>5, <2>6 DEF RxSound, Intact
  <1>4. CASE \E found \in {"TX", "OK", "none"} : RxSync(found)
    <2> PICK found \in {"TX", "OK", "none"} : RxSync(found)
      BY <1>4
    <2>1. /\ cbuf = <<>> /\ line # <<>> /\ line' = Tail(line) /\ UNCHANGED <<nrx, passed>>
          /\ cbuf' = IF line[1][2] = 1 THEN <<line[1]>> ELSE <<>>
      <3>1. Head(line) = line[1] /\ found = Header(line[1])
        BY <1>0, LineTail DEF RxSync
      <3>2. (found = "OK") <=> (line[1][2] = 1)
        BY <3>1 DEF Header, TX
      <3> QED
        BY <3>1, <3>2 DEF RxSync
    <2>2. /\ line' \in Seq(Token) /\ Len(line') = Len(line) - 1 /\ 1 <= Len(line)
          /\ \A i \in 1 .. Len(line) - 1 : line'[i] = line[i + 1] /\ i + 1 \in 1 .. Len(line)
      BY <1>0, <2>1, LineTail
    <2>3. LineInv' /\ \A m \in Nat : After(line, m) => After(line', m)
      <3>1. 1 \in Nat
        OBVIOUS
      <3> QED
        BY <1>0, <2>1, <2>2, <3>1, WholeRest DEF LineInv
    <2>4. ASSUME line[1][2] = 1
          PROVE  Begun'
      <3>1. 1 \in 1 .. Len(line) /\ line[1][1] \in Nat /\ Len(line) \in Nat
        BY <1>0, <2>1, <2>2, TokenParts
      <3>2. /\ 1 + UartLen - line[1][2] <= Len(line)
            /\ \A j \in 1 .. 1 + UartLen - line[1][2] : line[j] = <<line[1][1], line[1][2] + j - 1>>
        <4>1. line[1][2] # 0
          BY <2>4
        <4> QED
          BY <1>0, <3>1, <4>1, WholeAt
      <3>3. UartLen <= Len(line) /\ line[1] = <<line[1][1], 1>> /\ line[2] = <<line[1][1], 2>>
        <4>1. PICK l \in Nat, n \in Nat : l = Len(line) /\ n = line[1][1]
          BY <3>1
        <4>2. PICK z : z = line
          OBVIOUS
        <4>3. UartLen <= l /\ \A j \in 1 .. UartLen : z[j] = <<n, j>>
          BY <2>4, <3>2, <4>1, <4>2
        <4>4. 1 \in 1 .. UartLen /\ 2 \in 1 .. UartLen
          OBVIOUS
        <4>5. z[1] = <<n, 1>> /\ z[2] = <<n, 2>>
          BY <4>3, <4>4
        <4> QED
          BY <4>1, <4>2, <4>3, <4>5
      <3>4. line'[1] = line[2] /\ line' # <<>>
        BY <2>2, <3>1, <3>3
      <3>5. cbuf' = <<line[1]>> /\ line[1][1] <= nrx
        BY <1>0, <2>1, <2>4, <3>1 DEF UpTo
      <3>6. Len(cbuf') = 1 /\ cbuf'[1] = line[1]
        BY <3>5
      <3> QED
        BY <2>1, <3>3, <3>4, <3>5, <3>6 DEF Begun
    <2>5. Begun'
      BY <2>1, <2>4 DEF Begun
    <2>6. PassedOld'
      BY <2>1, <2>3, OldNumbers DEF RxSound, PassedOld
    <2> QED
      BY <2>1, <2>3, <2>5, <2>6 DEF RxSound, Intact
  <1>5. CASE \E k \in 1 .. UartLen - 1 : RxRead(k)
    <2> PICK k \in 1 .. UartLen - 1 : RxRead(k)
      BY <1>5
    <2> DEFINE buf == cbuf \o SubSeq(line, 1, k)
               n == cbuf[1][1]
    <2>1. /\ cbuf # <<>> /\ k \in Nat /\ k <= Len(line) /\ nrx' = nrx
          /\ line' = SubSeq(line, k + 1, Len(line))
      BY DEF RxRead
    <2>2. /\ line' \in Seq(Token) /\ Len(line') = Len(line) - k
          /\ \A i \in 1 .. Len(line) - k : line'[i] = line[i + k] /\ i + k \in 1 .. Len(line)
      BY ZenonT(60), <1>0, <2>1, LineRest
    <2>3. LineInv' /\ \A m \in Nat : After(line, m) => After(line', m)
      <3>1. /\ Whole(line') /\ InOrder(line') /\ UpTo(line', nrx)
            /\ \A m \in Nat : After(line, m) => After(line', m)
        <4> HIDE UartAssumption
        <4>1. k \in Nat /\ k <= Len(line)
          BY <2>1
        <4> QED
          BY <1>0, <2>2, <4>1, WholeRest, Zenon
      <3> QED
        BY <2>1, <3>1 DEF LineInv
    <2>4. /\ buf \in Seq(Token) /\ Len(buf) = Len(cbuf) + k
          /\ \A i \in 1 .. Len(cbuf) : buf[i] = cbuf[i]
          /\ \A i \in 1 .. k : buf[Len(cbuf) + i] = line[i]
      BY SMTT(60), <1>0, <2>1, LineFront
    <2>5. /\ Len(cbuf) < UartLen /\ \A j \in 1 .. Len(cbuf) : cbuf[j] = <<n, j>>
          /\ n <= nrx /\ line[1] = <<n, Len(cbuf) + 1>> /\ n \in Nat
          /\ Len(cbuf) \in Nat /\ Len(line) \in Nat /\ 1 \in 1 .. Len(cbuf)
      BY SMTT(60), <1>0, <2>1, TokenParts DEF RxSound, Begun
    <2>6. IF Len(buf) < UartLen THEN cbuf' = buf /\ passed' = passed
          ELSE /\ cbuf' = <<>>
               /\ passed' = passed \/ (Len(buf) <= UartLen /\ passed' = Append(passed, buf))
      BY DEF RxRead, csp_i2c_uart_rx
    <2> HIDE DEF buf, n
    <2>7. ASSUME Len(buf) <= UartLen
          PROVE  /\ \A j \in 1 .. Len(buf) : buf[j] = <<n, j>>
                 /\ Len(buf) < UartLen => k + 1 \in 1 .. Len(line) /\ line[k + 1] = <<n, Len(buf) + 1>>
                 /\ line[k] = <<n, Len(buf)>>
      <3>1. /\ \A j \in 1 .. k : line[j] = <<n, Len(cbuf) + j>>
            /\ Len(cbuf) + k < UartLen =>
                 k + 1 \in 1 .. Len(line) /\ line[k + 1] = <<n, Len(cbuf) + k + 1>>
        BY <2>1, <2>4, <2>7, Reads DEF n
      <3>2. ASSUME NEW j \in 1 .. Len(buf)
            PROVE  buf[j] = <<n, j>>
        <4>1. CASE j \in 1 .. Len(cbuf)
          BY <2>4, <2>5, <4>1
        <4>2. CASE j \notin 1 .. Len(cbuf)
          <5>1. j - Len(cbuf) \in 1 .. k /\ Len(cbuf) + (j - Len(cbuf)) = j
            BY <2>4, <2>5, <4>2
          <5> QED
            BY ZenonT(60), <2>4, <3>1, <5>1
        <4> QED
          BY <4>1, <4>2
      <3> QED
        BY SMTT(60), <2>4, <3>1, <3>2
    <2>8. Begun'
      <3>1. CASE Len(buf) < UartLen
        <4>1. 1 \in 1 .. Len(buf) /\ buf[1] = cbuf[1]
          BY SMTT(60), <2>4, <2>5
        <4>2. cbuf' = buf /\ cbuf'[1][1] = n
          BY <2>6, <3>1, <4>1 DEF n
        <4>3. line'[1] = line[k + 1] /\ line' # <<>>
          <5>1. 1 \in 1 .. Len(line) - k /\ 1 + k = k + 1
            <6>1. Len(buf) <= UartLen
              BY <2>4, <3>1, UartAssumption
            <6>2. k + 1 \in 1 .. Len(line)
              BY <2>7, <3>1, <6>1
            <6> QED
              BY SMTT(60), <2>1, <2>5, <6>2
          <5>2. Len(line') # 0
            BY <2>2, <2>5, <5>1
          <5> QED
            BY <2>2, <5>1, <5>2
        <4>4. Len(buf) <= UartLen
          BY <2>4, <2>5, <3>1
        <4>5. \A j \in 1 .. Len(buf) : buf[j] = <<n, j>>
          BY <2>7, <4>4
        <4>6. line[k + 1] = <<n, Len(buf) + 1>>
          BY <2>7, <3>1, <4>4
        <4>7. nrx' = nrx /\ n <= nrx
          BY <2>1, <2>5
        <4> QED
          BY <3>1, <4>2, <4>3, <4>5, <4>6, <4>7 DEF Begun
      <3>2. CASE ~(Len(buf) < UartLen)
        BY <2>6, <3>2 DEF Begun
      <3> QED
        BY <3>1, <3>2
    <2>9. CASE passed' = passed
      <3>1. PassedOld'
        BY <2>1, <2>3, <2>9, OldNumbers DEF RxSound, PassedOld
      <3> QED
        BY <2>3, <2>8, <2>9, <3>1 DEF RxSound, Intact
    <2>10. CASE passed' # passed
      <3>1. /\ Len(buf) = UartLen /\ passed' = Append(passed, buf)
            /\ \A j \in 1 .. UartLen : buf[j] = <<n, j>>
            /\ line[k] = <<n, UartLen>>
        BY SMTT(60), <2>4, <2>5, <2>6, <2>7, <2>10
      <3>2. buf[1][1] = n
        BY <3>1
      <3>3. After(line', n)
        <4> SUFFICES ASSUME NEW i \in 1 .. Len(line'), line'[i][2] # 0
                     PROVE  n < line'[i][1]
          BY DEF After
        <4>1. line'[i] = line[i + k] /\ i + k \in 1 .. Len(line) /\ k \in 1 .. Len(line) /\ k < i + k
          BY SMTT(60), <2>1, <2>2, <2>5
        <4>2. line[i + k][2] <= UartLen /\ line[i + k][2] \in Nat /\ line[i + k][1] \in Nat
          BY <1>0, <4>1, WholeAt, TokenParts
        <4>3. line[k][1] = n /\ line[k][2] = UartLen /\ line[k][2] # 0 /\ line[i + k][2] # 0
          BY <3>1, <4>1
        <4>4. n < line[i + k][1] \/ (n = line[i + k][1] /\ UartLen < line[i + k][2])
          BY <1>0, <4>1, <4>3 DEF InOrder
        <4> QED
          BY SMTT(60), <4>1, <4>2, <4>4
      <3>4. \A i \in 1 .. Len(passed) : passed[i][1][1] < n
        <4>1. 1 \in 1 .. Len(line) /\ line[1][2] # 0 /\ line[1][1] = n
          BY <2>1, <2>5
        <4> QED
          BY <4>1 DEF RxSound, PassedOld, After
      <3>5. /\ Len(passed) \in Nat /\ Len(passed') = Len(passed) + 1
            /\ \A i \in 1 .. Len(passed) : passed'[i] = passed[i]
            /\ passed'[Len(passed) + 1] = buf
        BY SMTT(60), <1>0, <2>4, <3>1
      <3>6. PassedOld'
        <4> SUFFICES ASSUME NEW i \in 1 .. Len(passed) + 1
                     PROVE  passed'[i][1][1] <= nrx /\ After(line', passed'[i][1][1])
          BY <2>1, <3>5 DEF PassedOld
        <4>1. CASE i = Len(passed) + 1
          BY <2>5, <3>2, <3>3, <3>5, <4>1
        <4>2. CASE i \in 1 .. Len(passed)
          BY <2>3, <3>5, <4>2, OldNumbers DEF RxSound, PassedOld
        <4> QED
          BY <3>5, <4>1, <4>2
      <3>7. Intact'
        <4>1. ASSUME NEW i \in 1 .. Len(passed')
              PROVE  /\ Len(passed'[i]) = UartLen
                     /\ \A j \in 1 .. UartLen : passed'[i][j] = <<passed'[i][1][1], j>>
          <5>1. CASE i = Len(passed) + 1
            BY <3>1, <3>2, <3>5, <5>1
          <5>2. CASE i \in 1 .. Len(passed)
            <6>1. i \in DOMAIN passed /\ passed'[i] = passed[i]
              BY SMTT(60), <1>0, <3>5, <5>2
            <6> QED
              BY <6>1 DEF RxSound, Intact
          <5> QED
            BY <3>5, <4>1, <5>1, <5>2
        <4>2. ASSUME NEW i \in 1 .. Len(passed') - 1
              PROVE  passed'[i][1][1] < passed'[i + 1][1][1]
          <5>1. i \in 1 .. Len(passed)
            BY <3>5, <4>2
          <5>2. CASE i = Len(passed)
            BY <3>2, <3>4, <3>5, <5>1, <5>2
          <5>3. CASE i # Len(passed)
            <6>1. i \in 1 .. Len(passed) - 1 /\ i + 1 \in 1 .. Len(passed)
              BY <3>5, <5>1, <5>3
            <6> QED
              BY <3>5, <5>1, <6>1 DEF RxSound, Intact
          <5> QED
            BY <5>2, <5>3
        <4>3. DOMAIN passed' = 1 .. Len(passed')
          BY DEF UartType
        <4> QED
          BY <4>1, <4>2, <4>3 DEF Intact
      <3> QED
        BY <2>3, <2>8, <3>6, <3>7
    <2> QED
      BY <2>9, <2>10
  <1>6. CASE (\E t \in Tasks : TxBegin(t) \/ TxLockTimeout(t)) \/ BoardLoses \/ UNCHANGED uartVars
    BY <1>1, <1>6 DEF TxBegin, TxLockTimeout, BoardLoses, uartVars, rxVars
  <1>7. CASE \E t \in Tasks : TxWrite(t) \/ TxConfirmed(t) \/ TxAnswerTimeout(t)
    BY <1>1, <1>7 DEF TxWrite, TxConfirmed, TxAnswerTimeout, rxVars
  <1> QED
    BY <1>2, <1>3, <1>4, <1>5, <1>6, <1>7, NextCases

(* What is on the line, whatever the thread makes of it.                   *)
LEMMA LineStep ==
    ASSUME UartType, LineInv, Starts(line), [UartNext]_uartVars
    PROVE  LineInv' /\ Starts(line)'
  <1> USE UartAssumption
  <1>0. line \in Seq(Token) /\ nrx \in Nat /\ Whole(line) /\ InOrder(line) /\ UpTo(line, nrx)
        /\ Len(line) \in Nat
    BY DEF UartType, LineInv
  <1>1. CASE UNCHANGED <<line, nrx>>
    BY <1>1 DEF LineInv, Starts
  <1>2. CASE BoardTransmits
    <2>1. line' = Append(line, TX) /\ nrx' = nrx
      BY <1>2 DEF BoardTransmits, rxVars
    <2>2. LineInv'
      BY <1>0, <2>1, WholeTX DEF LineInv
    <2>3. /\ Len(line') = Len(line) + 1 /\ line'[Len(line) + 1] = TX
          /\ \A i \in 1 .. Len(line) : line'[i] = line[i]
      BY <1>0, <2>1
    <2>4. Starts(line')
      <3> SUFFICES ASSUME NEW i \in 2 .. Len(line) + 1, line'[i][2] > 1
                   PROVE  line'[i - 1] = <<line'[i][1], line'[i][2] - 1>>
        BY <2>3 DEF Starts
      <3>1. i # Len(line) + 1
        BY <2>3 DEF TX
      <3>2. i \in 2 .. Len(line) /\ line'[i] = line[i] /\ line'[i - 1] = line[i - 1]
        BY <1>0, <2>3, <3>1
      <3> QED BY <3>2 DEF Starts
    <2> QED BY <2>2, <2>4
  <1>3. CASE BoardReceives
    <2>0. nrx + 1 \in Nat
      BY <1>0
    <2>1. line' = line \o Frame(nrx + 1) /\ nrx' = nrx + 1
      BY <1>3 DEF BoardReceives, Frame
    <2>2. LineInv'
      BY <1>0, <2>1, WholeFrame DEF LineInv
    <2>3. /\ Len(line') = Len(line) + UartLen
          /\ \A i \in 1 .. Len(line) : line'[i] = line[i]
          /\ \A i \in Len(line) + 1 .. Len(line) + UartLen : line'[i] = <<nrx + 1, i - Len(line)>>
      BY <1>0, <2>0, <2>1, LineFrame
    <2>4. Starts(line')
      <3> SUFFICES ASSUME NEW i \in 2 .. Len(line) + UartLen, line'[i][2] > 1
                   PROVE  line'[i - 1] = <<line'[i][1], line'[i][2] - 1>>
        BY <2>3 DEF Starts
      <3>1. CASE i \in 2 .. Len(line)
        <4>1. line'[i] = line[i] /\ line'[i - 1] = line[i - 1]
          BY SMTT(60), <1>0, <2>3, <3>1
        <4> QED BY <3>1, <4>1 DEF Starts
      <3>2. CASE i > Len(line)
        <4>1. i \in Len(line) + 1 .. Len(line) + UartLen /\ line'[i] = <<nrx + 1, i - Len(line)>>
          BY <1>0, <2>3, <3>2
        <4>2. i - 1 \in Len(line) + 1 .. Len(line) + UartLen
          BY <1>0, <4>1
        <4>3. line'[i - 1] = <<nrx + 1, (i - 1) - Len(line)>>
          BY <2>3, <4>2
        <4>4. (i - 1) - Len(line) = (i - Len(line)) - 1
          BY <1>0
        <4> QED BY <4>1, <4>3, <4>4
      <3> QED BY <1>0, <3>1, <3>2
    <2> QED BY <2>2, <2>4
  <1>4. ASSUME NEW k \in Nat, 1 <= k, k <= Len(line), nrx' = nrx, line' \in Seq(Token),
               Len(line') = Len(line) - k,
               \A i \in 1 .. Len(line) - k : line'[i] = line[i + k] /\ i + k \in 1 .. Len(line)
        PROVE  LineInv' /\ Starts(line)'
    <2>1. LineInv'
      BY <1>0, <1>4, WholeRest DEF LineInv
    <2>2. Starts(line')
      <3> SUFFICES ASSUME NEW i \in 2 .. Len(line) - k, line'[i][2] > 1
                   PROVE  line'[i - 1] = <<line'[i][1], line'[i][2] - 1>>
        BY <1>4 DEF Starts
      <3>1. line'[i] = line[i + k] /\ line'[i - 1] = line[(i + k) - 1] /\ i + k \in 2 .. Len(line)
        <4>1. i \in 1 .. Len(line) - k /\ i - 1 \in 1 .. Len(line) - k /\ (i - 1) + k = (i + k) - 1
          BY <1>0, <1>4
        <4>2. i + k \in 2 .. Len(line)
          BY <1>0, <1>4
        <4> QED BY <1>4, <4>1, <4>2
      <3> QED BY <3>1 DEF Starts
    <2> QED BY <2>1, <2>2
  <1>5. CASE \E found \in {"TX", "OK", "none"} : RxSync(found)
    <2> PICK found \in {"TX", "OK", "none"} : RxSync(found)
      BY <1>5
    <2>1. line # <<>> /\ line' = Tail(line) /\ nrx' = nrx
      BY DEF RxSync
    <2>2. /\ line' \in Seq(Token) /\ Len(line') = Len(line) - 1 /\ 1 <= Len(line)
          /\ \A i \in 1 .. Len(line) - 1 : line'[i] = line[i + 1] /\ i + 1 \in 1 .. Len(line)
      BY <1>0, <2>1, LineTail
    <2> QED BY <1>4, <2>1, <2>2
  <1>6. CASE \E k \in 1 .. UartLen - 1 : RxRead(k)
    <2> PICK k \in 1 .. UartLen - 1 : RxRead(k)
      BY <1>6
    <2>1. k \in Nat /\ 1 <= k /\ k <= Len(line) /\ nrx' = nrx /\ line' = SubSeq(line, k + 1, Len(line))
      BY DEF RxRead
    <2>2. /\ line' \in Seq(Token) /\ Len(line') = Len(line) - k
          /\ \A i \in 1 .. Len(line) - k : line'[i] = line[i + k] /\ i + k \in 1 .. Len(line)
      BY <1>0, <2>1, LineRest
    <2> QED BY <1>4, <2>1, <2>2
  <1>7. CASE (\E t \in Tasks : TxBegin(t) \/ TxLockTimeout(t)) \/ BoardLoses \/ UNCHANGED uartVars
    BY <1>1, <1>7 DEF TxBegin, TxLockTimeout, BoardLoses, uartVars, rxVars
  <1>8. CASE \E t \in Tasks : TxWrite(t) \/ TxConfirmed(t) \/ TxAnswerTimeout(t)
    BY <1>1, <1>8 DEF TxWrite, TxConfirmed, TxAnswerTimeout, rxVars
  <1> QED
    BY <1>2, <1>3, <1>5, <1>6, <1>7, <1>8, NextCases

(* Until a read goes too far, the thread looks at whole headers only.      *)
LEMMA AlignStep ==
    ASSUME RxInv, [UartNext]_uartVars
    PROVE  Aligned'
  <1> SUFFICES ASSUME ~overran'
               PROVE  ~misread' /\ (cbuf' = <<>> /\ line' # <<>> => line'[1][2] <= 1)
    BY DEF Aligned
  <1> USE UartAssumption
  <1>0. /\ line \in Seq(Token) /\ cbuf \in Seq(Token) /\ Len(line) \in Nat /\ Len(cbuf) \in Nat
        /\ Whole(line) /\ Starts(line)
    BY DEF RxInv, UartType, LineInv
  <1>1. ~overran
    BY DEF UartNext, uartVars, rxVars, TxBegin, TxLockTimeout, TxWrite, TxConfirmed,
           TxAnswerTimeout, BoardTransmits, BoardLoses, BoardReceives, RxSync, RxRead
  <1>2. ~misread /\ (cbuf = <<>> /\ line # <<>> => line[1][2] <= 1)
    BY <1>1 DEF RxInv, Aligned
  <1>3. CASE UNCHANGED <<line, cbuf, misread>>
    BY <1>2, <1>3
  <1>4. CASE BoardTransmits
    <2>1. line' = Append(line, TX) /\ UNCHANGED <<cbuf, misread>>
      BY <1>4 DEF BoardTransmits, rxVars
    <2>2. line # <<>> => line'[1] = line[1]
      BY SMTT(60), <1>0, <2>1
    <2>3. line = <<>> => line'[1] = TX
      BY <2>1
    <2>4. TX[2] <= 1
      BY DEF TX
    <2> QED BY <1>2, <2>1, <2>2, <2>3, <2>4
  <1>5. CASE BoardReceives
    <2>0. nrx + 1 \in Nat
      BY DEF RxInv, UartType
    <2>1. line' = line \o Frame(nrx + 1) /\ UNCHANGED <<cbuf, misread>>
      BY <1>5 DEF BoardReceives, Frame
    <2>2. /\ Len(line') = Len(line) + UartLen
          /\ \A i \in 1 .. Len(line) : line'[i] = line[i]
          /\ \A i \in Len(line) + 1 .. Len(line) + UartLen : line'[i] = <<nrx + 1, i - Len(line)>>
      BY ZenonT(60), <1>0, <2>0, <2>1, LineFrame
    <2>3. line # <<>> => line'[1] = line[1]
      <3>1. line # <<>> => 1 \in 1 .. Len(line)
        BY <1>0
      <3> QED BY <2>2, <3>1
    <2>4. line = <<>> => line'[1] = <<nrx + 1, 1>>
      <3>1. line = <<>> => Len(line) = 0 /\ 1 \in Len(line) + 1 .. Len(line) + UartLen /\ 1 - Len(line) = 1
        OBVIOUS
      <3> QED BY <2>2, <3>1
    <2> QED BY <1>2, <2>1, <2>3, <2>4
  <1>6. CASE \E found \in {"TX", "OK", "none"} : RxSync(found)
    <2> PICK found \in {"TX", "OK", "none"} : RxSync(found)
      BY <1>6
    <2>1. line # <<>> /\ line' = Tail(line) /\ cbuf = <<>> /\ Head(line) = line[1]
      BY <1>0, LineTail DEF RxSync
    <2>2. line[1][2] <= 1 /\ line[1][2] \in Nat /\ 1 \in 1 .. Len(line)
      <3>1. 1 \in 1 .. Len(line)
        BY <1>0, <2>1
      <3> QED BY <1>0, <1>2, <2>1, <3>1, TokenParts
    <2>3. found = Header(line[1]) /\ ~misread'
      <3>1. ~(line[1][2] > 1)
        BY <2>2
      <3> QED BY <1>2, <2>1, <3>1 DEF RxSync
    <2>4. ASSUME cbuf' = <<>>, line' # <<>>
          PROVE  line'[1][2] <= 1
      <3>1. found # "OK"
        BY <2>4 DEF RxSync
      <3>2. line[1][2] = 0
        <4>1. line[1][2] # 1
          BY <2>3, <3>1 DEF Header, TX
        <4> QED BY <2>2, <4>1
      <3>3. Len(line) >= 2 /\ line'[1] = line[2]
        BY <1>0, <2>1, <2>4
      <3>4. 2 \in 1 .. Len(line) /\ 2 \in 2 .. Len(line) /\ 2 - 1 = 1
        BY <1>0, <3>3
      <3>5. line[2][2] \in Nat
        BY <1>0, <3>4, TokenParts
      <3>6. line[2][2] > 1 => line[1] = <<line[2][1], line[2][2] - 1>>
        BY <1>0, <3>4 DEF Starts
      <3>7. line[2][2] > 1 => line[1][2] = line[2][2] - 1
        BY <3>6
      <3> QED BY <3>2, <3>3, <3>5, <3>7
    <2> QED BY <2>3, <2>4
  <1>7. CASE \E k \in 1 .. UartLen - 1 : RxRead(k)
    <2> PICK k \in 1 .. UartLen - 1 : RxRead(k)
      BY <1>7
    <2> DEFINE buf == cbuf \o SubSeq(line, 1, k)
    <2>1. /\ cbuf # <<>> /\ k \in Nat /\ k >= 1 /\ k <= Len(line) /\ misread' = misread
          /\ line' = SubSeq(line, k + 1, Len(line)) /\ Len(cbuf) + k <= UartLen
      <3>1. overran' = (overran \/ Len(cbuf) + k > UartLen)
        BY DEF RxRead
      <3>2. ~(Len(cbuf) + k > UartLen)
        BY <3>1, Zenon
      <3>3. /\ cbuf # <<>> /\ k <= Len(line) /\ misread' = misread
            /\ line' = SubSeq(line, k + 1, Len(line))
        BY DEF RxRead
      <3> QED BY <1>0, <3>2, <3>3
    <2>2. RxSound
      BY <1>2 DEF RxInv
    <2>3. \A j \in 1 .. k : line[j] = <<cbuf[1][1], Len(cbuf) + j>>
      BY <2>1, <2>2, Reads
    <2>4. Len(buf) = Len(cbuf) + k
      BY <1>0, <2>1, LineFront
    <2>5. ASSUME cbuf' = <<>>, line' # <<>>
          PROVE  line'[1][2] <= 1
      <3>1. Len(cbuf) + k = UartLen
        <4>1. Len(buf) < UartLen => cbuf' = buf
          BY DEF RxRead
        <4>2. buf # <<>>
          BY <1>0, <2>1, <2>4
        <4>3. ~(Len(buf) < UartLen)
          BY <2>5, <4>1, <4>2
        <4> QED BY SMTT(60), <1>0, <2>1, <2>4, <4>3
      <3>2. line[k][2] = UartLen
        <4>1. k \in 1 .. k
          BY <2>1
        <4>2. line[k] = <<cbuf[1][1], UartLen>>
          BY <2>3, <3>1, <4>1
        <4> QED BY <4>2
      <3>3. k + 1 \in 1 .. Len(line) /\ k + 1 \in 2 .. Len(line) /\ line'[1] = line[k + 1] /\ (k + 1) - 1 = k
        <4>1. Len(line') = Len(line) - k
          BY <1>0, <2>1, LineRest
        <4>2. k < Len(line)
          BY <1>0, <2>1, <2>5, <4>1
        <4>3. 1 \in 1 .. Len(line) - k
          BY <1>0, <2>1, <4>2
        <4> QED BY SMTT(60), <1>0, <2>1, <4>2, <4>3, LineRest
      <3>4. line[k + 1][2] \in Nat /\ (line[k + 1][2] # 0 => line[k + 1][2] <= UartLen)
        BY <1>0, <3>3, TokenParts, WholeAt
      <3>5. line[k + 1][2] > 1 => line[k][2] = line[k + 1][2] - 1
        <4>1. line[k + 1][2] > 1 => line[k] = <<line[k + 1][1], line[k + 1][2] - 1>>
          BY <1>0, <3>3 DEF Starts
        <4> QED BY <4>1
      <3> QED BY <3>2, <3>3, <3>4, <3>5
    <2> QED BY <1>2, <2>1, <2>5
  <1>8. CASE (\E t \in Tasks : TxBegin(t) \/ TxLockTimeout(t)) \/ BoardLoses \/ UNCHANGED uartVars
    BY <1>3, <1>8 DEF TxBegin, TxLockTimeout, BoardLoses, uartVars, rxVars
  <1>9. CASE \E t \in Tasks : TxWrite(t) \/ TxConfirmed(t) \/ TxAnswerTimeout(t)
    BY <1>3, <1>9 DEF TxWrite, TxConfirmed, TxAnswerTimeout, rxVars
  <1> QED
    BY <1>4, <1>5, <1>6, <1>7, <1>8, <1>9, NextCases

--------------------------------------------------------------------------------
UartInv == TxInv /\ RxInv

LEMMA UartInvInit == UartInit => UartInv
  <1> SUFFICES ASSUME UartInit
               PROVE  UartInv
    OBVIOUS
  <1> USE UartAssumption DEF UartInit
  <1>1. UartType
    <2>1. <<>> \in Seq(Tasks \X Nat) /\ <<>> \in Seq(Token) /\ <<>> \in Seq(Seq(Token))
      OBVIOUS
    <2>2. tx \in [Tasks -> {"idle", "lock", "answer"}] /\ nsent \in [Tasks -> Nat]
      OBVIOUS
    <2> QED
      BY <2>1, <2>2 DEF UartType
  <1>2. Locked /\ OneAnswer /\ ConfirmedOnBus
    BY DEF Locked, OneAnswer, NoTX, ConfirmedOnBus
  <1>3. LineInv /\ Begun /\ PassedOld /\ Intact /\ Starts(line) /\ Aligned
    BY DEF LineInv, Whole, InOrder, UpTo, Begun, PassedOld, Intact, Starts, Aligned
  <1> QED
    BY <1>1, <1>2, <1>3 DEF UartInv, TxInv, RxInv, RxSound

LEMMA UartInvNext == UartInv /\ [UartNext]_uartVars => UartInv'
  <1> SUFFICES ASSUME UartInv, [UartNext]_uartVars
               PROVE  UartInv'
    OBVIOUS
  <1>1. UartType'
    BY TypeStep DEF UartInv, TxInv
  <1>2. Locked' /\ OneAnswer' /\ ConfirmedOnBus'
    BY TxStep DEF UartInv
  <1>3. LineInv' /\ Starts(line)' /\ Aligned'
    BY LineStep, AlignStep DEF UartInv, RxInv
  <1>4. ~misread' => ~misread
    BY DEF UartNext, uartVars, rxVars, TxBegin, TxLockTimeout, TxWrite, TxConfirmed,
           TxAnswerTimeout, BoardTransmits, BoardLoses, BoardReceives, RxSync, RxRead
  <1>5. ~misread' => RxSound'
    <2>1. ~misread => RxSound
      BY DEF UartInv, RxInv
    <2> QED BY <1>1, <1>4, <2>1, RxStep DEF RxSound
  <1> QED
    BY <1>1, <1>2, <1>3, <1>5 DEF UartInv, TxInv, RxInv

(* csp_if_i2c_uart.c:46-161, i2c_usart_linux.c:152-198: for any number of  *)
(* tasks, any length of a frame, any bytes in it and any cuts of the line, *)
(* a packet reported as sent is on the bus and what is passed to CSP are   *)
(* whole frames, in the order of the bus, as long as no task gave up       *)
(* waiting (sending) and no bytes of a frame were taken for "TX" or "OK"   *)
(* (both); and they are only after a read went past the end of its frame.  *)
THEOREM BusCorrect == UartSpec => []BusKept
  <1>1. UartInv => BusKept
    BY DEF UartInv, TxInv, RxInv, RxSound, Intact, RxIntact, Aligned, InStep, BusKept
  <1> QED
    BY <1>1, UartInvInit, UartInvNext, PTL DEF UartSpec

--------------------------------------------------------------------------------
(* CommandRepo: a lookup while commands are registered and freed *)

RepoNames ==
    {"unset", "null", "freed", "obc_exit", "obc_reset_wdt", "com_send_cmd",
     "obc_get_sensors", "obc_update_status"}
AskedNames ==
    {"obc_exit", "obc_reset_wdt", "com_send_cmd", "", "obc_get_sensors", "obc_update_status", "null"}
ClientStates ==
    [pc : {"wait", "compare", "copy", "end"}, name : AskedNames, i : Entries, before : SUBSET RepoNames,
     got : RepoNames \cup {"", "NULL"}, lookups : Nat, freed : BOOLEAN]
EarlyStages == {"core", "null", "restore"}

RepoType ==
    /\ cmd_list \in [Entries -> RepoNames] /\ cmd_index \in 0 .. MaxEntries
    /\ boot \in (EarlyStages \cup {"app", "done", "crashed"}) \X Int
    /\ client \in [Clients -> ClientStates] /\ closing \in Int

(* Where the next commands go there is none yet.                           *)
RoomInv == closing < MaxEntries =>
    \A i \in Entries : i >= cmd_index => cmd_list[i] \in {"null", "unset", "freed"}

(* Whatever is not registered is "null" once the array has been filled,    *)
(* and until then only the watchdog asks.                                  *)
StageInv ==
    /\ boot[1] \in {"core", "app"} => boot[2] >= 1
    /\ boot[1] = "null" => /\ boot[2] \in 0 .. cmd_index
                           /\ \A i \in boot[2] .. cmd_index - 1 : cmd_list[i] = "null"
    /\ boot[1] = "restore" => /\ boot[2] \in 0 .. MaxEntries
                              /\ \A i \in Entries : i >= boot[2] => cmd_list[i] = "null"
    /\ boot[1] \in EarlyStages =>
           /\ closing = -1 /\ execq \in Seq({"obc_reset_wdt"})
           /\ \A c \in Clients : client[c].pc = "wait" \/ client[c].name = "obc_reset_wdt"

CleanInv == closing = -1 => /\ \A i \in Entries : cmd_list[i] # "freed"
                            /\ \A c \in Clients : ~client[c].freed

(* A client that looks for a name registered before it began has it ahead, *)
(* or an entry that was freed; one that found it has it still when it      *)
(* copies the entry, or finds it freed.                                    *)
SearchInv(k, list, n, cl) ==
    ~k.freed /\ k.name # "null" =>
        /\ cl < MaxEntries /\ k.pc = "compare" /\ k.name \in k.before =>
               \E j \in Entries : k.i <= j /\ j < n /\ list[j] \in {k.name, "freed"}
        /\ cl < MaxEntries /\ k.pc = "copy" => k.i < n /\ list[k.i] \in {k.name, "freed"}
        /\ k.pc = "end" => k.got = k.name \/ (k.got = "NULL" /\ k.name \notin k.before)

LookupInv == \A c \in Clients : SearchInv(client[c], cmd_list, cmd_index, closing)

RepoInv == RepoType /\ RoomInv /\ StageInv /\ CleanInv /\ LookupInv

LEMMA RepoInvInit == RepoInit => RepoInv
  <1>1. SUFFICES ASSUME RepoInit PROVE RepoInv
    OBVIOUS
  <1>2. /\ cmd_list = [i \in Entries |-> "unset"] /\ cmd_index = 0 /\ boot = <<"core", 1>>
        /\ closing = -1 /\ execq = <<>> /\ client = [c \in Clients |-> Waiting(0)]
    BY <1>1 DEF RepoInit
  <1>3. 0 \in Entries /\ Waiting(0) \in ClientStates /\ Waiting(0).pc = "wait" /\ ~Waiting(0).freed
    BY CommandRepoAssumption DEF Entries, Waiting, ClientStates, AskedNames, RepoNames
  <1>4. RepoType
    <2>1. cmd_list \in [Entries -> RepoNames]
      BY <1>2 DEF RepoNames
    <2>2. cmd_index \in 0 .. MaxEntries
      BY <1>2, CommandRepoAssumption
    <2> QED
      BY <1>2, <1>3, <2>1, <2>2 DEF RepoType, EarlyStages
  <1>5. boot[1] = "core" /\ boot[2] = 1
    BY <1>2
  <1>6. StageInv
    BY <1>2, <1>3, <1>5 DEF StageInv
  <1>7. LookupInv
    BY <1>2, <1>3 DEF LookupInv, SearchInv
  <1>8. RoomInv /\ CleanInv
    BY <1>2, <1>3 DEF RoomInv, CleanInv
  <1> QED
    BY <1>4, <1>6, <1>7, <1>8 DEF RepoInv

(* What cmd_add does, as an array and a number. *)
LEMMA AddFacts ==
    ASSUME RepoType, NEW name \in RepoNames, cmd_add(name)
    PROVE  /\ cmd_list' \in [Entries -> RepoNames] /\ cmd_index' \in 0 .. MaxEntries
           /\ cmd_index <= cmd_index' /\ cmd_index' <= cmd_index + 1
           /\ cmd_index < MaxEntries => cmd_index' = cmd_index + 1 /\ cmd_list'[cmd_index] = name
           /\ cmd_index >= MaxEntries => cmd_index' = cmd_index /\ cmd_list' = cmd_list
           /\ \A i \in Entries : i # cmd_index => cmd_list'[i] = cmd_list[i]
           /\ \A i \in Entries : cmd_list'[i] \in {cmd_list[i], name}
  <1>1. cmd_list \in [Entries -> RepoNames] /\ cmd_index \in 0 .. MaxEntries /\ MaxEntries \in Nat
    BY CommandRepoAssumption DEF RepoType
  <1>2. CASE cmd_index < MaxEntries
    <2>1. cmd_list' = [cmd_list EXCEPT ![cmd_index] = name] /\ cmd_index' = cmd_index + 1
      BY <1>2 DEF cmd_add
    <2>2. cmd_index \in Entries
      BY <1>1, <1>2 DEF Entries
    <2> QED
      BY <1>1, <1>2, <2>1, <2>2
  <1>3. CASE ~(cmd_index < MaxEntries)
    BY <1>1, <1>3 DEF cmd_add
  <1> QED
    BY <1>2, <1>3

LEMMA ListNames ==
    /\ Len(Core) = 3 /\ \A i \in 1 .. 3 : Core[i] \in RepoNames \ {"freed"}
    /\ Len(cmd_app_init) = 2 /\ \A i \in 1 .. 2 : cmd_app_init[i] \in RepoNames \ {"freed"}
  <1>1. PICK S : S = RepoNames \ {"freed"}
    OBVIOUS
  <1>2. "obc_exit" \in S /\ "obc_reset_wdt" \in S /\ "com_send_cmd" \in S
    BY <1>1 DEF RepoNames
  <1>3. <<"obc_exit", "obc_reset_wdt">> \in Seq(S) /\ <<"com_send_cmd">> \in Seq(S)
    BY <1>2
  <1>4. Core \in Seq(S) /\ Len(Core) = 3
    BY <1>3 DEF Core, cmd_obc_init, cmd_com_init
  <1>5. \A i \in 1 .. 3 : Core[i] \in S
    <2>1. PICK s \in Seq(S) : s = Core /\ Len(s) = 3
      BY <1>4
    <2>2. \A i \in 1 .. 3 : s[i] \in S
      BY SMTT(60), <2>1
    <2> QED
      BY <2>1, <2>2
  <1>6. Len(cmd_app_init) = 2 /\ \A i \in 1 .. 2 : cmd_app_init[i] \in RepoNames \ {"freed"}
    BY DEF RepoNames, cmd_app_init
  <1> QED
    BY <1>1, <1>4, <1>5, <1>6

(* The stage of the boot and its number. *)
LEMMA BootParts ==
    ASSUME RepoType
    PROVE  /\ boot = <<boot[1], boot[2]>> /\ boot[2] \in Int
           /\ boot[1] \in EarlyStages \cup {"app", "done", "crashed"}
  BY DEF RepoType, EarlyStages

(* A lookup is as good as before when the entries registered stay, or are  *)
(* freed.                                                                  *)
LEMMA SearchKept ==
    ASSUME NEW k \in ClientStates, NEW list, NEW list2, NEW n, NEW n2,
           NEW cl, NEW cl2,
           SearchInv(k, list, n, cl),
           cl2 < MaxEntries => cl < MaxEntries /\ \A j \in Entries : j < n /\ list[j] # "null" =>
                                j < n2 /\ list2[j] \in {list[j], "freed"}
    PROVE  SearchInv(k, list2, n2, cl2)
  <1>1. k.i \in Entries
    BY DEF ClientStates
  <1> QED
    BY <1>1 DEF SearchInv

LEMMA LookupKept ==
    ASSUME RepoInv, RepoType', UNCHANGED client,
           closing' < MaxEntries =>
               closing < MaxEntries /\ \A j \in Entries : j < cmd_index /\ cmd_list[j] # "null" =>
                                           j < cmd_index' /\ cmd_list'[j] \in {cmd_list[j], "freed"}
    PROVE  LookupInv'
  <1>1. SUFFICES ASSUME NEW c \in Clients
                 PROVE  SearchInv(client[c], cmd_list', cmd_index', closing')
    BY DEF LookupInv
  <1>2. client[c] \in ClientStates
    BY DEF RepoInv, RepoType
  <1>3. SearchInv(client[c], cmd_list, cmd_index, closing)
    BY DEF RepoInv, LookupInv
  <1>4. PICK o : o = closing
    OBVIOUS
  <1>5. PICK o2 : o2 = closing'
    OBVIOUS
  <1>6. PICK k \in ClientStates : k = client[c]
    BY <1>2
  <1>10. PICK l : l = cmd_list
    OBVIOUS
  <1>11. PICK n : n = cmd_index
    OBVIOUS
  <1>12. PICK l2 : l2 = cmd_list'
    OBVIOUS
  <1>13. PICK n2 : n2 = cmd_index'
    OBVIOUS
  <1>7. SearchInv(k, l, n, o)
    BY <1>3, <1>4, <1>6, <1>10, <1>11
  <1>8. o2 < MaxEntries => o < MaxEntries /\ \A j \in Entries : j < n /\ l[j] # "null" => j < n2 /\ l2[j] \in {l[j], "freed"}
    BY <1>4, <1>5, <1>10, <1>11, <1>12, <1>13
  <1>9. SearchInv(k, l2, n2, o2)
    BY <1>7, <1>8, SearchKept
  <1> QED
    BY <1>5, <1>6, <1>9, <1>12, <1>13

(* A command registered keeps the lookups, and the room behind it.         *)
LEMMA AddKeeps ==
    ASSUME RepoInv, NEW name \in RepoNames \ {"freed"}, cmd_add(name), RepoType',
           UNCHANGED <<client, closing>>
    PROVE  RoomInv' /\ CleanInv' /\ LookupInv'
  <1>1. RepoType /\ RoomInv /\ CleanInv
    BY DEF RepoInv
  <1>2. MaxEntries \in Nat /\ cmd_index \in 0 .. MaxEntries /\ cmd_index \in Int
    BY <1>1, CommandRepoAssumption DEF RepoType
  <1>3. /\ cmd_list' \in [Entries -> RepoNames] /\ cmd_index' \in 0 .. MaxEntries
        /\ cmd_index <= cmd_index' /\ cmd_index' <= cmd_index + 1
        /\ cmd_index < MaxEntries => cmd_index' = cmd_index + 1 /\ cmd_list'[cmd_index] = name
        /\ cmd_index >= MaxEntries => cmd_index' = cmd_index /\ cmd_list' = cmd_list
        /\ \A i \in Entries : i # cmd_index => cmd_list'[i] = cmd_list[i]
        /\ \A i \in Entries : cmd_list'[i] \in {cmd_list[i], name}
    BY <1>1, AddFacts
  <1>4. \A i \in Entries : i >= cmd_index' => i >= cmd_index /\ i # cmd_index
    BY <1>2, <1>3 DEF Entries
  <1>5. \A i \in Entries : i < cmd_index => i < cmd_index' /\ i # cmd_index
    BY <1>2, <1>3 DEF Entries
  <1>6. RoomInv'
    BY <1>1, <1>3, <1>4 DEF RoomInv
  <1>7. CleanInv'
    BY <1>1, <1>3 DEF CleanInv
  <1>8. LookupInv'
    BY <1>3, <1>5, LookupKept
  <1> QED
    BY <1>6, <1>7, <1>8

LEMMA CoreStep ==
    ASSUME RepoInv, RegisterCore
    PROVE  RepoInv'
  <1>1. RepoType /\ StageInv /\ RoomInv /\ CleanInv /\ LookupInv
    BY DEF RepoInv
  <1>2. /\ boot[1] = "core" /\ UNCHANGED <<client, execq, closing>>
    BY DEF RegisterCore
  <1>3. /\ boot[2] \in Int /\ boot[2] >= 1 /\ closing = -1 /\ execq \in Seq({"obc_reset_wdt"})
        /\ \A c \in Clients : client[c].pc = "wait" \/ client[c].name = "obc_reset_wdt"
    BY <1>1, <1>2, BootParts DEF StageInv, EarlyStages
  <1>5. CASE boot[2] <= Len(Core)
    <2>1. PICK name \in RepoNames \ {"freed"} : name = Core[boot[2]]
      BY <1>3, <1>5, ListNames
    <2>2. cmd_add(name) /\ boot' = <<"core", boot[2] + 1>>
      BY <1>5, <2>1 DEF RegisterCore
    <2>3. RepoType'
      BY <1>1, <1>2, <1>3, <2>2, AddFacts DEF RepoType, EarlyStages
    <2>4. boot'[1] = "core" /\ boot'[2] >= 1
      BY <1>3, <2>2
    <2>5. RoomInv' /\ CleanInv' /\ LookupInv'
      BY <1>2, <2>2, <2>3, AddKeeps
    <2>6. StageInv'
      BY <1>2, <1>3, <2>4 DEF StageInv
    <2> QED
      BY <2>3, <2>5, <2>6 DEF RepoInv
  <1>6. CASE ~(boot[2] <= Len(Core))
    <2>1. boot' = <<"null", cmd_index>> /\ UNCHANGED <<cmd_list, cmd_index>>
      BY <1>6 DEF RegisterCore
    <2>2. cmd_index \in 0 .. MaxEntries /\ cmd_index \in Int
      BY <1>1 DEF RepoType
    <2>3. RepoType'
      BY <1>1, <1>2, <2>1, <2>2 DEF RepoType, EarlyStages
    <2>4. boot'[1] = "null" /\ boot'[2] = cmd_index
      BY <2>1
    <2>5. StageInv'
      BY <1>1, <1>2, <1>3, <2>1, <2>2, <2>4 DEF StageInv
    <2>6. RoomInv' /\ CleanInv' /\ LookupInv'
      BY <1>1, <1>2, <2>1 DEF RoomInv, CleanInv, LookupInv
    <2> QED
      BY <2>3, <2>5, <2>6 DEF RepoInv
  <1> QED
    BY <1>5, <1>6

LEMMA FillStep ==
    ASSUME RepoInv, FillNull
    PROVE  RepoInv'
  <1>1. RepoType /\ StageInv /\ RoomInv /\ CleanInv
    BY DEF RepoInv
  <1>2. /\ boot[1] = "null" /\ cmd_add("null") /\ UNCHANGED <<client, execq, closing>>
        /\ \/ boot' = boot
           \/ cmd_index < MaxEntries /\ cmd_index + 1 >= MaxEntries /\ boot' = <<"restore", boot[2]>>
    <2>1. cmd_index \in 0 .. MaxEntries /\ MaxEntries \in Nat
      BY <1>1, CommandRepoAssumption DEF RepoType
    <2> QED
      BY <2>1 DEF FillNull
  <1>3. /\ boot[2] \in 0 .. cmd_index /\ \A i \in boot[2] .. cmd_index - 1 : cmd_list[i] = "null"
        /\ closing = -1 /\ execq \in Seq({"obc_reset_wdt"})
        /\ \A c \in Clients : client[c].pc = "wait" \/ client[c].name = "obc_reset_wdt"
    BY <1>1, <1>2 DEF StageInv, EarlyStages
  <1>5. cmd_index \in 0 .. MaxEntries /\ MaxEntries \in Nat /\ cmd_index \in Int /\ boot[2] \in Int
    BY <1>1, <1>3, CommandRepoAssumption DEF RepoType
  <1>4. "null" \in RepoNames \ {"freed"}
    BY DEF RepoNames
  <1>6. /\ cmd_list' \in [Entries -> RepoNames] /\ cmd_index' \in 0 .. MaxEntries
        /\ cmd_index <= cmd_index' /\ cmd_index' <= cmd_index + 1
        /\ cmd_index < MaxEntries => cmd_index' = cmd_index + 1 /\ cmd_list'[cmd_index] = "null"
        /\ cmd_index >= MaxEntries => cmd_index' = cmd_index /\ cmd_list' = cmd_list
        /\ \A i \in Entries : i # cmd_index => cmd_list'[i] = cmd_list[i]
        /\ \A i \in Entries : cmd_list'[i] \in {cmd_list[i], "null"}
    BY <1>1, <1>2, <1>4, AddFacts
  <1>7. \A i \in boot[2] .. cmd_index' - 1 : cmd_list'[i] = "null"
    <2>1. PICK m \in Int, n \in Int, o \in Int : m = boot[2] /\ n = cmd_index /\ o = cmd_index'
      BY <1>5, <1>6
    <2>2. 0 <= m /\ m <= n /\ n <= o /\ o <= n + 1 /\ o <= MaxEntries /\ o \in 0 .. MaxEntries
      BY <1>3, <1>5, <1>6, <2>1
    <2>3. SUFFICES ASSUME NEW i \in m .. o - 1
                   PROVE  cmd_list'[i] = "null"
      BY <2>1
    <2>4. i \in Entries
      BY <1>5, <2>2, <2>3 DEF Entries
    <2>5. CASE i = n
      <3>1. n < MaxEntries
        BY <1>5, <2>2, <2>3, <2>5
      <3> QED
        BY <1>6, <2>1, <2>5, <3>1
    <2>6. CASE i # n
      <3>1. i \in m .. n - 1
        BY <2>2, <2>3, <2>6
      <3> QED
        BY <1>3, <1>6, <2>1, <2>4, <2>6, <3>1
    <2> QED
      BY <2>5, <2>6
  <1>9. CASE boot' = boot
    <2>1. RepoType'
      BY <1>1, <1>2, <1>6, <1>9 DEF RepoType
    <2>2. boot'[1] = "null" /\ boot'[2] \in 0 .. cmd_index'
      BY <1>2, <1>3, <1>5, <1>6, <1>9
    <2>3. \A i \in boot'[2] .. cmd_index' - 1 : cmd_list'[i] = "null"
      BY <1>7, <1>9
    <2>6. StageInv'
      BY <1>2, <1>3, <2>2, <2>3 DEF StageInv
    <2>7. RoomInv' /\ CleanInv' /\ LookupInv'
      BY <1>2, <1>4, <2>1, AddKeeps
    <2> QED
      BY <2>1, <2>6, <2>7 DEF RepoInv
  <1>10. CASE cmd_index < MaxEntries /\ cmd_index + 1 >= MaxEntries /\ boot' = <<"restore", boot[2]>>
    <2>1. RepoType'
      BY <1>1, <1>2, <1>5, <1>6, <1>10 DEF RepoType, EarlyStages
    <2>2. boot'[1] = "restore" /\ boot'[2] = boot[2]
      BY <1>10
    <2>3. cmd_index' = MaxEntries
      BY <1>5, <1>6, <1>10
    <2>4. \A i \in Entries : i >= boot[2] => cmd_list'[i] = "null"
      BY <1>5, <1>7, <2>3 DEF Entries
    <2>5. boot[2] \in 0 .. MaxEntries
      BY <1>3, <1>5
    <2>6. StageInv'
      BY <1>2, <1>3, <2>2, <2>4, <2>5 DEF StageInv
    <2>7. RoomInv' /\ CleanInv' /\ LookupInv'
      BY <1>2, <1>4, <2>1, AddKeeps
    <2> QED
      BY <2>1, <2>6, <2>7 DEF RepoInv
  <1> QED
    BY <1>2, <1>9, <1>10

LEMMA CreateStep ==
    ASSUME RepoInv, init_create_task
    PROVE  RepoInv'
  <1>1. RepoType /\ StageInv /\ RoomInv /\ CleanInv
    BY DEF RepoInv
  <1>2. /\ boot[1] = "restore" /\ cmd_index' = boot[2] /\ boot' = <<"app", 1>>
        /\ UNCHANGED <<cmd_list, client, execq, closing>>
    BY DEF init_create_task
  <1>3. /\ boot[2] \in 0 .. MaxEntries /\ \A i \in Entries : i >= boot[2] => cmd_list[i] = "null"
        /\ closing = -1
    BY <1>1, <1>2 DEF StageInv, EarlyStages
  <1>4. RepoType'
    BY <1>1, <1>2, <1>3 DEF RepoType
  <1>5. boot'[1] = "app" /\ boot'[2] = 1
    BY <1>2
  <1>6. StageInv'
    BY <1>5 DEF StageInv, EarlyStages
  <1>7. RoomInv' /\ CleanInv'
    BY <1>1, <1>2, <1>3 DEF RoomInv, CleanInv
  <1>8. \A j \in Entries : cmd_list[j] # "null" => j < boot[2]
    BY <1>3 DEF Entries
  <1>9. LookupInv'
    BY <1>2, <1>4, <1>8, LookupKept
  <1> QED
    BY <1>4, <1>6, <1>7, <1>9 DEF RepoInv

(* initAppHook registers while the clients look names up: what they found, *)
(* or have ahead of them, is below cmd_index and stays.                    *)
LEMMA HookStep ==
    ASSUME RepoInv, initAppHook
    PROVE  RepoInv'
  <1>1. RepoType /\ StageInv /\ RoomInv /\ CleanInv /\ LookupInv
    BY DEF RepoInv
  <1>2. boot[1] = "app" /\ UNCHANGED <<client, execq, closing>>
    BY DEF initAppHook
  <1>3. boot[2] \in Int /\ boot[2] >= 1
    BY <1>1, <1>2, BootParts DEF StageInv
  <1>4. CASE boot[2] <= Len(cmd_app_init)
    <2>1. PICK name \in RepoNames \ {"freed"} : name = cmd_app_init[boot[2]]
      BY <1>3, <1>4, ListNames
    <2>2. cmd_add(name) /\ boot' = <<"app", boot[2] + 1>>
      BY <1>4, <2>1 DEF initAppHook
    <2>3. boot'[1] = "app" /\ boot'[2] >= 1
      BY <1>3, <2>2
    <2>5. RepoType'
      BY <1>1, <1>2, <1>3, <2>2, AddFacts DEF RepoType
    <2>6. StageInv'
      BY <2>3 DEF StageInv, EarlyStages
    <2>7. RoomInv' /\ CleanInv' /\ LookupInv'
      BY <1>2, <2>2, <2>5, AddKeeps
    <2> QED
      BY <2>5, <2>6, <2>7 DEF RepoInv
  <1>5. CASE ~(boot[2] <= Len(cmd_app_init))
    <2>1. boot' = <<"done", 0>> /\ UNCHANGED <<cmd_list, cmd_index>>
      BY <1>5 DEF initAppHook
    <2>2. RepoType'
      BY <1>1, <1>2, <2>1 DEF RepoType
    <2>3. boot'[1] = "done"
      BY <2>1
    <2>4. StageInv'
      BY <2>3 DEF StageInv, EarlyStages
    <2>5. RoomInv' /\ CleanInv' /\ LookupInv'
      BY <1>1, <1>2, <2>1 DEF RoomInv, CleanInv, LookupInv
    <2> QED
      BY <2>2, <2>4, <2>5 DEF RepoInv
  <1> QED
    BY <1>4, <1>5

(* A step of one client, with the repository as it is. *)
LEMMA ClientMoves ==
    ASSUME RepoInv, NEW c \in Clients, NEW k \in ClientStates, client' = [client EXCEPT ![c] = k],
           UNCHANGED <<cmd_list, cmd_index, boot, closing>>,
           boot[1] \in EarlyStages => /\ k.pc = "wait" \/ k.name = "obc_reset_wdt"
                                      /\ execq' \in Seq({"obc_reset_wdt"}),
           closing = -1 => ~k.freed,
           SearchInv(k, cmd_list, cmd_index, closing)
    PROVE  RepoInv'
  <1>1. RepoType /\ RoomInv /\ StageInv /\ CleanInv /\ LookupInv
    BY DEF RepoInv
  <1>2. client \in [Clients -> ClientStates]
    BY <1>1 DEF RepoType
  <1>3. RepoType'
    BY <1>1, <1>2 DEF RepoType
  <1>4. \A d \in Clients : client'[d] = IF d = c THEN k ELSE client[d]
    BY <1>2
  <1>5. StageInv'
    BY <1>1, <1>4 DEF StageInv
  <1>6. RoomInv' /\ CleanInv'
    BY <1>1, <1>4 DEF RoomInv, CleanInv
  <1>7. LookupInv'
    BY <1>1, <1>4 DEF LookupInv
  <1> QED
    BY <1>3, <1>5, <1>6, <1>7 DEF RepoInv

(* Where a client is before its step. *)
LEMMA ClientIs ==
    ASSUME RepoInv, NEW c \in Clients
    PROVE  /\ client[c] \in ClientStates /\ client \in [Clients -> ClientStates]
           /\ boot[1] \in EarlyStages =>
                 /\ client[c].pc = "wait" \/ client[c].name = "obc_reset_wdt"
                 /\ execq \in Seq({"obc_reset_wdt"}) /\ closing = -1
           /\ closing = -1 => ~client[c].freed
           /\ SearchInv(client[c], cmd_list, cmd_index, closing)
  <1>1. RepoType /\ StageInv /\ CleanInv /\ LookupInv
    BY DEF RepoInv
  <1>2. client \in [Clients -> ClientStates] /\ client[c] \in ClientStates
    BY <1>1 DEF RepoType
  <1> QED
    BY <1>1, <1>2 DEF StageInv, CleanInv, LookupInv

LEMMA BuildStep ==
    ASSUME RepoInv, NEW c \in Clients, NEW name \in AskedNames, cmd_build_from_str(c, name),
           c = "watchdog" => name = "obc_reset_wdt"
    PROVE  RepoInv'
  <1>1. RepoType
    BY DEF RepoInv
  <1>2. /\ client[c] \in ClientStates /\ client \in [Clients -> ClientStates]
    BY ClientIs
  <1>3. PICK n \in Nat : n = client[c].lookups + 1
    <2>1. client[c].lookups \in Nat
      BY <1>2 DEF ClientStates
    <2> QED
      BY <2>1
  <1>4. PICK p \in {"wait", "compare"} : p = IF name = "" THEN "wait" ELSE "compare"
    OBVIOUS
  <1>5. PICK B : B = Registered
    OBVIOUS
  <1>6. PICK k : k = [pc |-> p, name |-> name, i |-> 0, before |-> B, got |-> "", lookups |-> n, freed |-> FALSE]
    OBVIOUS
  <1>7. client' = [client EXCEPT ![c] = k]
    <2>1. client' = [client EXCEPT ![c] =
                        [pc |-> IF name = "" THEN "wait" ELSE "compare", name |-> name, i |-> 0,
                         before |-> Registered, got |-> "", lookups |-> client[c].lookups + 1, freed |-> FALSE]]
      BY <1>2 DEF cmd_build_from_str
    <2> QED
      BY <1>3, <1>4, <1>5, <1>6, <2>1
  <1>8. 0 \in Entries /\ cmd_list \in [Entries -> RepoNames] /\ cmd_index \in 0 .. MaxEntries
        /\ MaxEntries \in Nat
    BY <1>1, CommandRepoAssumption DEF Entries, RepoType
  <1>9. \A i \in 0 .. cmd_index - 1 : i \in Entries
    BY <1>8 DEF Entries
  <1>10. B \subseteq RepoNames
    BY <1>5, <1>8, <1>9 DEF Registered
  <1>11. k \in ClientStates
    BY <1>4, <1>6, <1>8, <1>10 DEF ClientStates
  <1>12. SearchInv(k, cmd_list, cmd_index, closing)
    <2>1. ASSUME name \in B
          PROVE  \E j \in Entries : 0 <= j /\ j < cmd_index /\ cmd_list[j] = name
      <3>1. PICK j \in 0 .. cmd_index - 1 : cmd_list[j] = name
        BY <1>5, <2>1 DEF Registered
      <3> QED
        BY <1>8, <1>9, <3>1
    <2>2. k.pc = p /\ k.name = name /\ k.i = 0 /\ k.before = B
      BY <1>6
    <2> QED
      BY <1>4, <2>1, <2>2 DEF SearchInv
  <1>13. UNCHANGED <<cmd_list, cmd_index, boot, closing, execq>> /\ (c = "watchdog" \/ boot[1] \in {"app", "done"})
    BY DEF cmd_build_from_str
  <1>14. k.name = name /\ ~k.freed
    BY <1>6
  <1>15. boot[1] \in EarlyStages => k.name = "obc_reset_wdt" /\ execq' \in Seq({"obc_reset_wdt"})
    BY <1>13, <1>14, ClientIs DEF EarlyStages
  <1> QED
    BY <1>7, <1>11, <1>12, <1>13, <1>14, <1>15, ClientMoves

LEMMA CompareStep ==
    ASSUME RepoInv, NEW c \in Clients, NEW equal \in BOOLEAN, cmd_get_str(c, equal)
    PROVE  RepoInv'
  <1>1. RepoType /\ RoomInv /\ CleanInv
    BY DEF RepoInv
  <1>2. PICK k : k = client[c]
    OBVIOUS
  <1>3. /\ k \in ClientStates /\ client \in [Clients -> ClientStates] /\ k.pc = "compare"
        /\ closing < MaxEntries /\ UNCHANGED <<cmd_list, cmd_index, boot, closing, execq>>
        /\ boot[1] \in EarlyStages => k.name = "obc_reset_wdt" /\ execq' \in Seq({"obc_reset_wdt"})
        /\ closing = -1 => ~k.freed
        /\ SearchInv(k, cmd_list, cmd_index, closing)
    BY <1>2, ClientIs DEF cmd_get_str, Alive
  <1>4. k.i \in Entries /\ MaxEntries \in Nat /\ cmd_index \in 0 .. MaxEntries /\ k.i \in Int
        /\ k.name \in AskedNames
    <2>1. k.i \in Entries /\ k.name \in AskedNames
      BY <1>3 DEF ClientStates
    <2>2. k.i \in Int
      BY <2>1 DEF Entries
    <2> QED
      BY <1>1, <2>1, <2>2, CommandRepoAssumption DEF RepoType
  <1>5. PICK f \in BOOLEAN : f = (k.freed \/ cmd_list[k.i] = "freed")
    BY <1>3 DEF ClientStates
  <1>6. ~f => /\ ~k.freed /\ cmd_list[k.i] # "freed" /\ cmd_list[k.i] # "unset"
              /\ equal = (cmd_list[k.i] = k.name)
    BY <1>2, <1>5 DEF cmd_get_str
  <1>7. closing = -1 => ~f
    BY <1>1, <1>3, <1>4, <1>5 DEF CleanInv
  <1>8. ASSUME ~f, k.name # "null", k.name \in k.before
        PROVE  \E j \in Entries : k.i <= j /\ j < cmd_index /\ cmd_list[j] \in {k.name, "freed"}
    BY <1>3, <1>6, <1>8 DEF SearchInv
  <1>9. client' = [client EXCEPT ![c] =
               IF equal THEN [k EXCEPT !.pc = "copy", !.freed = f]
               ELSE IF k.i + 1 < MaxEntries THEN [k EXCEPT !.i = k.i + 1, !.freed = f]
               ELSE [k EXCEPT !.pc = "end", !.got = "NULL", !.freed = f]]
    BY <1>2, <1>5 DEF cmd_get_str
  <1>10. CASE equal
    <2>1. PICK m : m = [k EXCEPT !.pc = "copy", !.freed = f]
      OBVIOUS
    <2>2. client' = [client EXCEPT ![c] = m]
      BY <1>9, <1>10, <2>1
    <2>3. /\ m \in ClientStates /\ m.pc = "copy" /\ m.i = k.i /\ m.name = k.name /\ m.freed = f
      BY <1>3, <2>1 DEF ClientStates
    <2>4. ASSUME ~f, k.name # "null"
          PROVE  k.i < cmd_index /\ cmd_list[k.i] = k.name
      <3>1. cmd_list[k.i] = k.name /\ cmd_list[k.i] \notin {"null", "unset", "freed"}
        BY <1>6, <1>10, <2>4
      <3>2. k.i < cmd_index
        BY <1>1, <1>3, <1>4, <3>1 DEF RoomInv
      <3> QED
        BY <3>1, <3>2
    <2>5. SearchInv(m, cmd_list, cmd_index, closing)
      BY <2>3, <2>4 DEF SearchInv
    <2> QED
      BY <1>3, <1>7, <2>2, <2>3, <2>5, ClientMoves
  <1>11. CASE ~equal /\ k.i + 1 < MaxEntries
    <2>1. PICK n : n = k.i + 1
      OBVIOUS
    <2>2. PICK m : m = [k EXCEPT !.i = n, !.freed = f]
      OBVIOUS
    <2>3. n \in Entries
      BY <1>4, <1>11, <2>1 DEF Entries
    <2>4. client' = [client EXCEPT ![c] = m]
      BY <1>9, <1>11, <2>1, <2>2
    <2>5. /\ m \in ClientStates /\ m.pc = "compare" /\ m.i = n /\ m.name = k.name
          /\ m.before = k.before /\ m.freed = f
      BY <1>3, <2>2, <2>3 DEF ClientStates
    <2>6. ASSUME ~f, k.name # "null", k.name \in k.before
          PROVE  \E j \in Entries : n <= j /\ j < cmd_index /\ cmd_list[j] \in {k.name, "freed"}
      <3>1. PICK j \in Entries : k.i <= j /\ j < cmd_index /\ cmd_list[j] \in {k.name, "freed"}
        BY <1>8, <2>6
      <3>2. j # k.i
        BY <1>6, <1>11, <2>6, <3>1
      <3>3. n <= j
        BY <1>4, <2>1, <3>1, <3>2 DEF Entries
      <3> QED
        BY <3>1, <3>3
    <2>7. SearchInv(m, cmd_list, cmd_index, closing)
      BY <2>5, <2>6 DEF SearchInv
    <2> QED
      BY <1>3, <1>7, <2>4, <2>5, <2>7, ClientMoves
  <1>12. CASE ~equal /\ ~(k.i + 1 < MaxEntries)
    <2>1. PICK m : m = [k EXCEPT !.pc = "end", !.got = "NULL", !.freed = f]
      OBVIOUS
    <2>2. client' = [client EXCEPT ![c] = m]
      BY <1>9, <1>12, <2>1
    <2>3. /\ m \in ClientStates /\ m.pc = "end" /\ m.got = "NULL" /\ m.name = k.name
          /\ m.before = k.before /\ m.freed = f
      BY <1>3, <2>1 DEF ClientStates
    <2>4. ASSUME ~f, k.name # "null", k.name \in k.before
          PROVE  FALSE
      <3>1. PICK j \in Entries : k.i <= j /\ j < cmd_index /\ cmd_list[j] \in {k.name, "freed"}
        BY <1>8, <2>4
      <3>2. j = k.i
        BY <1>4, <1>12, <3>1 DEF Entries
      <3> QED
        BY <1>6, <1>12, <2>4, <3>1, <3>2
    <2>5. SearchInv(m, cmd_list, cmd_index, closing)
      BY <2>3, <2>4 DEF SearchInv
    <2> QED
      BY <1>3, <1>7, <2>2, <2>3, <2>5, ClientMoves
  <1> QED
    BY <1>10, <1>11, <1>12

(* The watchdog reads a name that is not there yet: the program ends.      *)
LEMMA CrashStep ==
    ASSUME RepoInv, NEW c \in Clients, CompareNull(c)
    PROVE  RepoInv'
  <1>1. RepoType /\ RoomInv /\ CleanInv /\ LookupInv
    BY DEF RepoInv
  <1>2. boot' = <<"crashed", 0>> /\ UNCHANGED <<cmd_list, cmd_index, client, execq, closing>>
    BY DEF CompareNull
  <1>3. boot'[1] = "crashed"
    BY <1>2
  <1>4. RepoType'
    BY <1>1, <1>2 DEF RepoType
  <1>5. StageInv'
    BY <1>3 DEF StageInv, EarlyStages
  <1>6. RoomInv' /\ CleanInv' /\ LookupInv'
    BY <1>1, <1>2 DEF RoomInv, CleanInv, LookupInv
  <1> QED
    BY <1>4, <1>5, <1>6 DEF RepoInv

LEMMA CopyStep ==
    ASSUME RepoInv, NEW c \in Clients, cmd_get_idx(c)
    PROVE  RepoInv'
  <1>1. RepoType /\ CleanInv
    BY DEF RepoInv
  <1>2. PICK k : k = client[c]
    OBVIOUS
  <1>3. /\ k \in ClientStates /\ client \in [Clients -> ClientStates] /\ k.pc = "copy"
        /\ closing < MaxEntries /\ UNCHANGED <<cmd_list, cmd_index, boot, closing, execq>>
        /\ boot[1] \in EarlyStages => k.name = "obc_reset_wdt" /\ execq' \in Seq({"obc_reset_wdt"})
        /\ closing = -1 => ~k.freed
        /\ SearchInv(k, cmd_list, cmd_index, closing)
    BY <1>2, ClientIs DEF cmd_get_idx, Alive
  <1>4. PICK g : g = cmd_list[k.i]
    OBVIOUS
  <1>5. g \in RepoNames /\ k.i \in Entries
    BY <1>1, <1>3, <1>4 DEF ClientStates, RepoType
  <1>6. PICK f \in BOOLEAN : f = (k.freed \/ g = "freed")
    BY <1>3 DEF ClientStates
  <1>7. PICK m : m = [k EXCEPT !.pc = "end", !.got = g, !.freed = f]
    OBVIOUS
  <1>8. client' = [client EXCEPT ![c] = m]
    BY <1>2, <1>4, <1>6, <1>7 DEF cmd_get_idx
  <1>9. /\ m \in ClientStates /\ m.pc = "end" /\ m.got = g /\ m.name = k.name /\ m.before = k.before
        /\ m.freed = f
    BY <1>3, <1>5, <1>7 DEF ClientStates
  <1>10. SearchInv(m, cmd_list, cmd_index, closing)
    BY <1>3, <1>4, <1>6, <1>9 DEF SearchInv
  <1>11. closing = -1 => ~f
    BY <1>1, <1>3, <1>4, <1>5, <1>6 DEF CleanInv
  <1> QED
    BY <1>3, <1>8, <1>9, <1>10, <1>11, ClientMoves

LEMMA SendCommandStep ==
    ASSUME RepoInv, NEW c \in Clients, SendCommand(c)
    PROVE  RepoInv'
  <1>1. PICK n \in Nat : n = client[c].lookups
    BY ClientIs DEF ClientStates
  <1>2. PICK m : m = Waiting(n)
    OBVIOUS
  <1>3. client' = [client EXCEPT ![c] = m]
    BY <1>1, <1>2, ClientIs DEF SendCommand
  <1>4. 0 \in Entries
    BY CommandRepoAssumption DEF Entries
  <1>5. m \in ClientStates /\ m.pc = "wait" /\ ~m.freed
    BY <1>1, <1>2, <1>4 DEF Waiting, ClientStates, AskedNames
  <1>6. SearchInv(m, cmd_list, cmd_index, closing)
    BY <1>5 DEF SearchInv
  <1>7. UNCHANGED <<cmd_list, cmd_index, boot, closing>>
    BY DEF SendCommand
  <1>8. ASSUME boot[1] \in EarlyStages
        PROVE  execq' \in Seq({"obc_reset_wdt"})
    <2>1. PICK k : k = client[c]
      OBVIOUS
    <2>2. /\ k \in ClientStates /\ k.pc = "end" /\ k.name = "obc_reset_wdt" /\ ~k.freed
          /\ execq \in Seq({"obc_reset_wdt"}) /\ SearchInv(k, cmd_list, cmd_index, closing)
      BY <1>8, <2>1, ClientIs DEF SendCommand
    <2>3. k.got \in {"obc_reset_wdt", "NULL"}
      BY <2>2 DEF SearchInv
    <2>4. execq' = IF k.got = "NULL" THEN execq ELSE Append(execq, k.got)
      BY <2>1 DEF SendCommand
    <2> QED
      BY <2>2, <2>3, <2>4
  <1> QED
    BY <1>3, <1>5, <1>6, <1>7, <1>8, ClientMoves

(* obc_exit: from here on what a lookup has ahead of it may be freed.      *)
LEMMA CloseStep ==
    ASSUME RepoInv, ExecuteNext \/ cmd_repo_close
    PROVE  RepoInv'
  <1>1. RepoType /\ RoomInv /\ StageInv /\ CleanInv /\ LookupInv
    BY DEF RepoInv
  <1>0. MaxEntries \in Nat \ {0}
    BY CommandRepoAssumption
  <1>2. CASE ExecuteNext
    <2>1. /\ closing = -1 /\ closing' \in {0, -1} /\ UNCHANGED <<cmd_list, cmd_index, boot, client>>
          /\ execq # <<>> /\ execq' = Tail(execq)
          /\ Head(execq) # "obc_exit" => closing' = -1
      BY <1>2 DEF ExecuteNext
    <2>2. RepoType'
      BY <1>1, <2>1 DEF RepoType
    <2>3. boot[1] \in EarlyStages => closing' = -1 /\ execq' \in Seq({"obc_reset_wdt"})
      <3>1. SUFFICES ASSUME boot[1] \in EarlyStages
                     PROVE  closing' = -1 /\ execq' \in Seq({"obc_reset_wdt"})
        OBVIOUS
      <3>2. execq \in Seq({"obc_reset_wdt"})
        BY <1>1, <3>1 DEF StageInv
      <3>3. Head(execq) = "obc_reset_wdt" /\ Tail(execq) \in Seq({"obc_reset_wdt"})
        BY <2>1, <3>2
      <3> QED
        BY <2>1, <3>3
    <2>4. StageInv'
      BY <1>1, <2>1, <2>3 DEF StageInv
    <2>5. CleanInv' /\ RoomInv'
      BY <1>0, <1>1, <2>1 DEF CleanInv, RoomInv
    <2>6. LookupInv'
      BY <1>0, <2>1, <2>2, LookupKept
    <2> QED
      BY <2>2, <2>4, <2>5, <2>6 DEF RepoInv
  <1>3. CASE cmd_repo_close
    <2>1. /\ closing \in Entries /\ closing' = closing + 1
          /\ cmd_list' = [cmd_list EXCEPT ![closing] = "freed"]
          /\ cmd_index' = IF closing + 1 = MaxEntries THEN 0 ELSE cmd_index
          /\ UNCHANGED <<boot, client>>
      BY <1>3 DEF cmd_repo_close
    <2>2. closing' \in Int /\ closing' # -1 /\ closing # -1 /\ closing < MaxEntries
          /\ (closing' < MaxEntries => cmd_index' = cmd_index)
      BY <1>0, <2>1 DEF Entries
    <2>3. RepoType'
      <3>1. "freed" \in RepoNames /\ 0 \in 0 .. MaxEntries
        BY CommandRepoAssumption DEF RepoNames
      <3> QED
        BY <1>1, <2>1, <2>2, <3>1 DEF RepoType
    <2>4. boot[1] \notin EarlyStages
      BY <1>1, <2>2 DEF StageInv
    <2>5. StageInv'
      BY <1>1, <2>1, <2>4 DEF StageInv, EarlyStages
    <2>6. \A i \in Entries : cmd_list'[i] \in {cmd_list[i], "freed"}
      BY <1>1, <2>1 DEF RepoType
    <2>7. RoomInv' /\ CleanInv'
      BY <1>1, <2>2, <2>6 DEF RoomInv, CleanInv
    <2>8. LookupInv'
      BY <2>1, <2>2, <2>3, <2>6, LookupKept
    <2> QED
      BY <2>3, <2>5, <2>7, <2>8 DEF RepoInv
  <1> QED
    BY <1>2, <1>3

LEMMA RepoInvNext == RepoInv /\ [RepoNext]_repoVars => RepoInv'
  <1>1. SUFFICES ASSUME RepoInv, [RepoNext]_repoVars PROVE RepoInv'
    OBVIOUS
  <1>2. CASE UNCHANGED repoVars
    BY <1>1, <1>2 DEF repoVars, RepoInv, RepoType, RoomInv, StageInv, CleanInv, LookupInv
  <1>3. CASE Boot
    BY <1>1, <1>3, CoreStep, FillStep, CreateStep, HookStep DEF Boot
  <1>4. ASSUME NEW typed \in {"/exit", "1: help", "", "obc_update_status"}, taskConsole(typed)
        PROVE  RepoInv'
    <2>1. console_read(typed) \in AskedNames
      BY DEF console_read, AskedNames
    <2> QED
      BY <1>1, <1>4, <2>1, BuildStep DEF taskConsole
  <1>5. ASSUME NEW c \in Clients \ {"console", "watchdog"}, NEW name \in {"obc_get_sensors", "null"},
               cmd_build_from_str(c, name)
        PROVE  RepoInv'
    <2>1. name \in AskedNames
      BY DEF AskedNames
    <2> QED
      BY <1>1, <1>5, <2>1, BuildStep
  <1>8. CASE taskWatchdog
    <2>1. "obc_reset_wdt" \in AskedNames
      BY DEF AskedNames
    <2> QED
      BY <1>1, <1>8, <2>1, BuildStep DEF taskWatchdog
  <1>6. ASSUME NEW c \in Clients,
               \/ CompareNull(c) \/ cmd_get_idx(c) \/ SendCommand(c)
               \/ \E equal \in BOOLEAN : cmd_get_str(c, equal)
        PROVE  RepoInv'
    BY <1>1, <1>6, CompareStep, CrashStep, CopyStep, SendCommandStep
  <1>7. CASE ExecuteNext \/ cmd_repo_close
    BY <1>1, <1>7, CloseStep
  <1> QED
    BY <1>1, <1>2, <1>3, <1>4, <1>5, <1>6, <1>7, <1>8 DEF RepoNext

LEMMA RepoInvariant == RepoSpec => []RepoInv
  BY RepoInvInit, RepoInvNext, PTL DEF RepoSpec

(* repoCommand.c:30-120, 389-399: however many entries the repository has  *)
(* and clients use it, a lookup that runs while commands are registered or *)
(* freed gives the command of that name, or NULL when the name was not     *)
(* registered as it began; unless it read an entry after obc_exit freed it.*)
THEOREM LookupCorrect == RepoSpec => []LookupExact
  <1>1. RepoInv => LookupExact
    BY DEF RepoInv, LookupInv, SearchInv, LookupExact
  <1> QED
    BY <1>1, RepoInvariant, PTL

--------------------------------------------------------------------------------
(* Telemetry: cut by two functions, shown by a third *)

(* What the ground shows of a frame, given the report it is a part of: the *)
(* rows of the flight plan one by one, the status variables all at once or *)
(* not at all, nothing of the rest.                                        *)
Small(p) == p.type = "status" /\ p.n * p.size <= FrameMax
Shows(fr, p) ==
    /\ p.type = "fp" => \E f \in 1 .. p.n : StructsOf(fr) = <<<<fr.report, f>>>>
    /\ Small(p) => StructsOf(fr) = [j \in 1 .. p.n |-> <<fr.report, j>>]
    /\ p.type # "fp" /\ ~Small(p) => StructsOf(fr) = <<>>

ReportTypes == {"status", "generic", "help", "fp", "debug"}
ReportSet == [type : ReportTypes, n : Nat, size : Nat, whole : BOOLEAN]
FrameSet == [report : Nat, type : ReportTypes, size : Nat, ndata : Nat, first : Int, bytes : Int]

TelemetryType ==
    /\ air \in Seq(FrameSet) /\ reports \in Seq(ReportSet) /\ shown \in Seq(Nat \X Nat)
    /\ counts \in Seq(Nat) /\ Len(counts) = Len(reports)
    /\ \A r \in 1 .. Len(reports) : reports[r].type = "status" => reports[r].n > 0 /\ reports[r].size > 0

AirInv ==
    \A k \in 1 .. Len(air) :
        air[k].report \in 1 .. Len(reports) /\ Shows(air[k], reports[air[k].report])

ShownInv ==
    \A i \in 1 .. Len(shown) :
        shown[i][1] \in 1 .. Len(reports) /\ shown[i][2] \in 1 .. reports[shown[i][1]].n

(* The structs shown, and after them those on the way, are in order.       *)
OrderInv ==
    /\ \A i, j \in 1 .. Len(shown) : i < j /\ shown[i][1] = shown[j][1] => shown[i][2] < shown[j][2]
    /\ \A i \in 1 .. Len(shown), k \in 1 .. Len(air) : shown[i][1] = air[k].report =>
           \A x \in 1 .. Len(StructsOf(air[k])) : shown[i][2] < StructsOf(air[k])[x][2]
    /\ \A k, l \in 1 .. Len(air) : k < l /\ air[k].report = air[l].report =>
           \A x \in 1 .. Len(StructsOf(air[k])), y \in 1 .. Len(StructsOf(air[l])) :
               StructsOf(air[k])[x][2] < StructsOf(air[l])[y][2]

(* The frames counted go up to row f at most; if they are as many, all the *)
(* rows up to f are shown.  The rows on the way come after f.              *)
AllShown(r, f) == \A j \in 1 .. f : \E i \in 1 .. Len(shown) : shown[i] = <<r, j>>
RowsInv(r, f) ==
    /\ counts[r] <= f /\ (counts[r] = f => AllShown(r, f))
    /\ \A k \in 1 .. Len(air) : air[k].report = r =>
           \A x \in 1 .. Len(StructsOf(air[k])) : f < StructsOf(air[k])[x][2]

WholeInv ==
    \A r \in 1 .. Len(reports) :
        /\ reports[r].type = "fp" => \E f \in 0 .. reports[r].n : RowsInv(r, f)
        /\ Small(reports[r]) => counts[r] = 0 \/ AllShown(r, reports[r].n)

TelemetryInv == TelemetryType /\ AirInv /\ ShownInv /\ OrderInv /\ WholeInv

(* What a frame shows are structs of its report, in order.                 *)
LEMMA ShowsStructs ==
    ASSUME NEW fr, NEW p \in ReportSet, fr.report \in Nat, Shows(fr, p)
    PROVE  /\ StructsOf(fr) \in Seq(Nat \X Nat)
           /\ \A x \in 1 .. Len(StructsOf(fr)) :
                  StructsOf(fr)[x][1] = fr.report /\ StructsOf(fr)[x][2] \in 1 .. p.n
           /\ \A x, y \in 1 .. Len(StructsOf(fr)) : x < y => StructsOf(fr)[x][2] < StructsOf(fr)[y][2]
  <1>1. PICK s : s = StructsOf(fr)
    OBVIOUS
  <1>2. PICK r \in Nat : r = fr.report
    OBVIOUS
  <1>3. PICK n \in Nat : n = p.n
    BY DEF ReportSet
  <1>4. SUFFICES /\ s \in Seq(Nat \X Nat)
                 /\ \A x \in 1 .. Len(s) : s[x][1] = r /\ s[x][2] \in 1 .. n
                 /\ \A x, y \in 1 .. Len(s) : x < y => s[x][2] < s[y][2]
    BY <1>1, <1>2, <1>3
  <1>5. CASE p.type = "fp"
    <2>1. PICK f \in 1 .. n : s = <<<<r, f>>>>
      BY <1>1, <1>2, <1>3, <1>5 DEF Shows
    <2> QED
      BY <2>1
  <1>6. CASE Small(p)
    <2>1. s = [j \in 1 .. n |-> <<r, j>>]
      BY <1>1, <1>2, <1>3, <1>6 DEF Shows
    <2>2. s \in Seq(Nat \X Nat) /\ Len(s) = n
      BY <2>1
    <2>3. \A x \in 1 .. n : s[x] = <<r, x>>
      BY <2>1
    <2>4. \A x \in 1 .. n : s[x][1] = r /\ s[x][2] = x
      BY <2>3
    <2> QED
      BY <2>2, <2>4
  <1>7. CASE p.type # "fp" /\ ~Small(p)
    <2>1. s = <<>>
      BY <1>1, <1>7 DEF Shows
    <2>2. s \in Seq(Nat \X Nat) /\ Len(s) = 0
      BY <2>1
    <2> QED
      BY <2>2
  <1> QED
    BY <1>5, <1>6, <1>7

LEMMA TelemetryInvInit == TelemetryInit => TelemetryInv
  <1>1. SUFFICES ASSUME TelemetryInit PROVE TelemetryInv
    OBVIOUS
  <1>2. air = <<>> /\ reports = <<>> /\ shown = <<>> /\ counts = <<>>
    BY <1>1 DEF TelemetryInit
  <1>3. Len(air) = 0 /\ Len(reports) = 0 /\ Len(shown) = 0 /\ Len(counts) = 0
    BY <1>2
  <1>4. TelemetryType
    BY <1>2, <1>3 DEF TelemetryType
  <1> QED
    BY <1>3, <1>4 DEF TelemetryInv, AirInv, ShownInv, OrderInv, WholeInv

(* What the rest of the air shows. *)
LEMMA AirTail ==
    ASSUME air \in Seq(FrameSet), air # <<>>, air' = Tail(air)
    PROVE  /\ air' \in Seq(FrameSet) /\ Len(air') + 1 = Len(air) /\ 1 \in 1 .. Len(air)
           /\ \A k \in 1 .. Len(air') : k + 1 \in 1 .. Len(air) /\ air'[k] = air[k + 1]
  OBVIOUS

LEMMA LoseStep ==
    ASSUME TelemetryInv, LoseFrame
    PROVE  TelemetryInv'
  <1>1. TelemetryType /\ AirInv /\ ShownInv /\ OrderInv /\ WholeInv
    BY DEF TelemetryInv
  <1>2. /\ air \in Seq(FrameSet) /\ air # <<>> /\ air' = Tail(air)
        /\ UNCHANGED <<reports, shown, counts>>
    BY <1>1 DEF TelemetryType, LoseFrame
  <1>3. /\ air' \in Seq(FrameSet) /\ Len(air') + 1 = Len(air)
        /\ \A k \in 1 .. Len(air') : k + 1 \in 1 .. Len(air) /\ air'[k] = air[k + 1]
    BY <1>2, AirTail
  <1>4. TelemetryType'
    BY SMTT(60), <1>1, <1>2, <1>3 DEF TelemetryType
  <1>5. AirInv'
    <2>1. ASSUME NEW k \in 1 .. Len(air')
          PROVE  air'[k].report \in 1 .. Len(reports) /\ Shows(air'[k], reports[air'[k].report])
      BY <1>1, <1>3 DEF AirInv
    <2> QED
      BY <1>2, <2>1 DEF AirInv, Shows, Small
  <1>6. ShownInv'
    BY <1>1, <1>2 DEF ShownInv
  <1>7. OrderInv'
    <2>1. ASSUME NEW i \in 1 .. Len(shown), NEW k \in 1 .. Len(air'), shown[i][1] = air'[k].report,
                 NEW x \in 1 .. Len(StructsOf(air'[k]))
          PROVE  shown[i][2] < StructsOf(air'[k])[x][2]
      <3>1. PICK fr : fr = air'[k]
        OBVIOUS
      <3>2. k + 1 \in 1 .. Len(air) /\ air[k + 1] = fr
        BY <1>3, <3>1
      <3>3. \A z \in 1 .. Len(StructsOf(fr)) : shown[i][2] < StructsOf(fr)[z][2]
        BY <1>1, <2>1, <3>1, <3>2 DEF OrderInv
      <3> QED
        BY <2>1, <3>1, <3>3
    <2>2. ASSUME NEW k \in 1 .. Len(air'), NEW l \in 1 .. Len(air'), k < l,
                 air'[k].report = air'[l].report,
                 NEW x \in 1 .. Len(StructsOf(air'[k])), NEW y \in 1 .. Len(StructsOf(air'[l]))
          PROVE  StructsOf(air'[k])[x][2] < StructsOf(air'[l])[y][2]
      <3>1. /\ k + 1 \in 1 .. Len(air) /\ l + 1 \in 1 .. Len(air) /\ k + 1 < l + 1
            /\ air'[k] = air[k + 1] /\ air'[l] = air[l + 1]
        BY SMTT(60), <1>3, <2>2
      <3> QED
        BY <1>1, <2>2, <3>1 DEF OrderInv
    <2> QED
      BY <1>1, <1>2, <2>1, <2>2 DEF OrderInv
  <1>8. WholeInv'
    <2>1. ASSUME NEW r, NEW f, RowsInv(r, f)
          PROVE  RowsInv(r, f)'
      <3>1. \A k \in 1 .. Len(air') : air'[k].report = r =>
                \A x \in 1 .. Len(StructsOf(air'[k])) : f < StructsOf(air'[k])[x][2]
        <4>1. SUFFICES ASSUME NEW k \in 1 .. Len(air'), air'[k].report = r
                       PROVE  \A x \in 1 .. Len(StructsOf(air'[k])) : f < StructsOf(air'[k])[x][2]
          OBVIOUS
        <4>2. PICK fr : fr = air'[k]
          OBVIOUS
        <4>3. k + 1 \in 1 .. Len(air) /\ air[k + 1] = fr
          BY <1>3, <4>2
        <4>4. \A x \in 1 .. Len(StructsOf(fr)) : f < StructsOf(fr)[x][2]
          BY <2>1, <4>1, <4>2, <4>3 DEF RowsInv
        <4> QED
          BY <4>2, <4>4
      <3> QED
        BY <1>2, <2>1, <3>1 DEF RowsInv, AllShown
    <2>2. ASSUME NEW r, NEW f, AllShown(r, f)
          PROVE  AllShown(r, f)'
      BY <1>2, <2>2 DEF AllShown
    <2> QED
      BY <1>1, <1>2, <2>1, <2>2 DEF WholeInv, Small
  <1> QED
    BY <1>4, <1>5, <1>6, <1>7, <1>8 DEF TelemetryInv

LEMMA ShownGrows ==
    ASSUME NEW s \in Seq(Nat \X Nat), shown \in Seq(Nat \X Nat), shown' = shown \o s
    PROVE  /\ shown' \in Seq(Nat \X Nat) /\ Len(shown') = Len(shown) + Len(s)
           /\ \A i \in 1 .. Len(shown) : i \in 1 .. Len(shown') /\ shown'[i] = shown[i]
           /\ \A x \in 1 .. Len(s) : Len(shown) + x \in 1 .. Len(shown') /\ shown'[Len(shown) + x] = s[x]
           /\ \A i \in 1 .. Len(shown') : i \in 1 .. Len(shown) \/
                  \E x \in 1 .. Len(s) : i = Len(shown) + x /\ shown'[i] = s[x]
  <1>1. /\ shown' \in Seq(Nat \X Nat) /\ Len(shown') = Len(shown) + Len(s)
        /\ Len(shown) \in Nat /\ Len(s) \in Nat
    OBVIOUS
  <1>2. \A i \in 1 .. Len(shown) : i \in 1 .. Len(shown') /\ shown'[i] = shown[i]
    BY <1>1
  <1>3. \A x \in 1 .. Len(s) : Len(shown) + x \in 1 .. Len(shown') /\ shown'[Len(shown) + x] = s[x]
    BY SMTT(60), <1>1
  <1>4. ASSUME NEW i \in 1 .. Len(shown'), i \notin 1 .. Len(shown)
        PROVE  \E x \in 1 .. Len(s) : i = Len(shown) + x /\ shown'[i] = s[x]
    <2>1. i - Len(shown) \in 1 .. Len(s) /\ i = Len(shown) + (i - Len(shown))
      BY <1>1, <1>4
    <2> QED
      BY <1>3, <2>1
  <1> QED
    BY <1>1, <1>2, <1>3, <1>4

LEMMA ReceiveStep ==
    ASSUME TelemetryInv, com_receive_tm
    PROVE  TelemetryInv'
  <1>1. TelemetryType /\ AirInv /\ ShownInv /\ OrderInv /\ WholeInv
    BY DEF TelemetryInv
  <1>2. /\ air \in Seq(FrameSet) /\ reports \in Seq(ReportSet) /\ shown \in Seq(Nat \X Nat)
        /\ counts \in Seq(Nat) /\ Len(counts) = Len(reports) /\ air # <<>>
    BY <1>1 DEF TelemetryType, com_receive_tm
  <1>3. PICK h \in FrameSet : h = air[1]
    BY <1>2
  <1>4. PICK s : s = StructsOf(h)
    OBVIOUS
  <1>5. PICK r \in Nat : r = h.report
    BY DEF FrameSet
  <1>6. /\ shown' = shown \o s /\ counts' = [counts EXCEPT ![r] = counts[r] + 1]
        /\ air' = Tail(air) /\ UNCHANGED reports
    <2>1. Head(air) = h
      BY <1>2, <1>3
    <2>2. /\ shown' = shown \o StructsOf(Head(air))
          /\ counts' = [counts EXCEPT ![Head(air).report] = counts[Head(air).report] + 1]
          /\ air' = Tail(air) /\ UNCHANGED reports
      BY DEF com_receive_tm
    <2> QED
      BY <1>4, <1>5, <2>1, <2>2
  <1>7. /\ air' \in Seq(FrameSet) /\ Len(air') + 1 = Len(air) /\ 1 \in 1 .. Len(air)
        /\ \A k \in 1 .. Len(air') : k + 1 \in 1 .. Len(air) /\ air'[k] = air[k + 1]
    BY <1>2, <1>6, AirTail
  <1>8. r \in 1 .. Len(reports) /\ Shows(h, reports[r]) /\ reports[r] \in ReportSet
    BY <1>1, <1>2, <1>3, <1>5, <1>7 DEF AirInv
  <1>9. PICK n \in Nat : n = reports[r].n
    BY <1>8 DEF ReportSet
  <1>10. /\ s \in Seq(Nat \X Nat) /\ \A x \in 1 .. Len(s) : s[x][1] = r /\ s[x][2] \in 1 .. n
         /\ \A x, y \in 1 .. Len(s) : x < y => s[x][2] < s[y][2]
    BY <1>4, <1>5, <1>8, <1>9, ShowsStructs
  <1>11. /\ shown' \in Seq(Nat \X Nat) /\ Len(shown') = Len(shown) + Len(s)
         /\ \A i \in 1 .. Len(shown) : i \in 1 .. Len(shown') /\ shown'[i] = shown[i]
         /\ \A x \in 1 .. Len(s) : Len(shown) + x \in 1 .. Len(shown') /\ shown'[Len(shown) + x] = s[x]
         /\ \A i \in 1 .. Len(shown') : i \in 1 .. Len(shown) \/
                \E x \in 1 .. Len(s) : i = Len(shown) + x /\ shown'[i] = s[x]
    BY <1>2, <1>6, <1>10, ShownGrows
  <1>12. /\ counts' \in Seq(Nat) /\ Len(counts') = Len(reports) /\ counts'[r] = counts[r] + 1
         /\ counts[r] \in Nat /\ \A q \in 1 .. Len(reports) : q # r => counts'[q] = counts[q]
    BY SMTT(60), <1>2, <1>6, <1>8
  <1>13. TelemetryType'
    BY <1>1, <1>6, <1>7, <1>11, <1>12 DEF TelemetryType
  <1>14. AirInv'
    <2>1. ASSUME NEW k \in 1 .. Len(air')
          PROVE  air'[k].report \in 1 .. Len(reports) /\ Shows(air'[k], reports[air'[k].report])
      BY <1>1, <1>7 DEF AirInv
    <2> QED
      BY <1>6, <2>1 DEF AirInv, Shows, Small
  <1>15. ShownInv'
    <2>1. ASSUME NEW i \in 1 .. Len(shown')
          PROVE  shown'[i][1] \in 1 .. Len(reports) /\ shown'[i][2] \in 1 .. reports[shown'[i][1]].n
      <3>1. CASE i \in 1 .. Len(shown)
        BY <1>1, <1>11, <3>1 DEF ShownInv
      <3>2. CASE i \notin 1 .. Len(shown)
        <4>1. PICK x \in 1 .. Len(s) : shown'[i] = s[x]
          BY <1>11, <2>1, <3>2
        <4>2. shown'[i][1] = r /\ shown'[i][2] \in 1 .. n
          BY <1>10, <4>1
        <4> QED
          BY <1>8, <1>9, <4>2
      <3> QED
        BY <3>1, <3>2
    <2> QED
      BY <1>6, <2>1 DEF ShownInv
  <1>16. OrderInv'
    <2>1. ASSUME NEW i \in 1 .. Len(shown'), NEW j \in 1 .. Len(shown'), i < j, shown'[i][1] = shown'[j][1]
          PROVE  shown'[i][2] < shown'[j][2]
      <3>1. CASE j \in 1 .. Len(shown)
        <4>1. i \in 1 .. Len(shown)
          BY <2>1, <3>1
        <4> QED
          BY <1>1, <1>11, <2>1, <3>1, <4>1 DEF OrderInv
      <3>2. CASE i \in 1 .. Len(shown) /\ j \notin 1 .. Len(shown)
        <4>1. PICK y \in 1 .. Len(s) : shown'[j] = s[y]
          BY <1>11, <3>2
        <4>2. shown'[i] = shown[i] /\ shown[i][1] = air[1].report
          BY <1>3, <1>5, <1>10, <1>11, <2>1, <3>2, <4>1
        <4> QED
          BY <1>1, <1>3, <1>4, <1>7, <3>2, <4>1, <4>2 DEF OrderInv
      <3>3. CASE i \notin 1 .. Len(shown) /\ j \notin 1 .. Len(shown)
        <4>1. PICK x \in 1 .. Len(s), y \in 1 .. Len(s) :
                  i = Len(shown) + x /\ shown'[i] = s[x] /\ j = Len(shown) + y /\ shown'[j] = s[y]
          BY <1>11, <3>3
        <4>2. x < y
          BY <1>2, <2>1, <4>1
        <4> QED
          BY <1>10, <4>1, <4>2
      <3> QED
        BY <3>1, <3>2, <3>3
    <2>2. ASSUME NEW i \in 1 .. Len(shown'), NEW k \in 1 .. Len(air'), shown'[i][1] = air'[k].report,
                 NEW x \in 1 .. Len(StructsOf(air'[k]))
          PROVE  shown'[i][2] < StructsOf(air'[k])[x][2]
      <3>1. /\ k + 1 \in 1 .. Len(air) /\ 1 < k + 1 /\ air'[k] = air[k + 1]
        BY <1>7, <2>2
      <3>2. CASE i \in 1 .. Len(shown)
        <4>1. shown'[i] = shown[i] /\ shown[i][1] = air[k + 1].report
          BY <1>11, <2>2, <3>1, <3>2
        <4>2. x \in 1 .. Len(StructsOf(air[k + 1]))
          BY <2>2, <3>1
        <4> QED
          BY <1>1, <3>1, <3>2, <4>1, <4>2 DEF OrderInv
      <3>3. CASE i \notin 1 .. Len(shown)
        <4>1. PICK y \in 1 .. Len(s) : shown'[i] = s[y]
          BY <1>11, <2>2, <3>3
        <4>2. air[1].report = air[k + 1].report
          BY <1>3, <1>5, <1>10, <2>2, <3>1, <4>1
        <4>3. y \in 1 .. Len(StructsOf(air[1])) /\ StructsOf(air[1])[y] = s[y]
          BY <1>3, <1>4
        <4>4. PICK fr : fr = air[k + 1] /\ x \in 1 .. Len(StructsOf(fr))
          BY <2>2, <3>1
        <4>5. StructsOf(air[1])[y][2] < StructsOf(fr)[x][2]
          BY <1>1, <1>7, <3>1, <4>2, <4>3, <4>4 DEF OrderInv
        <4> QED
          BY <3>1, <4>1, <4>3, <4>4, <4>5
      <3> QED
        BY <3>2, <3>3
    <2>3. ASSUME NEW k \in 1 .. Len(air'), NEW l \in 1 .. Len(air'), k < l,
                 air'[k].report = air'[l].report,
                 NEW x \in 1 .. Len(StructsOf(air'[k])), NEW y \in 1 .. Len(StructsOf(air'[l]))
          PROVE  StructsOf(air'[k])[x][2] < StructsOf(air'[l])[y][2]
      <3>1. /\ k + 1 \in 1 .. Len(air) /\ l + 1 \in 1 .. Len(air) /\ k + 1 < l + 1
            /\ air'[k] = air[k + 1] /\ air'[l] = air[l + 1]
        BY <1>7, <2>3
      <3> QED
        BY <1>1, <2>3, <3>1 DEF OrderInv
    <2> QED
      BY <2>1, <2>2, <2>3 DEF OrderInv
  <1>17. ASSUME NEW q, NEW f, AllShown(q, f)
         PROVE  \A j \in 1 .. f : \E i \in 1 .. Len(shown') : shown'[i] = <<q, j>>
    <2>1. SUFFICES ASSUME NEW j \in 1 .. f PROVE \E i \in 1 .. Len(shown') : shown'[i] = <<q, j>>
      OBVIOUS
    <2>2. PICK i \in 1 .. Len(shown) : shown[i] = <<q, j>>
      BY <1>17 DEF AllShown
    <2> QED
      BY <1>11, <2>2
  <1>18. ASSUME NEW q \in 1 .. Len(reports), reports[q].type = "fp"
         PROVE  \E f \in 0 .. reports[q].n : RowsInv(q, f)'
    <2>1. PICK f \in 0 .. reports[q].n : RowsInv(q, f)
      BY <1>1, <1>18 DEF WholeInv
    <2>2. CASE q # r
      <3>1. counts'[q] <= f /\ (counts'[q] = f => AllShown(q, f)')
        <4>1. counts'[q] = counts[q] /\ counts[q] <= f /\ (counts[q] = f => AllShown(q, f))
          BY <1>12, <2>1, <2>2 DEF RowsInv
        <4> QED
          BY <1>17, <4>1 DEF AllShown
      <3>2. \A k \in 1 .. Len(air') : air'[k].report = q =>
                \A x \in 1 .. Len(StructsOf(air'[k])) : f < StructsOf(air'[k])[x][2]
        <4>1. SUFFICES ASSUME NEW k \in 1 .. Len(air'), air'[k].report = q
                       PROVE  \A x \in 1 .. Len(StructsOf(air'[k])) : f < StructsOf(air'[k])[x][2]
          OBVIOUS
        <4>2. PICK fr : fr = air'[k]
          OBVIOUS
        <4>3. k + 1 \in 1 .. Len(air) /\ air[k + 1] = fr
          BY <1>7, <4>2
        <4>4. \A x \in 1 .. Len(StructsOf(fr)) : f < StructsOf(fr)[x][2]
          BY <2>1, <4>1, <4>2, <4>3 DEF RowsInv
        <4> QED
          BY <4>2, <4>4
      <3>3. RowsInv(q, f)'
        BY <3>1, <3>2 DEF RowsInv
      <3> QED
        BY <3>3
    <2>3. CASE q = r
      <3>1. PICK g \in 1 .. n : s = <<<<r, g>>>>
        BY <1>4, <1>5, <1>8, <1>9, <1>18, <2>3 DEF Shows
      <3>2. Len(s) = 1 /\ s[1] = <<r, g>> /\ s[1][2] = g
        BY <3>1
      <3>3. f < g /\ counts[r] <= f /\ (counts[r] = f => AllShown(r, f))
        <4>1. air[1].report = r /\ 1 \in 1 .. Len(StructsOf(air[1])) /\ StructsOf(air[1])[1][2] = g
          BY <1>3, <1>4, <1>5, <3>2
        <4> QED
          BY <1>7, <2>1, <2>3, <4>1 DEF RowsInv
      <3>4. f \in Nat /\ g \in Nat /\ f \in 0 .. n
        BY <1>9, <2>3
      <3>5. counts'[r] <= g
        BY <1>12, <3>3, <3>4
      <3>6. ASSUME counts'[r] = g
            PROVE  \A j \in 1 .. g : \E i \in 1 .. Len(shown') : shown'[i] = <<r, j>>
        <4>1. counts[r] = f /\ g = f + 1
          BY SMTT(60), <1>12, <3>3, <3>4, <3>6
        <4>2. \A j \in 1 .. f : \E i \in 1 .. Len(shown') : shown'[i] = <<r, j>>
          BY <1>17, <3>3, <4>1
        <4>3. \E i \in 1 .. Len(shown') : shown'[i] = <<r, g>>
          BY <1>11, <3>2
        <4>4. \A j \in 1 .. g : j \in 1 .. f \/ j = g
          BY <3>4, <4>1
        <4> QED
          BY <4>2, <4>3, <4>4
      <3>7. ASSUME NEW k \in 1 .. Len(air'), air'[k].report = r, NEW x \in 1 .. Len(StructsOf(air'[k]))
            PROVE  g < StructsOf(air'[k])[x][2]
        <4>1. /\ k + 1 \in 1 .. Len(air) /\ 1 < k + 1 /\ air'[k] = air[k + 1]
          BY SMTT(60), <1>7
        <4>2. air[1].report = air[k + 1].report
          BY <1>3, <1>5, <3>7, <4>1
        <4>3. 1 \in 1 .. Len(StructsOf(air[1])) /\ StructsOf(air[1])[1][2] = g
          BY <1>3, <1>4, <3>2
        <4> QED
          BY <1>1, <1>7, <3>7, <4>1, <4>2, <4>3 DEF OrderInv
      <3>8. RowsInv(r, g)'
        BY <3>5, <3>6, <3>7 DEF RowsInv, AllShown
      <3>9. g \in 0 .. reports[q].n
        BY <1>9, <2>3
      <3> QED
        BY <2>3, <3>8, <3>9
    <2> QED
      BY <2>2, <2>3
  <1>19. ASSUME NEW q \in 1 .. Len(reports), Small(reports[q])
         PROVE  counts'[q] = 0 \/ \A j \in 1 .. reports[q].n : \E i \in 1 .. Len(shown') : shown'[i] = <<q, j>>
    <2>1. CASE q # r
      <3>1. counts'[q] = counts[q] /\ (counts[q] = 0 \/ AllShown(q, reports[q].n))
        BY <1>1, <1>12, <1>19, <2>1 DEF WholeInv
      <3> QED
        BY <1>17, <3>1
    <2>2. CASE q = r
      <3>1. s = [j \in 1 .. n |-> <<r, j>>]
        BY <1>4, <1>5, <1>8, <1>9, <1>19, <2>2 DEF Shows
      <3>2. Len(s) = n /\ \A j \in 1 .. n : s[j] = <<r, j>>
        BY <3>1
      <3>3. ASSUME NEW j \in 1 .. n
            PROVE  \E i \in 1 .. Len(shown') : shown'[i] = <<r, j>>
        <4>1. Len(shown) + j \in 1 .. Len(shown') /\ shown'[Len(shown) + j] = s[j]
          BY <1>11, <3>2
        <4> QED
          BY <3>2, <4>1
      <3> QED
        BY <1>9, <2>2, <3>3
    <2> QED
      BY <2>1, <2>2
  <1>20. WholeInv'
    BY <1>6, <1>18, <1>19 DEF WholeInv, Small, AllShown
  <1> QED
    BY <1>13, <1>14, <1>15, <1>16, <1>20 DEF TelemetryInv

(* How the frames of a report p, the r-th, are cut. *)
Cut(frames, p, r) ==
    \A k \in 1 .. Len(frames) :
        /\ frames[k].report = r
        /\ p.type = "fp" => k \in 1 .. p.n /\ StructsOf(frames[k]) = <<<<r, k>>>>
        /\ Small(p) => k = 1 /\ StructsOf(frames[k]) = [j \in 1 .. p.n |-> <<r, j>>]
        /\ p.type # "fp" /\ ~Small(p) => StructsOf(frames[k]) = <<>>

LEMMA AirGrows ==
    ASSUME air \in Seq(FrameSet), NEW t \in Seq(FrameSet), air' = air \o t
    PROVE  /\ air' \in Seq(FrameSet)
           /\ \A k \in 1 .. Len(air') :
                  \/ k \in 1 .. Len(air) /\ air'[k] = air[k]
                  \/ k \notin 1 .. Len(air) /\ k > Len(air) /\ k - Len(air) \in 1 .. Len(t)
                     /\ air'[k] = t[k - Len(air)]
  <1>1. air' \in Seq(FrameSet) /\ Len(air') = Len(air) + Len(t) /\ Len(air) \in Nat /\ Len(t) \in Nat
    OBVIOUS
  <1>2. \A k \in 1 .. Len(air) : air'[k] = air[k]
    BY <1>1
  <1>3. ASSUME NEW k \in 1 .. Len(air'), k \notin 1 .. Len(air)
        PROVE  k > Len(air) /\ k - Len(air) \in 1 .. Len(t) /\ air'[k] = t[k - Len(air)]
    <2>1. k > Len(air) /\ k - Len(air) \in 1 .. Len(t)
      BY <1>1, <1>3
    <2> QED
      BY <1>1, <2>1
  <1> QED
    BY <1>1, <1>2, <1>3

LEMMA SendStep ==
    ASSUME TelemetryInv, NEW frames \in Seq(FrameSet), NEW type \in ReportTypes,
           NEW n \in Nat, NEW size \in Nat,
           SendReport(frames, type, n, size), type = "status" => n > 0 /\ size > 0,
           \A whole \in BOOLEAN :
               Cut(frames, [type |-> type, n |-> n, size |-> size, whole |-> whole], Len(reports) + 1)
    PROVE  TelemetryInv'
  <1>1. TelemetryType /\ AirInv /\ ShownInv /\ OrderInv /\ WholeInv
    BY DEF TelemetryInv
  <1>2. /\ air \in Seq(FrameSet) /\ reports \in Seq(ReportSet) /\ shown \in Seq(Nat \X Nat)
        /\ counts \in Seq(Nat) /\ Len(counts) = Len(reports)
    BY <1>1 DEF TelemetryType
  <1>3. PICK m \in 0 .. Len(frames) :
            /\ air' = air \o SubSeq(frames, 1, m)
            /\ reports' = Append(reports, [type |-> type, n |-> n, size |-> size, whole |-> m = Len(frames)])
            /\ counts' = Append(counts, 0) /\ UNCHANGED shown
    BY DEF SendReport
  <1>4. PICK w \in BOOLEAN : w = (m = Len(frames))
    OBVIOUS
  <1>5. PICK p : p = [type |-> type, n |-> n, size |-> size, whole |-> w]
    OBVIOUS
  <1>6. p \in ReportSet /\ p.type = type /\ p.n = n /\ p.size = size
    BY <1>4, <1>5 DEF ReportSet
  <1>7. PICK r \in Nat : r = Len(reports) + 1
    BY <1>2
  <1>8. Cut(frames, p, r)
    BY <1>5, <1>7
  <1>9. PICK t : t = SubSeq(frames, 1, m)
    OBVIOUS
  <1>10. t \in Seq(FrameSet) /\ \A k \in 1 .. Len(t) : k \in 1 .. Len(frames) /\ t[k] = frames[k]
    BY <1>9
  <1>11. /\ air' \in Seq(FrameSet)
         /\ \A k \in 1 .. Len(air') :
                \/ k \in 1 .. Len(air) /\ air'[k] = air[k]
                \/ k \notin 1 .. Len(air) /\ k > Len(air) /\ k - Len(air) \in 1 .. Len(t)
                   /\ air'[k] = t[k - Len(air)]
    BY <1>2, <1>3, <1>9, <1>10, AirGrows
  <1>12. /\ reports' \in Seq(ReportSet) /\ Len(reports') = r /\ reports'[r] = p /\ r \in 1 .. r
         /\ \A q \in 1 .. Len(reports) : q \in 1 .. r /\ q # r /\ reports'[q] = reports[q]
         /\ \A q \in 1 .. r : q = r \/ q \in 1 .. Len(reports)
    <2>1. reports' = Append(reports, p)
      BY <1>3, <1>4, <1>5
    <2>2. /\ reports' \in Seq(ReportSet) /\ Len(reports') = r /\ reports'[r] = p /\ r \in 1 .. r
      BY <1>2, <1>6, <1>7, <2>1
    <2>3. \A q \in 1 .. Len(reports) : q \in 1 .. r /\ q # r
      BY SMTT(60), <1>2, <1>7
    <2>4. \A q \in 1 .. Len(reports) : reports'[q] = reports[q]
      BY <1>2, <1>6, <2>1
    <2>5. \A q \in 1 .. r : q = r \/ q \in 1 .. Len(reports)
      BY <1>2, <1>7
    <2> QED
      BY <2>2, <2>3, <2>4, <2>5
  <1>13. /\ counts' \in Seq(Nat) /\ Len(counts') = r /\ counts'[r] = 0
         /\ \A q \in 1 .. Len(reports) : counts'[q] = counts[q]
    BY <1>2, <1>3, <1>7
  <1>14. TelemetryType'
    BY SMTT(60), <1>1, <1>2, <1>3, <1>6, <1>11, <1>12, <1>13 DEF TelemetryType
  <1>15. ASSUME NEW k \in 1 .. Len(air'), k \notin 1 .. Len(air)
         PROVE  /\ k > Len(air) /\ air'[k].report = r
                /\ p.type = "fp" => k - Len(air) \in 1 .. n /\ StructsOf(air'[k]) = <<<<r, k - Len(air)>>>>
                /\ Small(p) => k - Len(air) = 1 /\ StructsOf(air'[k]) = [j \in 1 .. n |-> <<r, j>>]
                /\ p.type # "fp" /\ ~Small(p) => StructsOf(air'[k]) = <<>>
    <2>1. /\ k > Len(air) /\ k - Len(air) \in 1 .. Len(frames) /\ air'[k] = frames[k - Len(air)]
      BY <1>10, <1>11, <1>15
    <2> QED
      BY <1>6, <1>8, <2>1 DEF Cut
  <1>16. ASSUME NEW k \in 1 .. Len(air), k \in 1 .. Len(air')
         PROVE  air'[k] = air[k] /\ air[k].report \in 1 .. Len(reports) /\ air[k].report # r
    BY SMTT(60), <1>1, <1>11, <1>12, <1>16 DEF AirInv
  <1>17. AirInv'
    <2>1. ASSUME NEW k \in 1 .. Len(air')
          PROVE  air'[k].report \in 1 .. r /\ Shows(air'[k], reports'[air'[k].report])
      <3>1. CASE k \in 1 .. Len(air)
        BY <1>1, <1>12, <1>16, <3>1 DEF AirInv
      <3>2. CASE k \notin 1 .. Len(air)
        <4>1. Shows(air'[k], p)
          BY <1>6, <1>15, <3>2 DEF Shows
        <4> QED
          BY <1>12, <1>15, <3>2, <4>1
      <3> QED
        BY <3>1, <3>2
    <2> QED
      BY <1>12, <2>1 DEF AirInv, Shows, Small
  <1>18. ShownInv'
    <2>1. shown' = shown /\ Len(reports') = r
      BY <1>3, <1>12
    <2>2. ASSUME NEW i \in 1 .. Len(shown)
          PROVE  shown[i][1] \in 1 .. r /\ shown[i][2] \in 1 .. reports'[shown[i][1]].n
      <3>1. PICK q \in 1 .. Len(reports) : q = shown[i][1] /\ shown[i][2] \in 1 .. reports[q].n
        BY <1>1 DEF ShownInv
      <3>2. q \in 1 .. r /\ reports'[q] = reports[q]
        BY <1>12
      <3> QED
        BY <3>1, <3>2
    <2> QED
      BY <2>1, <2>2 DEF ShownInv
  <1>19. OrderInv'
    <2>1. ASSUME NEW i \in 1 .. Len(shown), NEW k \in 1 .. Len(air'), shown[i][1] = air'[k].report,
                 NEW x \in 1 .. Len(StructsOf(air'[k]))
          PROVE  shown[i][2] < StructsOf(air'[k])[x][2]
      <3>1. shown[i][1] # r
        BY <1>1, <1>12 DEF ShownInv
      <3>2. k \in 1 .. Len(air)
        BY <1>15, <2>1, <3>1
      <3>3. air'[k] = air[k] /\ x \in 1 .. Len(StructsOf(air[k]))
        BY <1>16, <2>1, <3>2
      <3> QED
        BY <1>1, <2>1, <3>2, <3>3 DEF OrderInv
    <2>2. ASSUME NEW k \in 1 .. Len(air'), NEW l \in 1 .. Len(air'), k < l,
                 air'[k].report = air'[l].report,
                 NEW x \in 1 .. Len(StructsOf(air'[k])), NEW y \in 1 .. Len(StructsOf(air'[l]))
          PROVE  StructsOf(air'[k])[x][2] < StructsOf(air'[l])[y][2]
      <3>1. CASE k \in 1 .. Len(air)
        <4>1. l \in 1 .. Len(air)
          BY <1>15, <1>16, <2>2, <3>1
        <4>2. air'[k] = air[k] /\ air'[l] = air[l]
          BY <1>16, <3>1, <4>1
        <4> QED
          BY <1>1, <2>2, <3>1, <4>1, <4>2 DEF OrderInv
      <3>2. CASE k \notin 1 .. Len(air)
        <4>1. l \notin 1 .. Len(air)
          BY SMTT(60), <1>15, <2>2, <3>2
        <4>2. CASE p.type = "fp"
          <5>1. /\ StructsOf(air'[k]) = <<<<r, k - Len(air)>>>>
                /\ StructsOf(air'[l]) = <<<<r, l - Len(air)>>>>
            BY <1>15, <3>2, <4>1, <4>2
          <5>2. k - Len(air) < l - Len(air)
            BY <1>2, <2>2
          <5>3. x = 1 /\ y = 1
            BY <5>1
          <5> QED
            BY <5>1, <5>2, <5>3
        <4>3. CASE Small(p)
          <5>1. k - Len(air) = 1 /\ l - Len(air) = 1
            BY <1>15, <3>2, <4>1, <4>3
          <5> QED
            BY SMTT(60), <1>2, <2>2, <5>1
        <4>4. CASE p.type # "fp" /\ ~Small(p)
          <5>1. PICK s : s = StructsOf(air'[k]) /\ x \in 1 .. Len(s)
            BY <2>2
          <5>2. s = <<>>
            BY <1>15, <3>2, <4>4, <5>1
          <5> QED
            BY <5>1, <5>2
        <4> QED
          BY <4>2, <4>3, <4>4
      <3> QED
        BY <3>1, <3>2
    <2>3. \A i, j \in 1 .. Len(shown) : i < j /\ shown[i][1] = shown[j][1] => shown[i][2] < shown[j][2]
      BY <1>1 DEF OrderInv
    <2>4. \A i \in 1 .. Len(shown), k \in 1 .. Len(air') : shown[i][1] = air'[k].report =>
              \A x \in 1 .. Len(StructsOf(air'[k])) : shown[i][2] < StructsOf(air'[k])[x][2]
      BY <2>1
    <2>5. shown' = shown
      BY <1>3
    <2> QED
      BY <2>2, <2>3, <2>4, <2>5 DEF OrderInv
  <1>20. ASSUME NEW q \in 1 .. Len(reports), reports[q].type = "fp"
         PROVE  \E f \in 0 .. reports[q].n : RowsInv(q, f)'
    <2>1. PICK f \in 0 .. reports[q].n : RowsInv(q, f)
      BY <1>1, <1>20 DEF WholeInv
    <2>2. ASSUME NEW k \in 1 .. Len(air'), air'[k].report = q, NEW x \in 1 .. Len(StructsOf(air'[k]))
          PROVE  f < StructsOf(air'[k])[x][2]
      <3>1. k \in 1 .. Len(air)
        BY <1>12, <1>15, <2>2
      <3>2. air'[k] = air[k]
        BY <1>16, <3>1
      <3> QED
        BY <2>1, <2>2, <3>1, <3>2 DEF RowsInv
    <2>3. RowsInv(q, f)'
      BY <1>3, <1>13, <2>1, <2>2 DEF RowsInv, AllShown
    <2> QED
      BY <2>3
  <1>21. p.type = "fp" => RowsInv(r, 0)'
    <2>1. SUFFICES ASSUME p.type = "fp" PROVE RowsInv(r, 0)'
      OBVIOUS
    <2>2. ASSUME NEW k \in 1 .. Len(air'), air'[k].report = r, NEW x \in 1 .. Len(StructsOf(air'[k]))
          PROVE  0 < StructsOf(air'[k])[x][2]
      <3>1. k \notin 1 .. Len(air)
        BY <1>16, <2>2
      <3>2. k - Len(air) \in 1 .. n /\ StructsOf(air'[k]) = <<<<r, k - Len(air)>>>>
        BY <1>15, <2>1, <3>1
      <3>3. x = 1
        BY <3>2
      <3> QED
        BY <3>2, <3>3
    <2>3. \A j \in 1 .. 0 : \E i \in 1 .. Len(shown') : shown'[i] = <<r, j>>
      OBVIOUS
    <2> QED
      BY SMTT(60), <1>13, <2>2, <2>3 DEF RowsInv, AllShown
  <1>22. WholeInv'
    <2>1. ASSUME NEW q \in 1 .. r
          PROVE  /\ reports'[q].type = "fp" => \E f \in 0 .. reports'[q].n : RowsInv(q, f)'
                 /\ Small(reports'[q]) => counts'[q] = 0 \/
                        \A j \in 1 .. reports'[q].n : \E i \in 1 .. Len(shown') : shown'[i] = <<q, j>>
      <3>1. CASE q = r
        BY <1>6, <1>12, <1>13, <1>21, <3>1
      <3>2. CASE q # r
        <4>1. q \in 1 .. Len(reports) /\ reports'[q] = reports[q] /\ counts'[q] = counts[q]
          BY <1>12, <1>13, <3>2
        <4>2. Small(reports[q]) => counts[q] = 0 \/ AllShown(q, reports[q].n)
          BY <1>1, <4>1 DEF WholeInv
        <4> QED
          BY <1>3, <1>20, <4>1, <4>2 DEF AllShown
      <3> QED
        BY <3>1, <3>2
    <2> QED
      BY <1>12, <2>1 DEF WholeInv, Small, AllShown
  <1> QED
    BY <1>14, <1>17, <1>18, <1>19, <1>22 DEF TelemetryInv

(* As many structs as a frame has room for. *)
LEMMA Fits ==
    ASSUME NEW F \in Nat \ {0}, NEW v \in Nat \ {0}, NEW n \in Nat \ {0}
    PROVE  /\ n * v <= F <=> n <= F \div v
           /\ n * v \in Nat /\ n * v > 0
           /\ (n * v + F - 1) \div F \in Nat /\ (n * v + F - 1) \div F > 0
           /\ n * v <= F => (n * v + F - 1) \div F = 1
  <1>1. PICK q \in Nat, x \in Nat : F = v * q + x /\ x < v /\ q = F \div v
    OBVIOUS
  <1>2. n <= q => n * v <= F
    <2>1. n <= q => n * v <= q * v
      OBVIOUS
    <2> QED
      BY <1>1, <2>1
  <1>3. n > q => n * v > F
    <2>1. n > q => n * v >= (q + 1) * v
      OBVIOUS
    <2>2. (q + 1) * v = v * q + v
      OBVIOUS
    <2> QED
      BY <1>1, <2>1, <2>2
  <1>4. PICK b \in Nat : b = n * v /\ b > 0
    OBVIOUS
  <1>5. /\ (b + F - 1) \div F \in Nat /\ (b + F - 1) \div F > 0
        /\ b <= F => (b + F - 1) \div F = 1
    <2>1. PICK a \in Nat : a = b + F - 1
      OBVIOUS
    <2>2. PICK d \in Nat, y \in Nat : a = F * d + y /\ y < F /\ d = a \div F
      OBVIOUS
    <2>3. d # 0
      BY <1>4, <2>1, <2>2
    <2>4. d >= 2 => F * d >= 2 * F
      OBVIOUS
    <2> QED
      BY <2>1, <2>2, <2>3, <2>4
  <1> QED
    BY <1>1, <1>2, <1>3, <1>4, <1>5

(* _com_send_data cuts by bytes. *)
LEMMA DataCut ==
    ASSUME NEW R \in Nat, R = Len(reports), NEW type \in ReportTypes \ {"fp"}, NEW n \in Nat \ {0},
           NEW size \in Nat \ {0}, type = "status" => size = VarSize, NEW whole \in BOOLEAN
    PROVE  /\ DataFrames(type, n, size) \in Seq(FrameSet)
           /\ Cut(DataFrames(type, n, size), [type |-> type, n |-> n, size |-> size, whole |-> whole], R + 1)
  <1>1. FrameMax \in Nat \ {0} /\ VarSize \in Nat \ {0}
    BY TelemetryAssumption
  <1>2. PICK N \in Nat : N = (n * size + FrameMax - 1) \div FrameMax
    BY <1>1, Fits
  <1>3. PICK frames : frames = DataFrames(type, n, size)
    OBVIOUS
  <1>4. PICK p : p = [type |-> type, n |-> n, size |-> size, whole |-> whole]
    OBVIOUS
  <1>5. PICK b \in Nat : b = n * size
    BY <1>1, Fits
  <1>6. frames = [f \in 1 .. N |-> [report |-> R + 1, type |-> type, size |-> size, ndata |-> n,
                    first |-> (f - 1) * FrameMax, bytes |-> Smaller(FrameMax, b - (f - 1) * FrameMax)]]
    BY <1>2, <1>3, <1>5 DEF DataFrames
  <1>7. ASSUME NEW f \in 1 .. N
        PROVE  [report |-> R + 1, type |-> type, size |-> size, ndata |-> n,
                    first |-> (f - 1) * FrameMax, bytes |-> Smaller(FrameMax, b - (f - 1) * FrameMax)] \in FrameSet
    <2>1. PICK c \in Int : c = (f - 1) * FrameMax
      BY <1>1
    <2>2. Smaller(FrameMax, b - c) \in Int
      BY <1>1 DEF Smaller
    <2> QED
      BY <2>1, <2>2 DEF FrameSet
  <1>8. frames \in [1 .. N -> FrameSet]
    BY <1>6, <1>7
  <1>9. frames \in Seq(FrameSet) /\ Len(frames) = N
    BY <1>8
  <1>10. ASSUME NEW k \in 1 .. N
         PROVE  /\ frames[k].report = R + 1
                /\ Small(p) => k = 1 /\ StructsOf(frames[k]) = [j \in 1 .. n |-> <<R + 1, j>>]
                /\ ~Small(p) => StructsOf(frames[k]) = <<>>
    <2>1. PICK fr : fr = frames[k]
      OBVIOUS
    <2>2. /\ fr.report = R + 1 /\ fr.type = type /\ fr.size = size /\ fr.ndata = n
          /\ fr.first = (k - 1) * FrameMax /\ fr.bytes = Smaller(FrameMax, b - (k - 1) * FrameMax)
      BY <1>6, <2>1
    <2>3. Small(p) <=> type = "status" /\ n <= FrameMax \div VarSize
      <3>1. Small(p) <=> type = "status" /\ n * size <= FrameMax
        BY <1>4 DEF Small
      <3> QED
        BY <1>1, <3>1, Fits
    <2>4. ~Small(p) => StructsOf(fr) = <<>>
      BY <2>2, <2>3 DEF StructsOf
    <2>5. ASSUME Small(p)
          PROVE  k = 1 /\ StructsOf(fr) = [j \in 1 .. n |-> <<R + 1, j>>]
      <3>1. type = "status" /\ n * size <= FrameMax /\ n <= FrameMax \div VarSize /\ N = 1
        BY <1>1, <1>2, <1>4, <2>3, <2>5, Fits DEF Small
      <3>2. k = 1 /\ fr.first = 0 /\ fr.bytes = b
        <4>1. k = 1
          BY <3>1
        <4>2. fr.first = 0 /\ fr.bytes = Smaller(FrameMax, b)
          BY <1>1, <2>2, <4>1
        <4> QED
          BY <1>1, <1>5, <3>1, <4>1, <4>2 DEF Smaller
      <3>3. ASSUME NEW j \in 1 .. n
            PROVE  StructAt(fr, j) = j
        <4>1. j * size <= b
          BY <1>5
        <4>2. 0 % size = 0 /\ 0 \div size = 0
          OBVIOUS
        <4> QED
          BY <2>2, <3>2, <4>1, <4>2 DEF StructAt
      <3>4. StructsOf(fr) = [j \in 1 .. n |-> <<R + 1, StructAt(fr, j)>>]
        BY <2>2, <3>1 DEF StructsOf
      <3> QED
        BY <3>2, <3>3, <3>4
    <2> QED
      BY <2>1, <2>2, <2>4, <2>5
  <1>11. Cut(frames, p, R + 1)
    BY <1>4, <1>9, <1>10 DEF Cut
  <1> QED
    BY <1>3, <1>4, <1>9, <1>11

(* com_send_telemetry cuts by structs; a row of the flight plan fills a    *)
(* frame.                                                                  *)
LEMMA TelemetryCut ==
    ASSUME NEW R \in Nat, R = Len(reports), NEW type \in {"fp", "debug"}, NEW n \in Nat \ {0},
           NEW size \in 1 .. FrameMax, type = "fp" => size = FrameMax, NEW whole \in BOOLEAN
    PROVE  /\ TelemetryFrames(type, n, size) \in Seq(FrameSet)
           /\ Cut(TelemetryFrames(type, n, size), [type |-> type, n |-> n, size |-> size, whole |-> whole], R + 1)
  <1>1. FrameMax \in Nat \ {0} /\ size \in Nat \ {0} /\ size <= FrameMax
    BY TelemetryAssumption
  <1>2. PICK per \in Nat \ {0} : per = FrameMax \div size /\ (type = "fp" => per = 1)
    BY SMTT(60), <1>1
  <1>3. PICK N \in Nat : N = (n + per - 1) \div per
    OBVIOUS
  <1>4. PICK frames : frames = TelemetryFrames(type, n, size)
    OBVIOUS
  <1>5. PICK p : p = [type |-> type, n |-> n, size |-> size, whole |-> whole]
    OBVIOUS
  <1>6. frames = [f \in 1 .. N |-> [report |-> R + 1, type |-> type, size |-> size,
                    ndata |-> Smaller(per, n - (f - 1) * per), first |-> (f - 1) * per * size,
                    bytes |-> Smaller(per, n - (f - 1) * per) * size]]
    BY <1>2, <1>3, <1>4 DEF TelemetryFrames
  <1>7. ASSUME NEW f \in 1 .. N
        PROVE  /\ Smaller(per, n - (f - 1) * per) \in Nat
               /\ [report |-> R + 1, type |-> type, size |-> size,
                    ndata |-> Smaller(per, n - (f - 1) * per), first |-> (f - 1) * per * size,
                    bytes |-> Smaller(per, n - (f - 1) * per) * size] \in FrameSet
    <2>1. PICK c \in Nat : c = (f - 1) * per
      <3>1. PICK g \in Nat : g = f - 1
        OBVIOUS
      <3> QED
        BY <3>1
    <2>2. c <= n
      <3>1. PICK x \in Nat : n + per - 1 = per * N + x /\ x < per
        <4>1. PICK a \in Nat : a = n + per - 1
          OBVIOUS
        <4>2. PICK d \in Nat, y \in Nat : a = per * d + y /\ y < per /\ d = a \div per
          OBVIOUS
        <4> QED
          BY <1>3, <4>1, <4>2
      <3>2. c = per * f - per
        BY <2>1
      <3>3. per * f <= per * N
        OBVIOUS
      <3> QED
        BY <3>1, <3>2, <3>3
    <2>3. Smaller(per, n - c) \in Nat
      BY <2>2 DEF Smaller
    <2>4. c * size \in Int /\ Smaller(per, n - c) * size \in Int
      BY <1>1, <2>3
    <2> QED
      BY <1>1, <2>1, <2>3, <2>4 DEF FrameSet, ReportTypes
  <1>8. frames \in [1 .. N -> FrameSet]
    BY <1>6, <1>7
  <1>9. frames \in Seq(FrameSet) /\ Len(frames) = N
    BY <1>8
  <1>10. ASSUME NEW k \in 1 .. N
         PROVE  /\ frames[k].report = R + 1
                /\ type = "fp" => k \in 1 .. n /\ StructsOf(frames[k]) = <<<<R + 1, k>>>>
                /\ type # "fp" => StructsOf(frames[k]) = <<>>
    <2>1. PICK fr : fr = frames[k]
      OBVIOUS
    <2>2. /\ fr.report = R + 1 /\ fr.type = type /\ fr.size = size
          /\ fr.first = (k - 1) * per * size /\ fr.bytes = Smaller(per, n - (k - 1) * per) * size
      BY <1>6, <2>1
    <2>3. type # "fp" => StructsOf(fr) = <<>>
      BY <2>2 DEF StructsOf
    <2>4. ASSUME type = "fp"
          PROVE  k \in 1 .. n /\ StructsOf(fr) = <<<<R + 1, k>>>>
      <3>1. per = 1 /\ size = FrameMax
        BY <1>2, <2>4
      <3>2. k \in 1 .. n
        BY <1>3, <3>1
      <3>3. fr.first = (k - 1) * FrameMax /\ fr.bytes = FrameMax
        <4>1. n - (k - 1) * 1 >= 1 /\ (k - 1) * 1 = k - 1
          BY <3>2
        <4>2. Smaller(1, n - (k - 1) * 1) = 1
          BY <4>1 DEF Smaller
        <4> QED
          BY <1>1, <2>2, <3>1, <4>1, <4>2
      <3>4. StructAt(fr, 1) = k
        <4>1. PICK c \in Nat : c = k - 1
          OBVIOUS
        <4>2. (c * FrameMax) % FrameMax = 0 /\ (c * FrameMax) \div FrameMax = c
          BY <1>1
        <4> QED
          BY <1>1, <2>2, <3>1, <3>3, <4>1, <4>2 DEF StructAt
      <3>5. StructsOf(fr) = [j \in 1 .. 1 |-> <<R + 1, StructAt(fr, j)>>]
        BY <2>2, <2>4 DEF StructsOf
      <3>6. [j \in 1 .. 1 |-> <<R + 1, StructAt(fr, j)>>] = <<<<R + 1, k>>>>
        BY <3>4
      <3> QED
        BY <3>2, <3>5, <3>6
    <2> QED
      BY <2>1, <2>2, <2>3, <2>4
  <1>11. Cut(frames, p, R + 1)
    BY <1>5, <1>9, <1>10 DEF Cut, Small
  <1> QED
    BY <1>4, <1>5, <1>9, <1>11

LEMMA DataStep ==
    ASSUME TelemetryInv, NEW type \in ReportTypes \ {"fp"}, NEW n \in Nat \ {0}, NEW size \in Nat \ {0},
           type = "status" => size = VarSize, _com_send_data(type, n, size)
    PROVE  TelemetryInv'
  <1>1. PICK R \in Nat : R = Len(reports)
    BY DEF TelemetryInv, TelemetryType
  <1>2. /\ DataFrames(type, n, size) \in Seq(FrameSet)
        /\ \A whole \in BOOLEAN : Cut(DataFrames(type, n, size),
               [type |-> type, n |-> n, size |-> size, whole |-> whole], Len(reports) + 1)
    BY <1>1, DataCut
  <1>3. SendReport(DataFrames(type, n, size), type, n, size)
    BY DEF _com_send_data
  <1>4. PICK frames \in Seq(FrameSet) : frames = DataFrames(type, n, size)
    BY <1>2
  <1> QED
    BY <1>2, <1>3, <1>4, SendStep

LEMMA StillStep ==
    ASSUME TelemetryInv, UNCHANGED <<air, reports, shown, counts>>
    PROVE  TelemetryInv'
  <1>1. TelemetryType /\ AirInv /\ ShownInv /\ OrderInv /\ WholeInv
    BY DEF TelemetryInv
  <1>2. TelemetryType' /\ ShownInv'
    BY <1>1 DEF TelemetryType, ShownInv
  <1>3. AirInv'
    BY <1>1 DEF AirInv, Shows, Small
  <1>4. OrderInv'
    <2>1. ASSUME NEW i \in 1 .. Len(shown), NEW k \in 1 .. Len(air), shown[i][1] = air[k].report,
                 NEW x \in 1 .. Len(StructsOf(air[k]))
          PROVE  shown[i][2] < StructsOf(air[k])[x][2]
      BY <1>1, <2>1 DEF OrderInv
    <2>2. ASSUME NEW k \in 1 .. Len(air), NEW l \in 1 .. Len(air), k < l, air[k].report = air[l].report,
                 NEW x \in 1 .. Len(StructsOf(air[k])), NEW y \in 1 .. Len(StructsOf(air[l]))
          PROVE  StructsOf(air[k])[x][2] < StructsOf(air[l])[y][2]
      BY <1>1, <2>2 DEF OrderInv
    <2> QED
      BY <1>1, <2>1, <2>2 DEF OrderInv
  <1>5. WholeInv'
    <2>1. ASSUME NEW r, NEW f, RowsInv(r, f)
          PROVE  RowsInv(r, f)'
      BY <2>1 DEF RowsInv, AllShown
    <2>2. ASSUME NEW r, NEW f, AllShown(r, f)
          PROVE  AllShown(r, f)'
      BY <2>2 DEF AllShown
    <2> QED
      BY <1>1, <2>1, <2>2 DEF WholeInv, Small
  <1> QED
    BY <1>2, <1>3, <1>4, <1>5 DEF TelemetryInv

LEMMA StructsStep ==
    ASSUME TelemetryInv, NEW type \in {"fp", "debug"}, NEW n \in Nat, NEW size \in 1 .. FrameMax,
           type = "fp" => size = FrameMax, com_send_telemetry(type, n, size)
    PROVE  TelemetryInv'
  <1>1. PICK R \in Nat : R = Len(reports)
    BY DEF TelemetryInv, TelemetryType
  <1>2. type \in ReportTypes /\ size \in Nat /\ type # "status"
    BY TelemetryAssumption DEF ReportTypes
  <1>3. CASE n > 0 /\ SendReport(TelemetryFrames(type, n, size), type, n, size)
    <2>1. /\ TelemetryFrames(type, n, size) \in Seq(FrameSet)
          /\ \A whole \in BOOLEAN : Cut(TelemetryFrames(type, n, size),
                 [type |-> type, n |-> n, size |-> size, whole |-> whole], Len(reports) + 1)
      <3>1. n \in Nat \ {0}
        BY <1>3
      <3> QED
        BY <1>1, <3>1, TelemetryCut
    <2>2. PICK frames \in Seq(FrameSet) : frames = TelemetryFrames(type, n, size)
      BY <2>1
    <2> QED
      BY <1>2, <1>3, <2>1, <2>2, SendStep
  <1>4. CASE n = 0 /\ SendReport(<<>>, type, n, size)
    <2>0. <<>> \in Seq(FrameSet) /\ Len(<<>>) = 0
      OBVIOUS
    <2>1. PICK frames \in Seq(FrameSet) : frames = <<>> /\ Len(frames) = 0
      BY <2>0
    <2>2. \A whole \in BOOLEAN :
              Cut(frames, [type |-> type, n |-> n, size |-> size, whole |-> whole], Len(reports) + 1)
      BY <2>1 DEF Cut
    <2> QED
      BY <1>2, <1>4, <2>1, <2>2, SendStep
  <1>5. CASE UNCHANGED <<air, reports, shown, counts>>
    BY <1>5, StillStep
  <1> QED
    BY <1>3, <1>4, <1>5 DEF com_send_telemetry

LEMMA TelemetryInvNext == TelemetryInv /\ [TelemetryNext]_telemetryVars => TelemetryInv'
  <1>1. SUFFICES ASSUME TelemetryInv, [TelemetryNext]_telemetryVars PROVE TelemetryInv'
    OBVIOUS
  <1>2. /\ FrameMax \in Nat \ {0} /\ VarSize \in 1 .. FrameMax /\ Vars \subseteq Nat \ {0}
        /\ Plans \subseteq Nat /\ Lines \subseteq Nat
    BY TelemetryAssumption
  <1>3. CASE UNCHANGED telemetryVars
    BY <1>1, <1>3, StillStep DEF telemetryVars
  <1>4. CASE tm_send_status
    BY <1>1, <1>2, <1>4, DataStep DEF tm_send_status, ReportTypes
  <1>5. CASE tm_send_var
    BY <1>1, <1>2, <1>5, DataStep DEF tm_send_var, ReportTypes
  <1>6. CASE tm_send_cmds
    BY <1>1, <1>2, <1>6, DataStep DEF tm_send_cmds, ReportTypes
  <1>7. CASE tm_send_fp
    BY <1>1, <1>2, <1>7, StructsStep DEF tm_send_fp
  <1>8. CASE com_send_debug \/ tm_list_files
    BY <1>1, <1>2, <1>8, StructsStep DEF com_send_debug, tm_list_files
  <1>9. CASE com_receive_tm \/ LoseFrame
    BY <1>1, <1>9, ReceiveStep, LoseStep
  <1> QED
    BY <1>1, <1>3, <1>4, <1>5, <1>6, <1>7, <1>8, <1>9 DEF TelemetryNext

(* All but the rows of the flight plan are written before they are sent.   *)
FilledInv ==
    /\ reports \in Seq(ReportSet) /\ filled \in Seq(Nat) /\ Len(filled) = Len(reports)
    /\ \A r \in 1 .. Len(reports) : reports[r].type = "fp" \/ filled[r] = reports[r].n

LEMMA FilledSend ==
    ASSUME FilledInv, NEW frames, NEW type \in ReportTypes, NEW n \in Nat, NEW size \in Nat, NEW k \in Nat,
           SendReport(frames, type, n, size), Filled(k), type = "fp" \/ k = n
    PROVE  FilledInv'
  <1>1. reports \in Seq(ReportSet) /\ filled \in Seq(Nat) /\ Len(filled) = Len(reports)
    BY DEF FilledInv
  <1>2. ~dead /\ dead' = dead /\ filled' = Append(filled, k)
    BY DEF SendReport, Filled
  <1>3. PICK m \in 0 .. Len(frames) :
            reports' = Append(reports, [type |-> type, n |-> n, size |-> size, whole |-> m = Len(frames)])
    BY DEF SendReport
  <1>4. PICK p \in ReportSet : p = [type |-> type, n |-> n, size |-> size, whole |-> m = Len(frames)]
    <2>1. (m = Len(frames)) \in BOOLEAN
      OBVIOUS
    <2> QED
      BY <2>1 DEF ReportSet
  <1>5. p.type = type /\ p.n = n
    BY <1>4
  <1>6. PICK R \in Nat : R = Len(reports)
    BY <1>1
  <1>7. /\ reports' \in Seq(ReportSet) /\ Len(reports') = R + 1 /\ reports'[R + 1] = p
        /\ \A r \in 1 .. R : reports'[r] = reports[r]
    BY <1>1, <1>3, <1>4, <1>6
  <1>8. /\ filled' \in Seq(Nat) /\ Len(filled') = R + 1 /\ filled'[R + 1] = k
        /\ \A r \in 1 .. R : filled'[r] = filled[r]
    BY <1>1, <1>2, <1>6
  <1>9. ASSUME NEW r \in 1 .. R + 1 PROVE reports'[r].type = "fp" \/ filled'[r] = reports'[r].n
    <2>1. CASE r = R + 1
      BY <1>5, <1>7, <1>8, <2>1
    <2>2. CASE r \in 1 .. R
      BY <1>6, <1>7, <1>8, <2>2 DEF FilledInv
    <2> QED
      BY <1>6, <2>1, <2>2
  <1> QED
    BY <1>6, <1>7, <1>8, <1>9 DEF FilledInv

LEMMA FilledStructs ==
    ASSUME FilledInv, NEW type \in ReportTypes, NEW n \in Nat, NEW size \in Nat, NEW k \in Nat,
           com_send_telemetry(type, n, size), Filled(k), type = "fp" \/ k = n
    PROVE  FilledInv'
  <1>1. CASE SendReport(TelemetryFrames(type, n, size), type, n, size)
    BY <1>1, FilledSend
  <1>2. CASE SendReport(<<>>, type, n, size)
    BY <1>2, FilledSend
  <1>3. CASE dead' = TRUE /\ UNCHANGED <<air, reports, shown, counts>>
    <2>1. filled' = filled
      BY <1>3 DEF Filled
    <2> QED
      BY <1>3, <2>1 DEF FilledInv
  <1> QED
    BY <1>1, <1>2, <1>3 DEF com_send_telemetry

LEMMA FilledInvNext == FilledInv /\ [TelemetryNext]_telemetryVars => FilledInv'
  <1>1. SUFFICES ASSUME FilledInv, [TelemetryNext]_telemetryVars PROVE FilledInv'
    OBVIOUS
  <1>2. /\ FrameMax \in Nat /\ VarSize \in Nat /\ Vars \subseteq Nat /\ Plans \subseteq Nat /\ Lines \subseteq Nat
    BY TelemetryAssumption
  <1>3. ASSUME NEW type \in ReportTypes, NEW n \in Nat, NEW size \in Nat, _com_send_data(type, n, size)
        PROVE  FilledInv'
    BY <1>1, <1>3, FilledSend DEF _com_send_data
  <1>4. CASE UNCHANGED <<reports, filled>>
    BY <1>1, <1>4 DEF FilledInv
  <1>5. CASE tm_send_status \/ tm_send_var \/ tm_send_cmds
    BY <1>2, <1>3, <1>5 DEF tm_send_status, tm_send_var, tm_send_cmds, ReportTypes
  <1>6. CASE tm_send_fp
    <2>1. PICK n \in Plans : \E k \in 0 .. n : com_send_telemetry("fp", n, FrameMax) /\ Filled(k)
      BY <1>6 DEF tm_send_fp
    <2>2. PICK k \in 0 .. n : com_send_telemetry("fp", n, FrameMax) /\ Filled(k)
      BY <2>1
    <2> QED
      BY <1>1, <1>2, <2>2, FilledStructs DEF ReportTypes
  <1>7. CASE com_send_debug \/ tm_list_files
    <2>1. PICK k \in Lines : com_send_telemetry("debug", k, 1) /\ Filled(k)
      BY <1>7 DEF com_send_debug, tm_list_files
    <2> QED
      BY <1>1, <1>2, <2>1, FilledStructs DEF ReportTypes
  <1> QED
    BY <1>1, <1>4, <1>5, <1>6, <1>7 DEF TelemetryNext, telemetryVars, com_receive_tm, LoseFrame

(* cmdCOM.c:203-331, cmdTM.c:99-139, 519-534: for any room of a frame, any *)
(* sizes and numbers of structs, frames that are lost and reports cut off, *)
(* the ground shows structs of the report, each once and in order, all of  *)
(* them when all frames arrived, and, but for rows of the flight plan,     *)
(* none that the sender did not write.                                     *)
THEOREM TelemetryCorrect == TelemetrySpec => []TelemetryShown
  <1>1. ASSUME TelemetryInv, FilledInv PROVE ShownExact
    <2>1. /\ TelemetryType /\ ShownInv
          /\ \A i, j \in 1 .. Len(shown) : i < j /\ shown[i][1] = shown[j][1] => shown[i][2] < shown[j][2]
      BY <1>1 DEF TelemetryInv, OrderInv
    <2>2. DOMAIN shown = 1 .. Len(shown) /\ DOMAIN reports = 1 .. Len(reports)
      BY <2>1 DEF TelemetryType
    <2>3. ASSUME NEW r \in 1 .. Len(reports), reports[r].type # "fp", NEW i \in ShownOf(r)
          PROVE  shown[i][2] <= filled[r]
      <3>1. filled[r] = reports[r].n
        BY <1>1, <2>3 DEF FilledInv
      <3>2. i \in 1 .. Len(shown) /\ shown[i][1] = r
        BY <2>2, <2>3 DEF ShownOf
      <3>3. shown[i][2] \in 1 .. reports[r].n
        BY <2>1, <3>2 DEF ShownInv
      <3> QED
        BY <3>1, <3>3
    <2> QED
      BY <2>1, <2>2, <2>3 DEF ShownExact, ShownOf, ShownInv
  <1>2. ASSUME TelemetryInv PROVE ShownWhole
    <2>1. TelemetryType /\ ShownInv /\ WholeInv
      BY <1>1, <1>2 DEF TelemetryInv
    <2>2. /\ DOMAIN shown = 1 .. Len(shown) /\ DOMAIN reports = 1 .. Len(reports)
          /\ reports \in Seq(ReportSet) /\ shown \in Seq(Nat \X Nat) /\ counts \in Seq(Nat)
      BY <2>1 DEF TelemetryType
    <2>3. SUFFICES ASSUME NEW r \in 1 .. Len(reports), reports[r].whole,
                          \/ reports[r].type = "fp" /\ counts[r] = reports[r].n
                          \/ /\ Small(reports[r])
                             /\ counts[r] = (reports[r].n * reports[r].size + FrameMax - 1) \div FrameMax
                   PROVE  {shown[i][2] : i \in ShownOf(r)} = 1 .. reports[r].n
      BY <2>2 DEF ShownWhole, Small
    <2>4. reports[r].n \in Nat /\ reports[r].size \in Nat
      <3>1. reports[r] \in ReportSet
        BY <2>2
      <3> QED
        BY <3>1 DEF ReportSet
    <2>5. AllShown(r, reports[r].n)
      <3>1. CASE reports[r].type = "fp" /\ counts[r] = reports[r].n
        <4>1. PICK f \in 0 .. reports[r].n : counts[r] <= f /\ (counts[r] = f => AllShown(r, f))
          BY <2>1, <3>1 DEF WholeInv, RowsInv
        <4>2. f = reports[r].n
          BY <2>4, <3>1, <4>1
        <4> QED
          BY <3>1, <4>1, <4>2
      <3>2. CASE /\ Small(reports[r])
                 /\ counts[r] = (reports[r].n * reports[r].size + FrameMax - 1) \div FrameMax
        <4>1. reports[r].n \in Nat \ {0} /\ reports[r].size \in Nat \ {0} /\ FrameMax \in Nat \ {0}
          BY SMTT(60), <2>1, <2>4, <3>2, TelemetryAssumption DEF TelemetryType, Small
        <4>2. counts[r] # 0
          <5>1. PICK n \in Nat \ {0}, v \in Nat \ {0} : n = reports[r].n /\ v = reports[r].size
            BY <4>1
          <5>2. (n * v + FrameMax - 1) \div FrameMax > 0
            BY <4>1, Fits
          <5> QED
            BY <3>2, <5>1, <5>2
        <4> QED
          BY <2>1, <3>2, <4>2 DEF WholeInv
      <3> QED
        BY <2>3, <3>1, <3>2
    <2>6. ASSUME NEW j \in 1 .. reports[r].n
          PROVE  j \in {shown[i][2] : i \in ShownOf(r)}
      <3>1. PICK i \in 1 .. Len(shown) : shown[i] = <<r, j>>
        BY <2>5 DEF AllShown
      <3>2. i \in ShownOf(r) /\ shown[i][2] = j
        BY <2>2, <3>1 DEF ShownOf
      <3> QED
        BY <3>2
    <2>7. ASSUME NEW i \in ShownOf(r)
          PROVE  shown[i][2] \in 1 .. reports[r].n
      BY <2>1, <2>2 DEF ShownOf, ShownInv
    <2> QED
      BY <2>6, <2>7
  <1>3. TelemetryInv /\ FilledInv => TelemetryShown
    BY <1>1, <1>2 DEF TelemetryShown
  <1>4. TelemetryInit => FilledInv
    BY DEF TelemetryInit, FilledInv
  <1> QED
    BY <1>3, <1>4, TelemetryInvInit, TelemetryInvNext, FilledInvNext, PTL DEF TelemetrySpec

--------------------------------------------------------------------------------
(* FileTransfer: files in frames and in parts *)

(* What the frames carry: frame x of the file c, and part n of it.         *)
Bytes == {"d", "AA"}
FileFrame == [type : {"START", "DATA", "END", "PART"}, id : Nat, n : Int, total : Int, data : Seq(Bytes)]
Block(c, x) == SubSeq(c, (x - 1) * FrameLen + 1, x * FrameLen)
Rest(c) == SubSeq(c, FullFrames(c) * FrameLen + 1, Len(c))
GoodAt(fr, c, x) ==
    /\ fr.n = x
    /\ x = 0 => fr.type = "START"
    /\ x \in 1 .. FullFrames(c) => fr.type = "DATA" /\ fr.data = Block(c, x)
    /\ x = FullFrames(c) + 1 => fr.type = "END" /\ Strip(fr.data) = Strip(Rest(c))
PartBytes(c, n) ==
    IF n = LastPart(c) THEN Strip(SubSeq(c, n * FrameLen + 1, Len(c)))
    ELSE SubSeq(c, n * FrameLen + 1, (n + 1) * FrameLen)
GoodPart(fr, c) ==
    /\ fr.type = "PART" /\ fr.id = PartId /\ fr.total = LastPart(c) /\ fr.n \in 0 .. LastPart(c)
    /\ Content(fr) = PartBytes(c, fr.n)
GoodFrame(fr, S, n) ==
    \/ GoodPart(fr, S[PartId])
    \/ fr.id \in 1 .. n /\ fr.n \in 0 .. FullFrames(S[fr.id]) + 1 /\ GoodAt(fr, S[fr.id], fr.n)

FileType ==
    /\ link \in Seq(FileFrame)
    /\ recv = [name |-> recv.name, id |-> recv.id, frame |-> recv.frame]
    /\ answer \in Seq(BOOLEAN) /\ Len(answer) <= MaxSends
    /\ sent \in [(1 .. Len(answer)) \cup {PartId} -> Files]
    /\ spoilt \in BOOLEAN

LinkInv == \A i \in DOMAIN link : GoodFrame(link[i], sent, Len(answer))

(* A transfer begins once, with its START frame.                           *)
Unseen(R, D, id) ==
    /\ R.name # <<>> => R.id # id
    /\ \A f \in DOMAIN D : f[1] = "file" => D[f].id # id
StartInv ==
    /\ \A i, j \in DOMAIN link :
          link[i].type = "START" /\ link[j].type = "START" /\ link[i].id = link[j].id => i = j
    /\ \A i \in DOMAIN link : link[i].type = "START" => Unseen(recv, disk, link[i].id)

(* The statics name the file that holds the frames up to last_frame.       *)
RecvGood(R, D, S, n) == R.name # <<>> =>
    /\ R.id \in 1 .. n /\ R.name \in {Plain, IdName(R.id)}
    /\ R.frame \in 0 .. FullFrames(S[R.id])
    /\ IF R.name \in DOMAIN D
       THEN /\ D[R.name].id = R.id /\ ~D[R.name].closed
            /\ D[R.name].bytes = SubSeq(S[R.id], 1, R.frame * FrameLen)
       ELSE R.frame = 0
RecvInv == RecvGood(recv, disk, sent, Len(answer))

(* Each file of the disk, r at the name f, is one of a transfer or a part. *)
FileGood(f, r, S, n) ==
    /\ f \in {Plain, IdName(r.id)} /\ r.id \in 1 .. n /\ r.closed \in BOOLEAN
    /\ IF r.closed
       THEN r.bytes = Stored(S[r.id], FullFrames(S[r.id]))
       ELSE \E k \in 0 .. FullFrames(S[r.id]) : r.bytes = SubSeq(S[r.id], 1, k * FrameLen)
PartGood(f, r, c) ==
    /\ r.closed = FALSE /\ r.total = LastPart(c)
    /\ \E n \in 0 .. LastPart(c) : f = PartName(n) /\ r.bytes = PartBytes(c, n)
DiskInv == \A f \in DOMAIN disk :
    FileGood(f, disk[f], sent, Len(answer)) \/ PartGood(f, disk[f], sent[PartId])

(* A merge has joined the parts below those left.                          *)
Joining(g, c) == \E n \in 0 .. LastPart(c) :
    g.left = n .. LastPart(c) /\ g.bytes = SubSeq(c, 1, n * FrameLen)
MergeInv ==
    /\ merged = [bytes |-> merged.bytes, missing |-> merged.missing, left |-> merged.left, ok |-> merged.ok]
    /\ merged.left \subseteq Parts /\ merged.ok \in BOOLEAN /\ (merged.ok => merged.left = {})
    /\ merged.missing = {} /\ merged.left # {} => Joining(merged, sent[PartId])
    /\ MergedExact

(* The frames b and on of a transfer of c are on the way, s frames behind  *)
(* the first, and if some have arrived the statics wait for frame b.       *)
Ahead(L, R, c, id, s, b) ==
    /\ \A x \in b .. FullFrames(c) + 1 :
          /\ s + 1 + (x - b) \in DOMAIN L /\ L[s + 1 + (x - b)].id = id
          /\ GoodAt(L[s + 1 + (x - b)], c, x)
    /\ b > 0 => s = 0 /\ R.name # <<>> /\ R.id = id /\ R.frame = b - 1
Arrived(D, id) == \E f \in DOMAIN D : D[f].id = id /\ D[f].closed
OnWay(L, R, c, id) == \E s \in Nat, b \in 0 .. FullFrames(c) + 1 : Ahead(L, R, c, id, s, b)
ArriveInv == ~spoilt => \A id \in 1 .. Len(answer) :
    answer[id] => Arrived(disk, id) \/ OnWay(link, recv, sent[id], id)

FileInv == FileType /\ LinkInv /\ StartInv /\ RecvInv /\ DiskInv /\ ArriveInv
FreshInv == repeated \in BOOLEAN /\ (~repeated => FileInv)

(* Parts have an id, names and a connection of their own: they do not      *)
(* depend on the ids of the transfers.                                     *)
PartType ==
    /\ link \in Seq(FileFrame) /\ answer \in Seq(BOOLEAN)
    /\ recv = [name |-> recv.name, id |-> recv.id, frame |-> recv.frame]
    /\ recv.name # <<>> => recv.name[1] = "file"
    /\ PartId \in DOMAIN sent /\ sent[PartId] \in Files
PartsOnWay == \A i \in DOMAIN link : link[i].type = "PART" => GoodPart(link[i], sent[PartId])
PartsOnDisk == \A n \in Parts : PartGood(PartName(n), disk[PartName(n)], sent[PartId])
PartInv == PartType /\ PartsOnWay /\ PartsOnDisk /\ MergeInv

--------------------------------------------------------------------------------
(* What a frame carries *)

LEMMA FileDivided ==
    ASSUME NEW a \in Nat, NEW b \in Nat \ {0}
    PROVE  /\ a \div b \in Nat /\ a % b \in Nat /\ a % b < b
           /\ a = (a \div b) * b + (a % b)
  <1>1. a % b \in Nat /\ a % b < b
    OBVIOUS
  <1>2. a \div b \in Nat
    OBVIOUS
  <1>3. a = b * (a \div b) + (a % b)
    OBVIOUS
  <1>4. PICK q \in Nat : q = a \div b
    BY <1>2
  <1>5. b * q = q * b
    OBVIOUS
  <1> QED BY <1>1, <1>3, <1>4, <1>5

LEMMA FileTimes ==
    ASSUME NEW a \in Nat, NEW b \in Nat
    PROVE  /\ a * FrameLen \in Nat /\ (a + 1) * FrameLen = a * FrameLen + FrameLen
           /\ a <= b => a * FrameLen <= b * FrameLen
           /\ a * FrameLen < b * FrameLen => a < b
           /\ FrameLen \in Nat \ {0}
  <1>1. FrameLen \in Nat \ {0}
    BY FileAssumption
  <1>2. a * FrameLen \in Nat /\ (a + 1) * FrameLen = a * FrameLen + FrameLen
    BY <1>1
  <1>3. ASSUME NEW u \in Nat, NEW w \in Nat, u <= w PROVE u * FrameLen <= w * FrameLen
    <2>1. PICK y \in Nat : w = u + y
      <3>1. w - u \in Nat /\ w = u + (w - u)
        BY <1>3
      <3> QED BY <3>1
    <2>2. w * FrameLen = u * FrameLen + y * FrameLen /\ y * FrameLen \in Nat /\ u * FrameLen \in Nat
      BY <1>1, <2>1
    <2> QED BY <2>2
  <1>4. ASSUME a * FrameLen < b * FrameLen PROVE a < b
    <2>1. SUFFICES ASSUME b <= a PROVE FALSE
      OBVIOUS
    <2>2. b * FrameLen <= a * FrameLen /\ b * FrameLen \in Nat /\ a * FrameLen \in Nat
      BY <1>1, <1>3, <2>1
    <2> QED BY <1>4, <2>2
  <1> QED BY <1>1, <1>2, <1>3, <1>4

LEMMA FileSizes ==
    ASSUME NEW c \in Files
    PROVE  /\ c \in Seq(Bytes) /\ Len(c) \in Nat /\ FullFrames(c) \in Nat
           /\ FullFrames(c) * FrameLen <= Len(c) /\ Len(c) < FullFrames(c) * FrameLen + FrameLen
           /\ Len(c) % FrameLen = Len(c) - FullFrames(c) * FrameLen
           /\ FullFrames(c) + 2 <= MaxFrames
  <1>1. c \in Seq(Bytes) /\ FrameLen \in Nat \ {0}
    BY FileAssumption DEF Bytes
  <1>2. Len(c) \in Nat
    BY <1>1
  <1>3. PICK q \in Nat, x \in Nat : q = Len(c) \div FrameLen /\ x = Len(c) % FrameLen /\ x < FrameLen
                                   /\ Len(c) = q * FrameLen + x
    BY <1>1, <1>2, FileDivided
  <1>4. PICK u \in Nat : u = q * FrameLen
    BY <1>1, FileTimes
  <1>5. FullFrames(c) + 2 <= MaxFrames
    BY FileAssumption DEF FullFrames
  <1> QED BY <1>1, <1>2, <1>3, <1>4, <1>5 DEF FullFrames

(* The number of frames that hold n bytes.                                 *)
LEMMA FrameCount ==
    ASSUME NEW n \in Nat
    PROVE  \E q \in Nat : /\ q = (n + FrameLen - 1) \div FrameLen
                          /\ n <= q * FrameLen /\ q * FrameLen < n + FrameLen
  <1>1. FrameLen \in Nat \ {0}
    BY FileAssumption
  <1>2. n + FrameLen - 1 \in Nat
    BY <1>1
  <1>3. PICK q \in Nat, x \in Nat : q = (n + FrameLen - 1) \div FrameLen /\ x < FrameLen
                                   /\ n + FrameLen - 1 = q * FrameLen + x
    BY <1>1, <1>2, FileDivided
  <1>4. PICK u \in Nat : u = q * FrameLen
    BY <1>1, FileTimes
  <1>5. n <= u /\ u < n + FrameLen
    BY <1>1, <1>3, <1>4
  <1> QED BY <1>3, <1>4, <1>5

LEMMA FrameCountIs ==
    ASSUME NEW n \in Nat, NEW k \in Nat, n <= k * FrameLen, k * FrameLen < n + FrameLen
    PROVE  (n + FrameLen - 1) \div FrameLen = k
  <1>1. PICK q \in Nat : /\ q = (n + FrameLen - 1) \div FrameLen
                         /\ n <= q * FrameLen /\ q * FrameLen < n + FrameLen
    BY FrameCount
  <1>2. q * FrameLen \in Nat /\ k * FrameLen \in Nat /\ FrameLen \in Nat
    BY FileTimes
  <1>3. (q + 1) * FrameLen = q * FrameLen + FrameLen /\ (k + 1) * FrameLen = k * FrameLen + FrameLen
    BY FileTimes
  <1>4. q * FrameLen < (k + 1) * FrameLen /\ k * FrameLen < (q + 1) * FrameLen
    BY <1>1, <1>2, <1>3
  <1>5. q < k + 1 /\ k < q + 1
    BY <1>4, FileTimes
  <1> QED BY <1>1, <1>5

(* A set of numbers below a bound has a largest one.                       *)
LEMMA LargestOf ==
    ASSUME NEW S \in SUBSET Nat, NEW b \in Nat, \A x \in S : x <= b, S # {}
    PROVE  \E n \in S : \A x \in S : x <= n
  <1> DEFINE U == {n \in Nat : \A x \in S : x <= n}
  <1>1. U \in SUBSET Nat /\ U # {}
    OBVIOUS
  <1>2. IsWellFoundedOn(OpToRel(<, Nat), Nat)
    BY NatLessThanWellFounded
  <1> HIDE DEF U
  <1>3. \E m \in U : \A y \in U : ~(<<y, m>> \in OpToRel(<, Nat))
    BY <1>1, <1>2, WFMin, Zenon
  <1>4. PICK m \in U : \A y \in U : ~(<<y, m>> \in OpToRel(<, Nat))
    BY <1>3
  <1>5. \A y \in U : ~(y < m)
    BY <1>1, <1>4 DEF OpToRel
  <1>6. m \in Nat /\ \A x \in S : x <= m
    BY <1>4 DEF U
  <1>7. ASSUME m \notin S PROVE FALSE
    <2>1. PICK x \in S : x \in Nat
      OBVIOUS
    <2>2. m - 1 \in Nat /\ m - 1 < m
      BY <1>6, <1>7, <2>1
    <2>3. \A y \in S : y <= m - 1
      BY <1>6, <1>7
    <2>4. m - 1 \in U
      BY <2>2, <2>3 DEF U
    <2> QED BY <1>5, <2>2, <2>4
  <1> QED BY <1>6, <1>7

LEMMA BytesCut ==
    ASSUME NEW g \in Seq(Bytes), NEW a \in Nat, NEW e \in Nat, a <= e, e <= Len(g)
    PROVE  /\ SubSeq(g, a + 1, e) \in Seq(Bytes) /\ Len(SubSeq(g, a + 1, e)) = e - a
           /\ \A k \in 1 .. e - a : SubSeq(g, a + 1, e)[k] = g[a + k]
  <1>1. \A k \in a + 1 .. e : g[k] \in Bytes
    <2> SUFFICES ASSUME NEW k \in a + 1 .. e PROVE k \in 1 .. Len(g)
      OBVIOUS
    <2> QED OBVIOUS
  <1>2. a + 1 \in Int /\ e \in Int /\ e - (a + 1) + 1 = e - a
        /\ (IF a + 1 <= e THEN e - (a + 1) + 1 ELSE 0) = e - a
    OBVIOUS
  <1>3. /\ SubSeq(g, a + 1, e) \in Seq(Bytes)
        /\ Len(SubSeq(g, a + 1, e)) = IF a + 1 <= e THEN e - (a + 1) + 1 ELSE 0
        /\ \A k \in 1 .. e - (a + 1) + 1 : SubSeq(g, a + 1, e)[k] = g[a + 1 + k - 1]
    BY <1>1, <1>2, SubSeqProperties
  <1>4. \A k \in 1 .. e - a : a + 1 + k - 1 = a + k
    OBVIOUS
  <1> QED BY <1>2, <1>3, <1>4

(* The bytes of `b' from a on, filled up.                                  *)
DataOf(d, b, a) == d = [i \in 1 .. FrameLen |-> IF a + i <= Len(b) THEN b[a + i] ELSE "AA"]

LEMMA DataFull ==
    ASSUME NEW b \in Seq(Bytes), NEW a \in Nat, NEW d, DataOf(d, b, a), a + FrameLen <= Len(b)
    PROVE  d = SubSeq(b, a + 1, a + FrameLen)
  <1>1. FrameLen \in Nat \ {0} /\ Len(b) \in Nat
    BY FileAssumption
  <1> DEFINE s == SubSeq(b, a + 1, a + FrameLen)
  <1>3. /\ s \in Seq(Bytes) /\ Len(s) = FrameLen
        /\ \A i \in 1 .. FrameLen : s[i] = b[a + i]
    <2>1. PICK e \in Nat : e = a + FrameLen
      BY <1>1
    <2>2. a <= e /\ e <= Len(b) /\ e - a = FrameLen
      BY <1>1, <2>1
    <2>3. /\ SubSeq(b, a + 1, e) \in Seq(Bytes) /\ Len(SubSeq(b, a + 1, e)) = e - a
          /\ \A i \in 1 .. e - a : SubSeq(b, a + 1, e)[i] = b[a + i]
      BY <2>2, BytesCut
    <2> QED BY <2>1, <2>2, <2>3
  <1>4. d = [i \in 1 .. FrameLen |-> b[a + i]]
    <2>1. \A i \in 1 .. FrameLen : a + i <= Len(b)
      BY <1>1
    <2> QED BY <2>1 DEF DataOf
  <1> HIDE DEF s
  <1>5. s = [i \in 1 .. FrameLen |-> s[i]]
    BY <1>1, <1>3
  <1>6. s = d
    BY <1>3, <1>4, <1>5
  <1> QED BY <1>6 DEF s

LEMMA DataLast ==
    ASSUME NEW b \in Seq(Bytes), NEW a \in Nat, NEW d, DataOf(d, b, a),
           a <= Len(b), Len(b) <= a + FrameLen
    PROVE  Strip(d) = Strip(SubSeq(b, a + 1, Len(b)))
  <1>1. FrameLen \in Nat \ {0} /\ Len(b) \in Nat
    BY FileAssumption
  <1> DEFINE s == SubSeq(b, a + 1, Len(b))
             n == Len(b) - a
             kept(e) == {i \in DOMAIN e : e[i] # "AA"}
             top(e) == CHOOSE i \in kept(e) : \A j \in kept(e) : j <= i
  <1>2. n \in Nat /\ n <= FrameLen
    BY <1>1
  <1>3. s \in Seq(Bytes) /\ Len(s) = n /\ \A i \in 1 .. n : s[i] = b[a + i]
    BY <1>1, BytesCut
  <1>4. d \in Seq(Bytes) /\ Len(d) = FrameLen /\ DOMAIN d = 1 .. FrameLen
        /\ \A i \in 1 .. FrameLen : d[i] = IF i <= n THEN s[i] ELSE "AA"
    <2>1. \A i \in 1 .. FrameLen : (a + i <= Len(b) <=> i <= n) /\ (i <= n => s[i] = b[a + i] /\ s[i] \in Bytes)
      BY <1>1, <1>2, <1>3
    <2>2. d = [i \in 1 .. FrameLen |-> IF i <= n THEN s[i] ELSE "AA"]
      BY <2>1 DEF DataOf
    <2>3. d \in [1 .. FrameLen -> Bytes]
      BY <2>1, <2>2 DEF Bytes
    <2> QED BY <1>1, <2>2, <2>3
  <1> HIDE DEF s, n
  <1>5. kept(d) = kept(s)
    BY <1>2, <1>3, <1>4
  <1>6. CASE kept(s) = {}
    <2>1. SubSeq(d, 1, 0) = <<>> /\ SubSeq(s, 1, 0) = <<>>
      BY SubSeqEmpty
    <2> QED BY <1>5, <1>6, <2>1 DEF Strip, s
  <1>7. CASE kept(s) # {}
    <2>1. kept(s) \in SUBSET Nat /\ \A i \in kept(s) : i <= n /\ i >= 1
      BY <1>2, <1>3
    <2>2. \E i \in kept(s) : \A j \in kept(s) : j <= i
      BY <1>2, <1>7, <2>1, LargestOf
    <2>3. top(s) \in kept(s) /\ top(d) = top(s)
      BY <1>5, <2>2
    <2>4. PICK m \in 1 .. n : m = top(s)
      BY <2>1, <2>3
    <2>5. SubSeq(d, 1, m) = SubSeq(s, 1, m)
      <3>1. m \in Int /\ m >= 1 /\ m - 1 + 1 = m
        BY <1>2
      <3>2. \A i \in 1 .. m : d[i] \in Bytes /\ s[i] \in Bytes /\ d[i] = s[i]
        BY <1>2, <1>3, <1>4
      <3>3. /\ SubSeq(d, 1, m) \in Seq(Bytes) /\ Len(SubSeq(d, 1, m)) = m
            /\ \A i \in 1 .. m : SubSeq(d, 1, m)[i] = d[1 + i - 1]
        BY <3>1, <3>2, SubSeqProperties
      <3>4. /\ SubSeq(s, 1, m) \in Seq(Bytes) /\ Len(SubSeq(s, 1, m)) = m
            /\ \A i \in 1 .. m : SubSeq(s, 1, m)[i] = s[1 + i - 1]
        BY <3>1, <3>2, SubSeqProperties
      <3>5. \A i \in 1 .. m : 1 + i - 1 = i
        BY <3>1
      <3> QED BY <3>2, <3>3, <3>4, <3>5, SeqEqual
    <2>6. Strip(d) = SubSeq(d, 1, top(d)) /\ Strip(s) = SubSeq(s, 1, top(s))
      BY <1>5, <1>7 DEF Strip
    <2> QED BY <2>3, <2>4, <2>5, <2>6 DEF s
  <1> QED BY <1>6, <1>7

(* Stripped bytes are bytes.                                               *)
LEMMA StripBytes ==
    ASSUME NEW d \in Seq(Bytes)
    PROVE  Strip(d) \in Seq(Bytes)
  <1> DEFINE kept == {i \in DOMAIN d : d[i] # "AA"}
             top == CHOOSE i \in kept : \A j \in kept : j <= i
  <1>1. DOMAIN d = 1 .. Len(d) /\ Len(d) \in Nat
    OBVIOUS
  <1>2. CASE kept = {}
    <2>1. Strip(d) = SubSeq(d, 1, 0) /\ SubSeq(d, 1, 0) = <<>>
      BY <1>2, SubSeqEmpty DEF Strip
    <2> QED BY <2>1
  <1>3. CASE kept # {}
    <2>1. kept \in SUBSET Nat /\ \A i \in kept : i <= Len(d)
      BY <1>1
    <2>2. \E i \in kept : \A j \in kept : j <= i
      BY <1>1, <1>3, <2>1, LargestOf
    <2>3. PICK m \in Nat : m = top /\ m <= Len(d)
      BY <2>1, <2>2
    <2>4. Strip(d) = SubSeq(d, 1, m)
      BY <1>3, <2>3 DEF Strip
    <2>5. SubSeq(d, 1, m) \in Seq(Bytes)
      <3>1. PICK z \in Nat : z = 0 /\ z <= m
        <4>1. 0 \in Nat /\ 0 <= m
          OBVIOUS
        <4> QED BY <4>1
      <3>2. SubSeq(d, z + 1, m) \in Seq(Bytes)
        BY <2>3, <3>1, BytesCut
      <3> QED BY <3>1, <3>2
    <2> QED BY <2>4, <2>5
  <1> QED BY <1>2, <1>3

(* What is cut out of a file is cut as the file itself would be.           *)
LEMMA DataOfPart ==
    ASSUME NEW c \in Seq(Bytes), NEW lo \in Nat, NEW hi \in Nat, lo <= hi, hi <= Len(c), NEW a \in Nat,
           NEW d, DataOf(d, SubSeq(c, lo + 1, hi), a), lo + a + FrameLen <= hi \/ hi = Len(c)
    PROVE  DataOf(d, c, lo + a)
  <1>1. FrameLen \in Nat \ {0} /\ Len(c) \in Nat
    BY FileAssumption
  <1> DEFINE s == SubSeq(c, lo + 1, hi)
  <1>2. Len(s) = hi - lo /\ \A i \in 1 .. hi - lo : s[i] = c[lo + i]
    BY <1>1, BytesCut
  <1> HIDE DEF s
  <1>3. \A i \in 1 .. FrameLen : /\ (a + i <= hi - lo <=> lo + a + i <= Len(c))
                                 /\ (a + i <= hi - lo => a + i \in 1 .. hi - lo)
                                 /\ lo + (a + i) = lo + a + i
    BY <1>1
  <1>4. \A i \in 1 .. FrameLen : (IF a + i <= Len(s) THEN s[a + i] ELSE "AA")
                                 = (IF lo + a + i <= Len(c) THEN c[lo + a + i] ELSE "AA")
    BY <1>2, <1>3
  <1>5. d = [i \in 1 .. FrameLen |-> IF a + i <= Len(s) THEN s[a + i] ELSE "AA"]
    BY DEF DataOf, s
  <1>6. d = [i \in 1 .. FrameLen |-> IF lo + a + i <= Len(c) THEN c[lo + a + i] ELSE "AA"]
    BY <1>4, <1>5
  <1> QED BY <1>6 DEF DataOf

(* The frames of some bytes, one by one.                                   *)
FrameIs(fr, type, id, n, total, b, a) ==
    fr.type = type /\ fr.id = id /\ fr.n = n /\ fr.total = total /\ DataOf(fr.data, b, a)

LEMMA FramesAre ==
    ASSUME NEW type \in {"START", "DATA", "END", "PART"}, NEW id \in Nat, NEW b \in Seq(Bytes),
           NEW start \in Int, NEW total \in Int
    PROVE  /\ Frames(type, id, b, start, total) \in Seq(FileFrame)
           /\ Len(Frames(type, id, b, start, total)) = (Len(b) + FrameLen - 1) \div FrameLen
           /\ \A f \in 1 .. (Len(b) + FrameLen - 1) \div FrameLen :
                 FrameIs(Frames(type, id, b, start, total)[f], type, id, start + f - 1, total, b, (f - 1) * FrameLen)
  <1>1. PICK q \in Nat : q = (Len(b) + FrameLen - 1) \div FrameLen
    BY FrameCount
  <1> DEFINE Data(f) == [i \in 1 .. FrameLen |-> IF (f - 1) * FrameLen + i <= Len(b)
                                                 THEN b[(f - 1) * FrameLen + i] ELSE "AA"]
             F == [f \in 1 .. q |-> [type |-> type, id |-> id, n |-> start + f - 1, total |-> total,
                                     data |-> Data(f)]]
  <1>2. Frames(type, id, b, start, total) = F
    BY <1>1 DEF Frames
  <1>3. ASSUME NEW f \in 1 .. q PROVE Data(f) \in Seq(Bytes)
    <2>1. PICK g \in Nat : g = (f - 1) * FrameLen
      <3>1. f - 1 \in Nat
        BY <1>1
      <3> QED BY <3>1, FileTimes
    <2>2. FrameLen \in Nat /\ Len(b) \in Nat
      BY FileAssumption
    <2>3. ASSUME NEW i \in 1 .. FrameLen
          PROVE  (IF g + i <= Len(b) THEN b[g + i] ELSE "AA") \in Bytes
      <3>1. g + i <= Len(b) => g + i \in 1 .. Len(b)
        BY <2>2
      <3> QED BY <3>1 DEF Bytes
    <2>4. [i \in 1 .. FrameLen |-> IF g + i <= Len(b) THEN b[g + i] ELSE "AA"] \in [1 .. FrameLen -> Bytes]
      BY <2>3
    <2>5. Data(f) \in [1 .. FrameLen -> Bytes]
      BY <2>1, <2>4
    <2> HIDE DEF Data
    <2> QED BY <2>2, <2>5
  <1> HIDE DEF Data
  <1>4. ASSUME NEW f \in 1 .. q PROVE F[f] \in FileFrame
    BY <1>3, <1>4 DEF FileFrame
  <1>5. F \in [1 .. q -> FileFrame]
    BY <1>4
  <1>6. F \in Seq(FileFrame) /\ Len(F) = q
    BY <1>5
  <1>7. ASSUME NEW f \in 1 .. q
        PROVE  FrameIs(F[f], type, id, start + f - 1, total, b, (f - 1) * FrameLen)
    <2>1. F[f].data = Data(f) /\ F[f].type = type /\ F[f].id = id /\ F[f].n = start + f - 1 /\ F[f].total = total
      OBVIOUS
    <2>2. DataOf(Data(f), b, (f - 1) * FrameLen)
      BY DEF DataOf, Data
    <2> QED BY <2>1, <2>2 DEF FrameIs
  <1> HIDE DEF F
  <1> QED BY <1>1, <1>2, <1>6, <1>7

--------------------------------------------------------------------------------
(* The frames that are sent *)

LEMMA TransferStart ==
    ASSUME NEW id \in Nat, NEW t \in Int
    PROVE  LET F == Frames("START", id, <<"d">>, 0, t) IN
           F \in Seq(FileFrame) /\ Len(F) = 1 /\ F[1].id = id /\ F[1].n = 0 /\ F[1].type = "START"
  <1>1. <<"d">> \in Seq(Bytes) /\ Len(<<"d">>) = 1
    BY DEF Bytes
  <1>2. FrameLen \in Nat \ {0} /\ 1 * FrameLen = FrameLen
    BY FileAssumption
  <1>3. (1 + FrameLen - 1) \div FrameLen = 1
    BY <1>2, FrameCountIs
  <1>4. PICK b \in Seq(Bytes) : b = <<"d">> /\ Len(b) = 1
    BY <1>1
  <1>5. (Len(b) + FrameLen - 1) \div FrameLen = 1
    BY <1>3, <1>4
  <1>6. PICK st \in Int : st = 0
    OBVIOUS
  <1> DEFINE F == Frames("START", id, b, st, t)
  <1>7. PICK type \in {"START", "DATA", "END", "PART"} : type = "START"
    OBVIOUS
  <1>8. F \in Seq(FileFrame) /\ Len(F) = 1 /\ \A f \in 1 .. 1 :
          FrameIs(F[f], "START", id, st + f - 1, t, b, (f - 1) * FrameLen)
    <2>1. /\ Frames(type, id, b, st, t) \in Seq(FileFrame)
          /\ Len(Frames(type, id, b, st, t)) = (Len(b) + FrameLen - 1) \div FrameLen
          /\ \A f \in 1 .. (Len(b) + FrameLen - 1) \div FrameLen :
                FrameIs(Frames(type, id, b, st, t)[f], type, id, st + f - 1, t, b, (f - 1) * FrameLen)
      BY FramesAre, Zenon
    <2> QED BY <1>5, <1>7, <2>1
  <1>9. FrameIs(F[1], "START", id, st + 1 - 1, t, b, (1 - 1) * FrameLen)
    BY <1>8
  <1>10. F[1].type = "START" /\ F[1].id = id /\ F[1].n = 0
    BY <1>6, <1>9 DEF FrameIs
  <1> QED BY <1>4, <1>6, <1>7, <1>8, <1>10

LEMMA TransferData ==
    ASSUME NEW id \in Nat, NEW c \in Files, NEW t \in Int
    PROVE  LET F == Frames("DATA", id, SubSeq(c, 1, FullFrames(c) * FrameLen), 1, t) IN
           /\ F \in Seq(FileFrame) /\ Len(F) = FullFrames(c)
           /\ \A x \in 1 .. FullFrames(c) :
                F[x].id = id /\ F[x].n = x /\ F[x].type = "DATA" /\ F[x].data = Block(c, x)
  <1>1. PICK k \in Nat : k = FullFrames(c)
    BY FileSizes
  <1>2. PICK u \in Nat : u = k * FrameLen /\ u <= Len(c) /\ c \in Seq(Bytes)
    BY <1>1, FileSizes, FileTimes
  <1>3. FrameLen \in Nat \ {0}
    BY FileAssumption
  <1> DEFINE b == SubSeq(c, 0 + 1, u)
             F == Frames("DATA", id, b, 1, t)
  <1>4. b \in Seq(Bytes) /\ Len(b) = u
    <2>1. Len(b) = u - 0 /\ b \in Seq(Bytes)
      BY <1>2, BytesCut
    <2> QED BY <2>1
  <1>5. (u + FrameLen - 1) \div FrameLen = k
    BY <1>2, <1>3, FrameCountIs
  <1>6. SubSeq(c, 1, FullFrames(c) * FrameLen) = b
    BY <1>1, <1>2
  <1> HIDE DEF b
  <1>7. F \in Seq(FileFrame) /\ Len(F) = (Len(b) + FrameLen - 1) \div FrameLen
        /\ \A f \in 1 .. (Len(b) + FrameLen - 1) \div FrameLen :
              FrameIs(F[f], "DATA", id, 1 + f - 1, t, b, (f - 1) * FrameLen)
    BY <1>4, FramesAre
  <1>8. F \in Seq(FileFrame) /\ Len(F) = k
        /\ \A f \in 1 .. k :
              F[f].type = "DATA" /\ F[f].id = id /\ F[f].n = 1 + f - 1 /\ DataOf(F[f].data, b, (f - 1) * FrameLen)
    BY <1>4, <1>5, <1>7 DEF FrameIs
  <1>9. ASSUME NEW x \in 1 .. k
        PROVE  F[x].id = id /\ F[x].n = x /\ F[x].type = "DATA" /\ F[x].data = Block(c, x)
    <2>1. x \in Nat /\ x - 1 \in Nat /\ (x - 1) + 1 = x /\ 1 + x - 1 = x
      OBVIOUS
    <2>2. PICK a \in Nat : a = (x - 1) * FrameLen /\ x * FrameLen = a + FrameLen
      BY <2>1, FileTimes
    <2>3. x * FrameLen <= u
      BY <1>2, <2>1, FileTimes
    <2>4. 0 + a = a /\ a + FrameLen <= u /\ 0 + a + FrameLen <= u
      BY <1>3, <2>2, <2>3
    <2>5. DataOf(F[x].data, b, a)
      BY <1>8, <2>2
    <2>6. DataOf(F[x].data, c, 0 + a)
      <3>0. PICK d : d = F[x].data
        OBVIOUS
      <3>1. PICK lo \in Nat : lo = 0
        OBVIOUS
      <3>2. DataOf(d, SubSeq(c, lo + 1, u), a) /\ lo <= u /\ lo + a + FrameLen <= u
        BY <2>4, <2>5, <3>0, <3>1 DEF b
      <3>3. DataOf(d, c, lo + a)
        BY <1>2, <3>2, DataOfPart
      <3> QED BY <3>0, <3>1, <3>3
    <2>7. a + FrameLen <= Len(c) /\ Len(c) \in Nat
      BY <1>2, <1>3, <2>4
    <2>8. F[x].data = SubSeq(c, a + 1, a + FrameLen)
      BY <1>2, <2>4, <2>6, <2>7, DataFull
    <2> QED BY <1>8, <2>1, <2>2, <2>8 DEF Block
  <1> QED BY <1>1, <1>6, <1>8, <1>9

LEMMA TransferEnd ==
    ASSUME NEW id \in Nat, NEW c \in Files, NEW t \in Int
    PROVE  LET F == Frames("END", id, Rest(c), FullFrames(c) + 1, t) IN
           /\ F \in Seq(FileFrame) /\ Len(F) = IF Len(c) % FrameLen = 0 THEN 0 ELSE 1
           /\ Len(F) = 1 => F[1].id = id /\ F[1].n = FullFrames(c) + 1 /\ F[1].type = "END"
                            /\ Strip(F[1].data) = Strip(Rest(c))
  <1>1. PICK k \in Nat : k = FullFrames(c)
    BY FileSizes
  <1>2. PICK u \in Nat : u = k * FrameLen /\ u <= Len(c) /\ c \in Seq(Bytes) /\ Len(c) < u + FrameLen
                         /\ Len(c) % FrameLen = Len(c) - u /\ Len(c) \in Nat
    BY <1>1, FileSizes, FileTimes
  <1>3. FrameLen \in Nat \ {0} /\ 0 * FrameLen = 0 /\ 1 * FrameLen = FrameLen
    BY FileAssumption
  <1> DEFINE b == SubSeq(c, u + 1, Len(c))
             F == Frames("END", id, b, k + 1, t)
  <1>4. b \in Seq(Bytes) /\ Len(b) = Len(c) - u /\ Len(b) \in Nat /\ Len(b) < FrameLen
    <2>1. b \in Seq(Bytes) /\ Len(b) = Len(c) - u
      BY <1>2, BytesCut
    <2>2. Len(c) - u \in Nat /\ Len(c) - u < FrameLen
      BY <1>2, <1>3
    <2> QED BY <2>1, <2>2
  <1>5. (Len(b) + FrameLen - 1) \div FrameLen = IF Len(c) % FrameLen = 0 THEN 0 ELSE 1
    <2>1. CASE Len(b) = 0
      <3>1. (Len(b) + FrameLen - 1) \div FrameLen = 0
        <4>1. PICK z \in Nat : z = 0
          OBVIOUS
        <4>2. Len(b) <= z * FrameLen /\ z * FrameLen < Len(b) + FrameLen
          BY <1>3, <1>4, <2>1, <4>1
        <4> QED BY <1>4, <4>1, <4>2, FrameCountIs
      <3> QED BY <1>2, <1>4, <2>1, <3>1
    <2>2. CASE Len(b) # 0
      <3>1. Len(b) <= 1 * FrameLen /\ 1 * FrameLen < Len(b) + FrameLen
        BY <1>3, <1>4, <2>2
      <3>2. (Len(b) + FrameLen - 1) \div FrameLen = 1
        BY <1>4, <3>1, FrameCountIs
      <3> QED BY <1>2, <1>4, <2>2, <3>2
    <2> QED BY <2>1, <2>2
  <1>6. Rest(c) = b
    BY <1>1, <1>2 DEF Rest
  <1> HIDE DEF b
  <1>7. F \in Seq(FileFrame) /\ Len(F) = (Len(b) + FrameLen - 1) \div FrameLen
        /\ \A f \in 1 .. (Len(b) + FrameLen - 1) \div FrameLen :
              FrameIs(F[f], "END", id, k + 1 + f - 1, t, b, (f - 1) * FrameLen)
    <2>1. PICK st \in Int : st = k + 1
      OBVIOUS
    <2>2. PICK type \in {"START", "DATA", "END", "PART"} : type = "END"
      OBVIOUS
    <2>3. /\ Frames(type, id, b, st, t) \in Seq(FileFrame)
          /\ Len(Frames(type, id, b, st, t)) = (Len(b) + FrameLen - 1) \div FrameLen
          /\ \A f \in 1 .. (Len(b) + FrameLen - 1) \div FrameLen :
                FrameIs(Frames(type, id, b, st, t)[f], type, id, st + f - 1, t, b, (f - 1) * FrameLen)
      BY <1>4, FramesAre, Zenon
    <2> QED BY <2>1, <2>2, <2>3
  <1>8. ASSUME Len(F) = 1
        PROVE  F[1].id = id /\ F[1].n = k + 1 /\ F[1].type = "END" /\ Strip(F[1].data) = Strip(b)
    <2>1. /\ F[1].type = "END" /\ F[1].id = id /\ F[1].n = k + 1 + 1 - 1
          /\ DataOf(F[1].data, b, (1 - 1) * FrameLen)
      BY <1>7, <1>8 DEF FrameIs
    <2>2. (1 - 1) * FrameLen = 0 /\ k + 1 + 1 - 1 = k + 1 /\ u + 0 = u
      BY <1>3
    <2>3. DataOf(F[1].data, b, 0)
      BY <2>1, <2>2
    <2>4. DataOf(F[1].data, c, u + 0)
      BY <1>2, <2>3, DataOfPart DEF b
    <2>5. Len(c) <= u + FrameLen
      BY <1>2, <1>3
    <2>6. Strip(F[1].data) = Strip(SubSeq(c, u + 1, Len(c)))
      BY <1>2, <2>2, <2>4, <2>5, DataLast
    <2> QED BY <2>1, <2>2, <2>6 DEF b
  <1> QED BY <1>1, <1>5, <1>6, <1>7, <1>8

(* Frame x of a transfer is the one behind x others.                       *)
LEMMA TransferFrames ==
    ASSUME NEW id \in Nat, NEW c \in Files
    PROVE  /\ Transfer(id, c) \in Seq(FileFrame)
           /\ Len(Transfer(id, c)) = FullFrames(c) + 1 + (IF Len(c) % FrameLen = 0 THEN 0 ELSE 1)
           /\ \A j \in 1 .. Len(Transfer(id, c)) :
                Transfer(id, c)[j].id = id /\ GoodAt(Transfer(id, c)[j], c, j - 1)
  <1>1. PICK k \in Nat : k = FullFrames(c)
    BY FileSizes
  <1>2. PICK A \in Seq(FileFrame) :
          A = Frames("START", id, <<"d">>, 0, k + 1) /\ Len(A) = 1
          /\ A[1].id = id /\ A[1].n = 0 /\ A[1].type = "START"
    BY TransferStart
  <1>3. PICK B \in Seq(FileFrame) :
          B = Frames("DATA", id, SubSeq(c, 1, k * FrameLen), 1, k + 1) /\ Len(B) = k
          /\ \A x \in 1 .. k : B[x].id = id /\ B[x].n = x /\ B[x].type = "DATA" /\ B[x].data = Block(c, x)
    BY <1>1, TransferData
  <1>4. PICK C \in Seq(FileFrame) :
          C = Frames("END", id, Rest(c), k + 1, k + 1) /\ Len(C) = (IF Len(c) % FrameLen = 0 THEN 0 ELSE 1)
          /\ (Len(C) = 1 => C[1].id = id /\ C[1].n = k + 1 /\ C[1].type = "END"
                            /\ Strip(C[1].data) = Strip(Rest(c)))
    <2>1. PICK t \in Int : t = k + 1
      OBVIOUS
    <2>2. PICK F : F = Frames("END", id, Rest(c), t, t)
      OBVIOUS
    <2>3. /\ F \in Seq(FileFrame) /\ Len(F) = (IF Len(c) % FrameLen = 0 THEN 0 ELSE 1)
          /\ Len(F) = 1 => F[1].id = id /\ F[1].n = t /\ F[1].type = "END"
                           /\ Strip(F[1].data) = Strip(Rest(c))
      BY SMTT(60), <1>1, <2>1, <2>2, TransferEnd
    <2> QED BY <2>1, <2>2, <2>3
  <1>5. Transfer(id, c) = A \o B \o C
    BY <1>1, <1>2, <1>3, <1>4 DEF Transfer, Rest
  <1>6. /\ A \o B \in Seq(FileFrame) /\ Len(A \o B) = 1 + k
        /\ \A j \in 1 .. 1 + k : (A \o B)[j] = IF j <= 1 THEN A[j] ELSE B[j - 1]
    <2>1. /\ A \o B \in Seq(FileFrame) /\ Len(A \o B) = Len(A) + Len(B)
          /\ \A j \in 1 .. Len(A) + Len(B) : (A \o B)[j] = IF j <= Len(A) THEN A[j] ELSE B[j - Len(A)]
      BY ConcatProperties
    <2>2. Len(A) = 1 /\ Len(B) = k
      BY <1>2, <1>3
    <2> QED BY <2>1, <2>2
  <1>7. PICK AB \in Seq(FileFrame) : AB = A \o B
    BY <1>6
  <1>8. /\ AB \o C \in Seq(FileFrame) /\ Len(AB \o C) = 1 + k + Len(C)
        /\ \A j \in 1 .. 1 + k + Len(C) : (AB \o C)[j] = IF j <= 1 + k THEN AB[j] ELSE C[j - (1 + k)]
    BY SMTT(60), <1>4, <1>6, <1>7, ConcatProperties
  <1>9. PICK T \in Seq(FileFrame) : T = Transfer(id, c) /\ Len(T) = 1 + k + Len(C)
            /\ \A j \in 1 .. 1 + k + Len(C) : T[j] = IF j <= 1 + k THEN AB[j] ELSE C[j - (1 + k)]
    BY <1>5, <1>7, <1>8
  <1>10. Len(C) \in {0, 1}
    BY <1>4
  <1>11. ASSUME NEW j \in 1 .. Len(T) PROVE T[j].id = id /\ GoodAt(T[j], c, j - 1)
    <2>1. CASE j = 1
      <3>1. T[j] = A[1] /\ j - 1 = 0 /\ 0 \notin 1 .. k /\ 0 # k + 1
        <4>1. j <= 1 /\ j <= 1 + k /\ j \in 1 .. 1 + k /\ j \in 1 .. 1 + k + Len(C)
              /\ j - 1 = 0 /\ 0 \notin 1 .. k /\ 0 # k + 1
          BY <1>10, <2>1
        <4>2. T[j] = AB[j]
          BY <1>9, <4>1, Zenon
        <4>3. AB[j] = A[j]
          BY <1>6, <1>7, <4>1, Zenon
        <4> QED BY <2>1, <4>1, <4>2, <4>3
      <3> QED BY <1>1, <1>2, <3>1 DEF GoodAt
    <2>2. CASE j \in 2 .. 1 + k
      <3>0. j \in Nat /\ ~(j <= 1) /\ j <= 1 + k /\ j \in 1 .. 1 + k /\ j \in 1 .. 1 + k + Len(C)
        BY <1>9, <1>10, <2>2
      <3>1. T[j] = B[j - 1] /\ j - 1 \in 1 .. k /\ j - 1 # 0 /\ j - 1 # k + 1
        <4>1. T[j] = AB[j]
          BY <1>9, <3>0, Zenon
        <4>2. AB[j] = B[j - 1]
          BY <1>6, <1>7, <3>0, Zenon
        <4> QED BY SMTT(60), <3>0, <4>1, <4>2
      <3> QED BY <1>1, <1>3, <3>1 DEF GoodAt
    <2>3. CASE j = k + 2 /\ Len(C) = 1
      <3>1. T[j] = C[1] /\ j - 1 = k + 1 /\ k + 1 \notin 1 .. k /\ k + 1 # 0
        <4>1. ~(j <= 1 + k) /\ j \in 1 .. 1 + k + Len(C) /\ j - (1 + k) = 1
              /\ j - 1 = k + 1 /\ k + 1 \notin 1 .. k /\ k + 1 # 0
          BY <2>3
        <4>2. T[j] = C[j - (1 + k)]
          BY <1>9, <4>1, Zenon
        <4> QED BY <4>1, <4>2
      <3> QED BY <1>1, <1>4, <2>3, <3>1 DEF GoodAt
    <2> QED BY SMTT(60), <1>9, <1>10, <2>1, <2>2, <2>3
  <1> QED BY <1>1, <1>4, <1>9, <1>11

(* The part asked for is the one of the file.                              *)
LEMMA LastPartIs ==
    ASSUME NEW c \in Files
    PROVE  /\ LastPart(c) \in Int /\ LastPart(c) >= -1 /\ LastPart(c) <= FullFrames(c)
           /\ \A n \in Nat : /\ n * FrameLen < Len(c) <=> n <= LastPart(c)
                             /\ n = LastPart(c) => Len(c) <= n * FrameLen + FrameLen
  <1>1. PICK q \in Nat : q = (Len(c) + FrameLen - 1) \div FrameLen
                         /\ Len(c) <= q * FrameLen /\ q * FrameLen < Len(c) + FrameLen
    BY FileSizes, FrameCount
  <1>2. LastPart(c) = q - 1
    BY <1>1 DEF LastPart
  <1>3. FrameLen \in Nat \ {0} /\ Len(c) \in Nat
    BY FileAssumption, FileSizes
  <1>4. PICK k \in Nat : k = FullFrames(c) /\ Len(c) < k * FrameLen + FrameLen
    BY FileSizes
  <1>5. q <= k + 1
    <2>1. /\ (k + 1) * FrameLen = k * FrameLen + FrameLen /\ k * FrameLen \in Nat
          /\ (k + 1 + 1) * FrameLen = (k + 1) * FrameLen + FrameLen /\ q * FrameLen \in Nat
      <3>1. k + 1 \in Nat
        OBVIOUS
      <3> QED BY <3>1, FileTimes
    <2>2. q * FrameLen < (k + 1 + 1) * FrameLen
      BY SMTT(60), <1>1, <1>3, <1>4, <2>1
    <2>3. q < k + 1 + 1
      BY <2>2, FileTimes
    <2> QED BY <2>3
  <1>6. ASSUME NEW n \in Nat
        PROVE  (n * FrameLen < Len(c) <=> n <= q - 1) /\ (n = q - 1 => Len(c) <= n * FrameLen + FrameLen)
    <2>1. n * FrameLen \in Nat /\ q * FrameLen \in Nat /\ (n + 1) * FrameLen = n * FrameLen + FrameLen
      BY FileTimes
    <2>2. n * FrameLen < Len(c) => n < q
      <3>1. n * FrameLen < Len(c) => n * FrameLen < q * FrameLen
        BY <1>1, <1>3, <2>1
      <3> QED BY <3>1, FileTimes
    <2>3. n < q => n * FrameLen < Len(c)
      <3>1. n < q => n + 1 <= q /\ n + 1 \in Nat
        OBVIOUS
      <3>2. n < q => (n + 1) * FrameLen <= q * FrameLen
        BY <3>1, FileTimes
      <3> QED BY <1>1, <1>3, <2>1, <3>2
    <2>4. n = q - 1 => n + 1 = q
      OBVIOUS
    <2> QED BY <1>1, <2>1, <2>2, <2>3, <2>4
  <1> QED BY <1>2, <1>4, <1>5, <1>6

LEMMA PartFrames ==
    ASSUME NEW c \in Files, NEW start \in Nat, NEW end \in Int, NEW to \in Nat,
           IF end < 0 THEN start = 0 ELSE start <= end, start * FrameLen <= Len(c),
           to = (IF end < 0 \/ end * FrameLen > Len(c) THEN Len(c) ELSE end * FrameLen)
    PROVE  LET F == Frames("PART", PartId, SubSeq(c, start * FrameLen + 1, to), start, LastPart(c)) IN
           F \in Seq(FileFrame) /\ \A f \in 1 .. Len(F) : GoodPart(F[f], c)
  <1>0. c \in Seq(Bytes) /\ Len(c) \in Nat /\ FrameLen \in Nat \ {0} /\ PartId \in Nat
    BY SMTT(60), FileAssumption, FileSizes DEF PartId
  <1>1. PICK lo \in Nat : lo = start * FrameLen
    BY FileTimes
  <1>2. lo <= to /\ to <= Len(c)
    <2>1. CASE end < 0 \/ end * FrameLen > Len(c)
      BY <1>0, <1>1, <2>1
    <2>2. CASE ~(end < 0 \/ end * FrameLen > Len(c))
      <3>1. end \in Nat /\ start <= end
        BY <2>2
      <3>2. start * FrameLen <= end * FrameLen
        BY <3>1, FileTimes
      <3>3. end * FrameLen \in Nat
        BY <3>1, FileTimes
      <3> QED BY <1>0, <1>1, <2>2, <3>2, <3>3
    <2> QED BY <2>1, <2>2
  <1>3. PICK b \in Seq(Bytes) : b = SubSeq(c, lo + 1, to) /\ Len(b) = to - lo
    BY ZenonT(60), <1>0, <1>2, BytesCut
  <1>4. PICK type \in {"START", "DATA", "END", "PART"} : type = "PART"
    OBVIOUS
  <1>5. PICK t \in Int : t = LastPart(c)
    BY LastPartIs
  <1>6. PICK q \in Nat : q = (Len(b) + FrameLen - 1) \div FrameLen /\ q * FrameLen < Len(b) + FrameLen
    <2>1. Len(b) \in Nat
      OBVIOUS
    <2> QED BY <2>1, FrameCount
  <1> DEFINE F == Frames(type, PartId, b, start, t)
  <1>7. F \in Seq(FileFrame) /\ Len(F) = q
        /\ \A f \in 1 .. q : FrameIs(F[f], type, PartId, start + f - 1, t, b, (f - 1) * FrameLen)
    <2>1. start \in Int
      OBVIOUS
    <2>2. PICK id \in Nat : id = PartId
      BY <1>0
    <2>3. /\ Frames(type, id, b, start, t) \in Seq(FileFrame)
          /\ Len(Frames(type, id, b, start, t)) = (Len(b) + FrameLen - 1) \div FrameLen
          /\ \A f \in 1 .. (Len(b) + FrameLen - 1) \div FrameLen :
                FrameIs(Frames(type, id, b, start, t)[f], type, id, start + f - 1, t, b, (f - 1) * FrameLen)
      BY <2>1, FramesAre, Zenon
    <2> HIDE DEF F
    <2>4. Frames(type, id, b, start, t) = F
      BY <2>2 DEF F
    <2> QED BY <1>6, <2>2, <2>3, <2>4
  <1>8. F = Frames("PART", PartId, SubSeq(c, start * FrameLen + 1, to), start, LastPart(c))
    BY <1>1, <1>3, <1>4, <1>5
  <1> HIDE DEF F
  <1>9. ASSUME NEW f \in 1 .. q PROVE GoodPart(F[f], c)
    <2>1. PICK g \in Nat : g = f - 1 /\ f = g + 1
      <3>1. f - 1 \in Nat /\ f = (f - 1) + 1
        OBVIOUS
      <3> QED BY <3>1
    <2>2. PICK n \in Nat : n = start + g
      OBVIOUS
    <2>3. PICK a \in Nat : a = g * FrameLen
      BY FileTimes
    <2>4. n * FrameLen = lo + a /\ n * FrameLen \in Nat /\ (n + 1) * FrameLen = n * FrameLen + FrameLen
      <3>1. (start + g) * FrameLen = start * FrameLen + g * FrameLen
        BY <1>0
      <3>2. n * FrameLen \in Nat /\ (n + 1) * FrameLen = n * FrameLen + FrameLen
        BY FileTimes
      <3> QED BY <1>1, <2>2, <2>3, <3>1, <3>2
    <2>5. a < to - lo
      <3>1. (g + 1) * FrameLen = a + FrameLen /\ g + 1 <= q /\ g + 1 \in Nat
        BY <2>1, <2>3, FileTimes
      <3>2. (g + 1) * FrameLen <= q * FrameLen /\ q * FrameLen \in Nat
        BY <3>1, FileTimes
      <3>3. a + FrameLen < Len(b) + FrameLen
        BY <1>0, <1>6, <3>1, <3>2
      <3> QED BY <1>0, <1>3, <3>3
    <2>6. n * FrameLen < to /\ n * FrameLen < Len(c)
      BY <1>0, <1>2, <2>4, <2>5
    <2>7. n <= t /\ (n = t => Len(c) <= n * FrameLen + FrameLen)
      BY <1>5, <2>6, LastPartIs
    <2>8. lo + a + FrameLen <= to \/ to = Len(c)
      <3>1. CASE end < 0 \/ end * FrameLen > Len(c)
        BY <3>1
      <3>2. CASE ~(end < 0 \/ end * FrameLen > Len(c))
        <4>1. end \in Nat /\ to = end * FrameLen
          BY <3>2
        <4>2. n < end
          BY ZenonT(60), <2>6, <4>1, FileTimes
        <4>3. n + 1 <= end /\ n + 1 \in Nat
          BY <4>1, <4>2
        <4>4. (n + 1) * FrameLen <= to
          BY ZenonT(60), <4>1, <4>3, FileTimes
        <4> QED BY <2>4, <4>4
      <3> QED BY <3>1, <3>2
    <2>9. /\ F[f].type = "PART" /\ F[f].id = PartId /\ F[f].total = t
          /\ F[f].n = start + f - 1 /\ DataOf(F[f].data, b, (f - 1) * FrameLen)
      BY <1>4, <1>7 DEF FrameIs
    <2>10. F[f].n = n
      BY <2>1, <2>2, <2>9
    <2>11. PICK d : d = F[f].data
      OBVIOUS
    <2>12. DataOf(d, SubSeq(c, lo + 1, to), a)
      BY <1>3, <2>1, <2>3, <2>9, <2>11
    <2>13. DataOf(d, c, lo + a)
      BY <1>0, <1>2, <2>8, <2>12, DataOfPart
    <2>14. PICK at \in Nat : at = n * FrameLen /\ DataOf(d, c, at)
      BY <2>4, <2>13
    <2>15. CASE n = t
      <3>1. at <= Len(c) /\ Len(c) <= at + FrameLen
        BY <1>0, <2>6, <2>7, <2>14, <2>15
      <3>2. Strip(d) = Strip(SubSeq(c, at + 1, Len(c)))
        BY <1>0, <2>14, <3>1, DataLast
      <3>3. Content(F[f]) = Strip(d)
        BY <2>9, <2>10, <2>11, <2>15 DEF Content
      <3>4. PartBytes(c, n) = Strip(SubSeq(c, at + 1, Len(c)))
        BY <1>5, <2>14, <2>15 DEF PartBytes
      <3> QED BY SMTT(60), <1>5, <2>7, <2>9, <2>10, <3>2, <3>3, <3>4 DEF GoodPart
    <2>16. CASE n # t
      <3>1. n + 1 <= t /\ n + 1 \in Nat
        BY <2>7, <2>16
      <3>2. (n + 1) * FrameLen < Len(c)
        BY <1>5, <3>1, LastPartIs
      <3>3. at + FrameLen <= Len(c)
        BY <1>0, <2>4, <2>14, <3>2
      <3>4. d = SubSeq(c, at + 1, at + FrameLen)
        BY <1>0, <2>14, <3>3, DataFull
      <3>5. Content(F[f]) = d
        BY <2>9, <2>10, <2>11, <2>16 DEF Content
      <3>6. PartBytes(c, n) = SubSeq(c, at + 1, at + FrameLen)
        BY <1>5, <2>4, <2>14, <2>16 DEF PartBytes
      <3>7. Content(F[f]) = PartBytes(c, F[f].n)
        BY <2>10, <3>4, <3>5, <3>6
      <3>8. F[f].n \in 0 .. LastPart(c) /\ F[f].total = LastPart(c)
        BY <1>5, <2>7, <2>9, <2>10
      <3> QED BY <2>9, <3>7, <3>8 DEF GoodPart
    <2> QED BY <2>15, <2>16
  <1> QED BY <1>7, <1>8, <1>9

--------------------------------------------------------------------------------
(* The link *)

LEMMA WithIs ==
    ASSUME NEW g, NEW x, NEW v
    PROVE  /\ DOMAIN With(g, x, v) = DOMAIN g \cup {x}
           /\ With(g, x, v)[x] = v
           /\ \A y \in DOMAIN g : y # x => With(g, x, v)[y] = g[y]
  BY DEF With

LEMMA Ids ==
    ASSUME FileType
    PROVE  /\ Len(answer) \in Nat /\ PartId \in Nat /\ PartId \notin 1 .. Len(answer)
           /\ sent[PartId] \in Files /\ \A id \in 1 .. Len(answer) : sent[id] \in Files /\ id \in Nat
           /\ DOMAIN link = 1 .. Len(link) /\ Len(link) \in Nat
  <1>1. Len(answer) \in Nat /\ Len(answer) <= MaxSends /\ MaxSends \in Nat
    BY FileAssumption DEF FileType
  <1>2. PartId \in Nat /\ PartId \notin 1 .. Len(answer)
    BY <1>1 DEF PartId
  <1> QED BY <1>1, <1>2 DEF FileType

LEMMA LinkGrows ==
    ASSUME link \in Seq(FileFrame), NEW G \in Seq(FileFrame), link' = link \o G
    PROVE  /\ link' \in Seq(FileFrame) /\ Len(link') = Len(link) + Len(G)
           /\ \A i \in DOMAIN link : i \in DOMAIN link' /\ link'[i] = link[i]
           /\ \A j \in 1 .. Len(G) : Len(link) + j \in DOMAIN link' /\ link'[Len(link) + j] = G[j]
           /\ \A i \in DOMAIN link' : i \in DOMAIN link \/ \E j \in 1 .. Len(G) : i = Len(link) + j
  <1>1. link \in Seq(FileFrame)
    OBVIOUS
  <1>2. /\ link' \in Seq(FileFrame) /\ Len(link') = Len(link) + Len(G)
        /\ \A i \in 1 .. Len(link) + Len(G) : link'[i] = IF i <= Len(link) THEN link[i] ELSE G[i - Len(link)]
    BY <1>1, ConcatProperties
  <1>3. DOMAIN link = 1 .. Len(link) /\ DOMAIN link' = 1 .. Len(link) + Len(G) /\ Len(link) \in Nat /\ Len(G) \in Nat
    BY <1>1, <1>2
  <1>4. ASSUME NEW j \in 1 .. Len(G)
        PROVE  Len(link) + j \in DOMAIN link' /\ link'[Len(link) + j] = G[j]
    <2>1. Len(link) + j \in 1 .. Len(link) + Len(G) /\ ~(Len(link) + j <= Len(link)) /\ Len(link) + j - Len(link) = j
      BY <1>3
    <2> QED BY <1>2, <1>3, <2>1
  <1>5. ASSUME NEW i \in DOMAIN link'
        PROVE  i \in DOMAIN link \/ \E j \in 1 .. Len(G) : i = Len(link) + j
    <2>1. i \in 1 .. Len(link) + Len(G)
      BY <1>3
    <2>2. i <= Len(link) => i \in 1 .. Len(link)
      BY <1>3, <2>1
    <2>3. ~(i <= Len(link)) => i - Len(link) \in 1 .. Len(G) /\ i = Len(link) + (i - Len(link))
      BY <1>3, <2>1
    <2> QED BY <1>3, <2>2, <2>3
  <1>6. ASSUME NEW i \in DOMAIN link PROVE i \in DOMAIN link' /\ link'[i] = link[i]
    <2>1. i \in 1 .. Len(link) + Len(G) /\ i <= Len(link)
      BY <1>3
    <2> QED BY <1>2, <1>3, <2>1
  <1> QED BY <1>2, <1>4, <1>5, <1>6

LEMMA LinkTail ==
    ASSUME link \in Seq(FileFrame), link # <<>>, link' = Tail(link)
    PROVE  /\ link' \in Seq(FileFrame) /\ Len(link') = Len(link) - 1 /\ Len(link) >= 1
           /\ Head(link) = link[1] /\ 1 \in DOMAIN link /\ link[1] \in FileFrame
           /\ \A i \in DOMAIN link' : i + 1 \in DOMAIN link /\ link'[i] = link[i + 1] /\ i + 1 # 1 /\ i \in Nat
           /\ \A i \in DOMAIN link : i # 1 => i - 1 \in DOMAIN link' /\ link'[i - 1] = link[i]
  <1>1. link \in Seq(FileFrame)
    OBVIOUS
  <1>2. Len(link) \in Nat /\ Len(link) >= 1 /\ DOMAIN link = 1 .. Len(link)
    BY <1>1
  <1>3. /\ link' \in Seq(FileFrame) /\ Len(link') = Len(link) - 1
        /\ \A i \in 1 .. Len(link') : link'[i] = link[i + 1]
    BY <1>1, HeadTailProperties
  <1>4. DOMAIN link' = 1 .. Len(link) - 1
    BY <1>3
  <1>5. Head(link) = link[1] /\ 1 \in DOMAIN link /\ link[1] \in FileFrame
    BY <1>1, <1>2
  <1>6. ASSUME NEW i \in DOMAIN link'
        PROVE  i + 1 \in DOMAIN link /\ link'[i] = link[i + 1] /\ i + 1 # 1 /\ i \in Nat
    BY <1>2, <1>3, <1>4
  <1>7. ASSUME NEW i \in DOMAIN link, i # 1
        PROVE  i - 1 \in DOMAIN link' /\ link'[i - 1] = link[i]
    <2>1. i - 1 \in 1 .. Len(link) - 1 /\ (i - 1) + 1 = i
      BY <1>2, <1>7
    <2> QED BY <1>3, <1>4, <2>1
  <1> QED BY <1>2, <1>3, <1>5, <1>6, <1>7

--------------------------------------------------------------------------------
(* The sender: frames are added, transfers begin, nothing sent changes. *)

Grown(S, n, S2, n2) == n <= n2 /\ S2[PartId] = S[PartId] /\ \A id \in 1 .. n : S2[id] = S[id]

LEMMA FrameKept ==
    ASSUME NEW S, NEW n \in Nat, NEW S2, NEW n2 \in Nat, Grown(S, n, S2, n2), NEW fr, GoodFrame(fr, S, n)
    PROVE  GoodFrame(fr, S2, n2)
  <1>1. CASE GoodPart(fr, S[PartId])
    BY <1>1 DEF GoodFrame, Grown
  <1>2. CASE fr.id \in 1 .. n /\ fr.n \in 0 .. FullFrames(S[fr.id]) + 1 /\ GoodAt(fr, S[fr.id], fr.n)
    <2>1. fr.id \in 1 .. n2 /\ S2[fr.id] = S[fr.id]
      BY <1>2 DEF Grown
    <2> QED BY <1>2, <2>1 DEF GoodFrame
  <1> QED BY <1>1, <1>2 DEF GoodFrame

LEMMA FileKept ==
    ASSUME NEW S, NEW n \in Nat, NEW S2, NEW n2 \in Nat, Grown(S, n, S2, n2), NEW f, NEW r,
           FileGood(f, r, S, n) \/ PartGood(f, r, S[PartId])
    PROVE  FileGood(f, r, S2, n2) \/ PartGood(f, r, S2[PartId])
  <1>1. CASE FileGood(f, r, S, n)
    <2>1. r.id \in 1 .. n
      BY <1>1 DEF FileGood
    <2>2. r.id \in 1 .. n2 /\ S2[r.id] = S[r.id]
      BY <2>1 DEF Grown
    <2> QED BY <1>1, <2>2 DEF FileGood
  <1>2. CASE PartGood(f, r, S[PartId])
    BY <1>2 DEF Grown
  <1> QED BY <1>1, <1>2

LEMMA RecvKept ==
    ASSUME NEW S, NEW n \in Nat, NEW S2, NEW n2 \in Nat, Grown(S, n, S2, n2), NEW R, NEW D,
           RecvGood(R, D, S, n)
    PROVE  RecvGood(R, D, S2, n2)
  <1>1. SUFFICES ASSUME R.name # <<>> PROVE RecvGood(R, D, S2, n2)
    BY DEF RecvGood
  <1>2. R.id \in 1 .. n
    BY <1>1 DEF RecvGood
  <1>3. R.id \in 1 .. n2 /\ S2[R.id] = S[R.id]
    BY <1>2 DEF Grown
  <1> QED BY <1>3 DEF RecvGood

LEMMA AheadKept ==
    ASSUME NEW L, NEW L2, NEW R, NEW c, NEW id,
           \A i \in DOMAIN L : i \in DOMAIN L2 /\ L2[i] = L[i], OnWay(L, R, c, id)
    PROVE  OnWay(L2, R, c, id)
  <1>1. PICK s \in Nat, b \in 0 .. FullFrames(c) + 1 : Ahead(L, R, c, id, s, b)
    BY DEF OnWay
  <1>2. Ahead(L2, R, c, id, s, b)
    BY <1>1 DEF Ahead
  <1> QED BY <1>2 DEF OnWay

(* A START frame is the first of a transfer.                               *)
LEMMA StartFirst ==
    ASSUME NEW S, NEW n, NEW fr, GoodFrame(fr, S, n), \A id \in 1 .. n : S[id] \in Files, fr.type = "START"
    PROVE  fr.id \in 1 .. n /\ fr.n = 0
  <1>1. fr.id \in 1 .. n /\ fr.n \in 0 .. FullFrames(S[fr.id]) + 1 /\ GoodAt(fr, S[fr.id], fr.n)
    BY DEF GoodFrame, GoodPart
  <1>2. fr.n \notin 1 .. FullFrames(S[fr.id]) /\ fr.n # FullFrames(S[fr.id]) + 1
    BY <1>1 DEF GoodAt
  <1>3. FullFrames(S[fr.id]) \in Nat
    BY <1>1, FileSizes
  <1>4. fr.n = 0
    BY <1>1, <1>2, <1>3
  <1> QED BY <1>1, <1>4

LEMMA Sends ==
    ASSUME FileInv, NEW G \in Seq(FileFrame), link' = link \o G, FileType',
           UNCHANGED <<disk, recv, spoilt>>,
           Grown(sent, Len(answer), sent', Len(answer')),
           \A j \in 1 .. Len(G) : GoodFrame(G[j], sent', Len(answer')),
           \A j \in 1 .. Len(G) : G[j].type = "START" => j = 1 /\ G[j].id = Len(answer) + 1,
           \A id \in 1 .. Len(answer') : answer'[id] =>
               (id \in 1 .. Len(answer) /\ answer[id]) \/ OnWay(link', recv, sent'[id], id)
    PROVE  FileInv'
  <1> DEFINE n == Len(answer)
             n2 == Len(answer')
  <1>0. n \in Nat /\ n2 \in Nat /\ FileType
    BY DEF FileInv, FileType
  <1>1. /\ \A i \in DOMAIN link : i \in DOMAIN link' /\ link'[i] = link[i]
        /\ \A j \in 1 .. Len(G) : Len(link) + j \in DOMAIN link' /\ link'[Len(link) + j] = G[j]
        /\ \A i \in DOMAIN link' : i \in DOMAIN link \/ \E j \in 1 .. Len(G) : i = Len(link) + j
    BY <1>0, LinkGrows DEF FileType
  <1>2. LinkInv'
    <2>1. ASSUME NEW i \in DOMAIN link' PROVE GoodFrame(link'[i], sent', n2)
      <3>1. CASE i \in DOMAIN link
        <4>1. GoodFrame(link[i], sent, n)
          BY <3>1 DEF FileInv, LinkInv
        <4> QED BY <1>0, <1>1, <3>1, <4>1, FrameKept
      <3>2. CASE \E j \in 1 .. Len(G) : i = Len(link) + j
        BY <1>1, <3>2
      <3> QED BY <1>1, <3>1, <3>2
    <2> QED BY <2>1 DEF LinkInv
  <1>3. RecvInv'
    BY <1>0, RecvKept DEF FileInv, RecvInv
  <1>4. DiskInv'
    <2>1. ASSUME NEW f \in DOMAIN disk
          PROVE  FileGood(f, disk[f], sent', n2) \/ PartGood(f, disk[f], sent'[PartId])
      <3>1. FileGood(f, disk[f], sent, n) \/ PartGood(f, disk[f], sent[PartId])
        BY DEF FileInv, DiskInv
      <3> QED BY <1>0, <3>1, FileKept
    <2> QED BY <2>1 DEF DiskInv
  <1>6. ASSUME NEW i \in DOMAIN link', link'[i].type = "START"
        PROVE  \/ i \in DOMAIN link /\ link'[i] = link[i] /\ link[i].id \in 1 .. n /\ Unseen(recv, disk, link[i].id)
               \/ i = Len(link) + 1 /\ link'[i].id = n + 1
    <2>1. CASE i \in DOMAIN link
      <3>1. GoodFrame(link[i], sent, n) /\ link[i].type = "START" /\ Unseen(recv, disk, link[i].id)
        BY <1>1, <1>6, <2>1 DEF FileInv, LinkInv, StartInv
      <3>2. link[i].id \in 1 .. n
        BY <1>0, <3>1, Ids, StartFirst
      <3> QED BY <1>1, <2>1, <3>1, <3>2
    <2>2. CASE \E j \in 1 .. Len(G) : i = Len(link) + j
      BY <1>1, <1>6, <2>2
    <2> QED BY <1>1, <2>1, <2>2
  <1>7. Unseen(recv, disk, n + 1)
    <2>1. n + 1 \notin 1 .. n
      BY <1>0
    <2>2. recv.name # <<>> => recv.id # n + 1
      BY <2>1 DEF FileInv, RecvInv, RecvGood
    <2>3. ASSUME NEW f \in DOMAIN disk, f[1] = "file" PROVE disk[f].id # n + 1
      <3>1. ~PartGood(f, disk[f], sent[PartId])
        BY <2>3 DEF PartGood, PartName
      <3>2. disk[f].id \in 1 .. n
        BY <3>1 DEF FileInv, DiskInv, FileGood
      <3> QED BY <2>1, <3>2
    <2> QED BY <2>2, <2>3 DEF Unseen
  <1>8. StartInv'
    <2>1. ASSUME NEW i \in DOMAIN link', NEW j \in DOMAIN link',
                 link'[i].type = "START", link'[j].type = "START", link'[i].id = link'[j].id
          PROVE  i = j
      <3>1. n + 1 \notin 1 .. n
        BY <1>0
      <3> QED BY <1>6, <2>1, <3>1 DEF FileInv, StartInv
    <2>2. ASSUME NEW i \in DOMAIN link', link'[i].type = "START" PROVE Unseen(recv, disk, link'[i].id)
      BY <1>6, <1>7, <2>2
    <2> QED BY <2>1, <2>2 DEF StartInv
  <1>9. ArriveInv'
    <2>1. SUFFICES ASSUME ~spoilt, NEW id \in 1 .. n2, answer'[id]
                   PROVE  Arrived(disk, id) \/ OnWay(link', recv, sent'[id], id)
      BY DEF ArriveInv
    <2>2. CASE id \in 1 .. n /\ answer[id]
      <3>1. Arrived(disk, id) \/ OnWay(link, recv, sent[id], id)
        BY <2>1, <2>2 DEF FileInv, ArriveInv
      <3>2. sent'[id] = sent[id]
        BY <2>2 DEF Grown
      <3>3. OnWay(link, recv, sent[id], id) => OnWay(link', recv, sent[id], id)
        <4>1. PICK L, L2, R, c : L = link /\ L2 = link' /\ R = recv /\ c = sent[id]
          OBVIOUS
        <4>2. OnWay(L, R, c, id) => OnWay(L2, R, c, id)
          <5>1. \A i \in DOMAIN L : i \in DOMAIN L2 /\ L2[i] = L[i]
            BY <1>1, <4>1
          <5> QED BY <5>1, AheadKept, Zenon
        <4> QED BY <4>1, <4>2
      <3> QED BY <3>1, <3>2, <3>3
    <2> QED BY <2>1, <2>2
  <1> QED BY <1>2, <1>3, <1>4, <1>8, <1>9 DEF FileInv

LEMMA FirstFrames ==
    ASSUME NEW F \in Seq(FileFrame), NEW m \in 0 .. Len(F)
    PROVE  /\ SubSeq(F, 1, m) \in Seq(FileFrame) /\ Len(SubSeq(F, 1, m)) = m
           /\ \A j \in 1 .. m : SubSeq(F, 1, m)[j] = F[j] /\ j \in 1 .. Len(F)
  <1>1. m \in Nat /\ m <= Len(F) /\ Len(F) \in Nat
    OBVIOUS
  <1>2. PICK e \in Int : e = m
    BY <1>1
  <1>3. PICK one \in Int : one = 1
    OBVIOUS
  <1>4. \A k \in one .. e : F[k] \in FileFrame
    BY <1>1, <1>2, <1>3
  <1>5. /\ SubSeq(F, one, e) \in Seq(FileFrame)
        /\ Len(SubSeq(F, one, e)) = IF one <= e THEN e - one + 1 ELSE 0
        /\ \A k \in 1 .. e - one + 1 : SubSeq(F, one, e)[k] = F[one + k - 1]
    BY <1>4, SubSeqProperties
  <1>6. (IF one <= e THEN e - one + 1 ELSE 0) = m /\ e - one + 1 = m /\ \A k \in 1 .. m : one + k - 1 = k
    BY <1>1, <1>2, <1>3
  <1>7. \A k \in 1 .. m : k \in 1 .. Len(F)
    BY <1>1
  <1> QED BY <1>2, <1>3, <1>5, <1>6, <1>7

LEMMA SendFileStep ==
    ASSUME FileInv, NEW c \in Files, NEW id \in Nat, id = Len(answer) + 1,
           NEW m \in 0 .. MaxFrames, com_send_file(c, id, m)
    PROVE  FileInv'
  <1>0. FileType
    BY DEF FileInv
  <1>1. PICK n \in Nat : n = Len(answer) /\ n + 1 <= MaxSends /\ MaxSends \in Nat
    <2>1. Len(answer) \in Nat /\ MaxSends \in Nat
      BY <1>0, Ids, FileAssumption
    <2>2. Len(answer) + 1 <= MaxSends
      BY DEF com_send_file
    <2> QED BY <2>1, <2>2
  <1>2. id = n + 1
    BY <1>1
  <1>3. PICK T \in Seq(FileFrame) : /\ T = Transfer(id, c)
            /\ Len(T) = FullFrames(c) + 1 + (IF Len(c) % FrameLen = 0 THEN 0 ELSE 1)
            /\ \A j \in 1 .. Len(T) : T[j].id = id /\ GoodAt(T[j], c, j - 1)
    BY TransferFrames
  <1>4. /\ m \in 0 .. Len(T) /\ link' = link \o SubSeq(T, 1, m)
        /\ sent' = With(sent, id, c) /\ answer' = Append(answer, m = Len(T) /\ (Len(c) % FrameLen) # 0)
        /\ UNCHANGED <<disk, recv, spoilt>>
    BY <1>1, <1>2, <1>3 DEF com_send_file, com_send_file_parts
  <1>5. PICK G \in Seq(FileFrame) : G = SubSeq(T, 1, m) /\ Len(G) = m
            /\ \A j \in 1 .. m : G[j] = T[j] /\ j \in 1 .. Len(T)
    BY <1>4, FirstFrames
  <1>6. PICK k \in Nat : k = FullFrames(c) /\ k + 1 <= Len(T) /\ Len(T) <= k + 2 /\ Len(T) \in Nat
                         /\ ((Len(c) % FrameLen) # 0 => Len(T) = k + 2)
    BY SMTT(60), <1>3, FileSizes
  <1>7. /\ Len(answer') = n + 1 /\ answer' \in Seq(BOOLEAN)
        /\ answer'[n + 1] = (m = Len(T) /\ (Len(c) % FrameLen) # 0)
        /\ \A i \in 1 .. n : answer'[i] = answer[i]
    <2>1. answer \in Seq(BOOLEAN)
      BY <1>0 DEF FileType
    <2>2. PICK v \in BOOLEAN : v = (m = Len(T) /\ (Len(c) % FrameLen) # 0)
      OBVIOUS
    <2>3. answer' = Append(answer, v)
      BY <1>4, <2>2
    <2>4. Len(answer') = n + 1 /\ answer' \in Seq(BOOLEAN) /\ answer'[n + 1] = v
          /\ \A i \in 1 .. n : answer'[i] = answer[i]
      BY <1>1, <2>1, <2>3
    <2> QED BY <2>2, <2>4
  <1>8. /\ DOMAIN sent' = (1 .. n + 1) \cup {PartId} /\ sent'[n + 1] = c /\ sent'[PartId] = sent[PartId]
        /\ \A i \in 1 .. n : sent'[i] = sent[i]
    <2>1. DOMAIN sent = (1 .. n) \cup {PartId}
      BY <1>0, <1>1 DEF FileType
    <2>2. /\ DOMAIN sent' = DOMAIN sent \cup {id} /\ sent'[id] = c
          /\ \A y \in DOMAIN sent : y # id => sent'[y] = sent[y]
      <3>1. PICK S : S = sent
        OBVIOUS
      <3>2. /\ DOMAIN With(S, id, c) = DOMAIN S \cup {id} /\ With(S, id, c)[id] = c
            /\ \A y \in DOMAIN S : y # id => With(S, id, c)[y] = S[y]
        BY DEF With
      <3> QED BY <1>4, <3>1, <3>2
    <2>3. (1 .. n + 1) \cup {PartId} = (1 .. n) \cup {PartId} \cup {id} /\ PartId # id /\ \A i \in 1 .. n : i # id
      BY <1>1, <1>2 DEF PartId
    <2> QED BY <1>2, <2>1, <2>2, <2>3
  <1>9. FileType'
    <2>1. link' \in Seq(FileFrame)
      BY <1>0, <1>4, <1>5, LinkGrows DEF FileType
    <2>2. sent' \in [(1 .. Len(answer')) \cup {PartId} -> Files]
      <3>1. sent' = [y \in DOMAIN sent' |-> sent'[y]]
        BY <1>4 DEF With
      <3>2. \A y \in (1 .. n + 1) \cup {PartId} : sent'[y] \in Files
        <4>1. \A y \in 1 .. n + 1 : y \in 1 .. n \/ y = n + 1
          OBVIOUS
        <4>2. sent[PartId] \in Files /\ \A i \in 1 .. n : sent[i] \in Files
          BY <1>0, <1>1, Ids
        <4> QED BY <1>8, <4>1, <4>2
      <3> QED BY <1>7, <1>8, <3>1, <3>2
    <2> QED BY <1>0, <1>1, <1>4, <1>7, <2>1, <2>2 DEF FileType
  <1>10. Grown(sent, Len(answer), sent', Len(answer'))
    BY <1>1, <1>7, <1>8 DEF Grown
  <1>11. ASSUME NEW j \in 1 .. Len(G)
         PROVE  /\ GoodFrame(G[j], sent', Len(answer'))
                /\ G[j].type = "START" => j = 1 /\ G[j].id = Len(answer) + 1
    <2>1. G[j] = T[j] /\ T[j].id = id /\ GoodAt(T[j], c, j - 1) /\ j \in 1 .. Len(T)
      BY <1>3, <1>5
    <2>2. j - 1 \in 0 .. k + 1
      BY SMTT(60), <1>6, <2>1
    <2>3. G[j].n = j - 1 /\ sent'[G[j].id] = c /\ G[j].id \in 1 .. Len(answer')
      BY <1>2, <1>7, <1>8, <2>1 DEF GoodAt
    <2>4. GoodFrame(G[j], sent', Len(answer'))
      BY <1>6, <2>1, <2>2, <2>3 DEF GoodFrame
    <2>5. ASSUME G[j].type = "START" PROVE j = 1
      <3>1. j - 1 \notin 1 .. k /\ j - 1 # k + 1
        BY <1>6, <2>1, <2>5 DEF GoodAt
      <3> QED BY <2>2, <3>1
    <2> QED BY <1>1, <1>2, <2>1, <2>4, <2>5
  <1>12. ASSUME NEW i \in 1 .. Len(answer'), answer'[i]
         PROVE  (i \in 1 .. Len(answer) /\ answer[i]) \/ OnWay(link', recv, sent'[i], i)
    <2>1. CASE i \in 1 .. n
      BY <1>1, <1>7, <1>12, <2>1
    <2>2. CASE i = n + 1
      <3>1. m = k + 2 /\ Len(T) = k + 2
        BY <1>6, <1>7, <1>12, <2>2
      <3>2. PICK s \in Nat, z \in 0 .. k + 1 : s = Len(link) /\ z = 0
        <4>1. Len(link) \in Nat /\ 0 \in 0 .. k + 1
          BY <1>0, Ids
        <4> QED BY <4>1
      <3>3. ASSUME NEW x \in z .. k + 1
            PROVE  /\ s + 1 + (x - z) \in DOMAIN link' /\ link'[s + 1 + (x - z)].id = i
                   /\ GoodAt(link'[s + 1 + (x - z)], c, x)
        <4>1. PICK j \in 1 .. Len(G) : j = x + 1 /\ j - 1 = x /\ s + 1 + (x - z) = Len(link) + j
          <5>1. x + 1 \in 1 .. Len(G) /\ (x + 1) - 1 = x /\ s + 1 + (x - z) = Len(link) + (x + 1)
            BY <1>5, <3>1, <3>2
          <5> QED BY <5>1
        <4>2. Len(link) + j \in DOMAIN link' /\ link'[Len(link) + j] = G[j]
          BY <1>0, <1>4, <1>5, LinkGrows DEF FileType
        <4>3. G[j].id = id /\ GoodAt(G[j], c, j - 1)
          BY <1>3, <1>5
        <4> QED BY <1>2, <2>2, <4>1, <4>2, <4>3
      <3>4. ~(z > 0)
        BY <3>2
      <3>5. Ahead(link', recv, c, i, s, z)
        BY <1>6, <3>3, <3>4 DEF Ahead
      <3>6. OnWay(link', recv, c, i)
        BY <1>6, <3>5 DEF OnWay
      <3> QED BY <1>8, <2>2, <3>6
    <2> QED BY <1>7, <2>1, <2>2
  <1>13. link' = link \o G
    BY <1>4, <1>5
  <1> QED BY <1>4, <1>9, <1>10, <1>11, <1>12, <1>13, Sends

(* The frames of a request for parts.                                      *)
LEMMA PartsAsked ==
    ASSUME NEW c \in Files, c = sent[PartId], NEW start \in Nat, NEW end \in Int, NEW m \in Nat,
           tm_send_file_parts(start, end, m)
    PROVE  /\ \E G \in Seq(FileFrame) : link' = link \o G /\ \A j \in 1 .. Len(G) : GoodPart(G[j], c)
           /\ UNCHANGED <<disk, recv, sent, answer, merged, spoilt, repeated>>
  <1>2. c \in Seq(Bytes) /\ Len(c) \in Nat /\ FrameLen \in Nat
    BY FileSizes, FileAssumption
  <1>3. /\ IF end < 0 THEN start = 0 ELSE start <= end
        /\ start * FrameLen <= Len(c)
        /\ com_send_file_parts(Frames("PART", PartId, SubSeq(c, start * FrameLen + 1,
               IF end < 0 \/ end * FrameLen > Len(c) THEN Len(c) ELSE end * FrameLen), start, LastPart(c)), m)
        /\ UNCHANGED <<disk, recv, sent, answer, merged, spoilt, repeated>>
    BY DEF tm_send_file_parts
  <1>4. PICK to \in Nat : to = (IF end < 0 \/ end * FrameLen > Len(c) THEN Len(c) ELSE end * FrameLen)
    <2>1. CASE end < 0
      BY <1>2, <2>1
    <2>2. CASE ~(end < 0)
      <3>1. end \in Nat
        BY <2>2
      <3>2. end * FrameLen \in Nat
        BY <3>1, FileTimes
      <3> QED BY <1>2, <3>2
    <2> QED BY <2>1, <2>2
  <1>5. PICK F \in Seq(FileFrame) :
           F = Frames("PART", PartId, SubSeq(c, start * FrameLen + 1, to), start, LastPart(c))
           /\ \A f \in 1 .. Len(F) : GoodPart(F[f], c)
    BY <1>3, <1>4, PartFrames
  <1>6. m \in 0 .. Len(F) /\ link' = link \o SubSeq(F, 1, m)
    BY <1>3, <1>4, <1>5 DEF com_send_file_parts
  <1>7. PICK G \in Seq(FileFrame) : G = SubSeq(F, 1, m) /\ Len(G) = m
            /\ \A j \in 1 .. m : G[j] = F[j] /\ j \in 1 .. Len(F)
    BY <1>6, FirstFrames
  <1>8. link' = link \o G /\ \A j \in 1 .. Len(G) : GoodPart(G[j], c)
    BY <1>5, <1>6, <1>7
  <1> QED BY <1>3, <1>8

LEMMA PartsStep ==
    ASSUME FileInv, NEW start \in Nat, NEW end \in Int, NEW m \in Nat, tm_send_file_parts(start, end, m)
    PROVE  FileInv'
  <1>0. FileType
    BY DEF FileInv
  <1>1. PICK c \in Files : c = sent[PartId]
    BY <1>0, Ids
  <1>2. /\ \E G \in Seq(FileFrame) : link' = link \o G /\ \A j \in 1 .. Len(G) : GoodPart(G[j], c)
        /\ UNCHANGED <<disk, recv, sent, answer, spoilt>>
    BY <1>1, PartsAsked
  <1>3. PICK G \in Seq(FileFrame) : link' = link \o G /\ \A j \in 1 .. Len(G) : GoodPart(G[j], c)
    BY <1>2
  <1>4. FileType'
    <2>1. link' \in Seq(FileFrame)
      BY <1>0, <1>3, LinkGrows DEF FileType
    <2> QED BY <1>0, <1>2, <2>1 DEF FileType
  <1>5. Grown(sent, Len(answer), sent', Len(answer'))
    BY <1>0, <1>2, Ids DEF Grown
  <1>6. ASSUME NEW j \in 1 .. Len(G)
        PROVE  /\ GoodFrame(G[j], sent', Len(answer'))
               /\ G[j].type = "START" => j = 1 /\ G[j].id = Len(answer) + 1
    <2>1. GoodPart(G[j], sent'[PartId])
      BY <1>1, <1>2, <1>3
    <2> QED BY <2>1 DEF GoodFrame, GoodPart
  <1>7. ASSUME NEW i \in 1 .. Len(answer'), answer'[i]
        PROVE  (i \in 1 .. Len(answer) /\ answer[i]) \/ OnWay(link', recv, sent'[i], i)
    BY <1>2, <1>7
  <1> QED BY <1>2, <1>3, <1>4, <1>5, <1>6, <1>7, Sends

--------------------------------------------------------------------------------
(* The receiver: a frame leaves the link *)

LEMMA LinkStep ==
    ASSUME FileInv, link # <<>>, link' = Tail(link), UNCHANGED <<sent, answer>>,
           \A id : Unseen(recv, disk, id) /\ (link[1].type = "START" => link[1].id # id)
                   => Unseen(recv', disk', id)
    PROVE  LinkInv' /\ StartInv'
  <1>0. FileType
    BY DEF FileInv
  <1>1. /\ 1 \in DOMAIN link
        /\ \A i \in DOMAIN link' : i + 1 \in DOMAIN link /\ link'[i] = link[i + 1] /\ i + 1 # 1 /\ i \in Nat
    BY <1>0, LinkTail DEF FileType
  <1>2. LinkInv'
    BY <1>1 DEF FileInv, LinkInv
  <1>3. ASSUME NEW i \in DOMAIN link', NEW j \in DOMAIN link',
               link'[i].type = "START", link'[j].type = "START", link'[i].id = link'[j].id
        PROVE  i = j
    <2>1. i + 1 = j + 1
      BY <1>1, <1>3 DEF FileInv, StartInv
    <2> QED BY <1>1, <2>1
  <1>4. ASSUME NEW i \in DOMAIN link', link'[i].type = "START" PROVE Unseen(recv', disk', link'[i].id)
    <2>1. Unseen(recv, disk, link[i + 1].id) /\ link'[i].id = link[i + 1].id
      BY <1>1, <1>4 DEF FileInv, StartInv
    <2>2. link[1].type = "START" => link[1].id # link[i + 1].id
      BY <1>1, <1>4 DEF FileInv, StartInv
    <2> QED BY <2>1, <2>2
  <1>5. StartInv'
    BY <1>3, <1>4 DEF StartInv
  <1> QED BY <1>2, <1>5

LEMMA ArriveStep ==
    ASSUME FileInv, link # <<>>, link' = Tail(link), UNCHANGED <<sent, answer, spoilt>>,
           \A id : Arrived(disk, id) => Arrived(disk', id),
           \A id \in 1 .. Len(answer) : \A b \in 0 .. FullFrames(sent[id]) + 1 :
              /\ link[1].id = id /\ GoodAt(link[1], sent[id], b)
              /\ b > 0 => recv.name # <<>> /\ recv.id = id /\ recv.frame = b - 1
              => \/ Arrived(disk', id)
                 \/ b <= FullFrames(sent[id]) /\ recv'.name # <<>> /\ recv'.id = id /\ recv'.frame = b
    PROVE  ArriveInv'
  <1>0. FileType
    BY DEF FileInv
  <1>1. SUFFICES ASSUME ~spoilt, NEW id \in 1 .. Len(answer), answer[id]
                 PROVE  Arrived(disk', id) \/ OnWay(link', recv', sent[id], id)
    BY DEF ArriveInv
  <1>2. PICK c \in Files : c = sent[id]
    BY <1>0, Ids
  <1>3. PICK k \in Nat : k = FullFrames(c)
    BY FileSizes
  <1>4. Arrived(disk, id) \/ OnWay(link, recv, c, id)
    BY <1>1, <1>2 DEF FileInv, ArriveInv
  <1>5. CASE Arrived(disk, id)
    BY <1>5
  <1>6. CASE OnWay(link, recv, c, id)
    <2>1. PICK s \in Nat, b \in 0 .. k + 1 : Ahead(link, recv, c, id, s, b)
      BY <1>3, <1>6 DEF OnWay
    <2>2. \A i \in DOMAIN link : i # 1 => i - 1 \in DOMAIN link' /\ link'[i - 1] = link[i]
      BY <1>0, LinkTail DEF FileType
    <2>3. \A x \in b .. k + 1 :
             /\ s + 1 + (x - b) \in DOMAIN link /\ link[s + 1 + (x - b)].id = id
             /\ GoodAt(link[s + 1 + (x - b)], c, x)
      BY <1>3, <2>1 DEF Ahead
    <2>4. b > 0 => s = 0 /\ recv.name # <<>> /\ recv.id = id /\ recv.frame = b - 1
      BY <2>1 DEF Ahead
    <2>5. CASE s > 0
      <3>1. PICK s2 \in Nat : s2 = s - 1
        BY <2>5
      <3>2. ~(b > 0)
        BY <2>4, <2>5
      <3>3. ASSUME NEW x \in b .. k + 1
            PROVE  /\ s2 + 1 + (x - b) \in DOMAIN link' /\ link'[s2 + 1 + (x - b)].id = id
                   /\ GoodAt(link'[s2 + 1 + (x - b)], c, x)
        <4>1. s + 1 + (x - b) # 1 /\ s + 1 + (x - b) - 1 = s2 + 1 + (x - b)
          BY <2>5, <3>1
        <4>2. PICK i, i2 : i = s + 1 + (x - b) /\ i2 = s2 + 1 + (x - b)
          OBVIOUS
        <4>3. i \in DOMAIN link /\ link[i].id = id /\ GoodAt(link[i], c, x)
          BY <2>3, <4>2
        <4>4. i2 \in DOMAIN link' /\ link'[i2] = link[i]
          <5>1. i # 1 /\ i - 1 = i2
            BY <4>1, <4>2
          <5> QED BY <2>2, <4>3, <5>1
        <4> QED BY <4>2, <4>3, <4>4
      <3>4. Ahead(link', recv', c, id, s2, b)
        BY <1>3, <3>2, <3>3 DEF Ahead
      <3> QED BY <1>2, <1>3, <3>4 DEF OnWay
    <2>6. CASE s = 0
      <3>1. link[1].id = id /\ GoodAt(link[1], c, b)
        <4>1. b \in b .. k + 1 /\ s + 1 + (b - b) = 1
          BY <2>6
        <4> QED BY <2>3, <4>1
      <3>2. \/ Arrived(disk', id)
            \/ b <= k /\ recv'.name # <<>> /\ recv'.id = id /\ recv'.frame = b
        BY <1>2, <1>3, <2>4, <3>1
      <3>3. CASE b <= k /\ recv'.name # <<>> /\ recv'.id = id /\ recv'.frame = b
        <4>1. PICK b2 \in 0 .. k + 1 : b2 = b + 1 /\ b2 - 1 = b
          <5>1. b + 1 \in 0 .. k + 1 /\ (b + 1) - 1 = b
            BY <3>3
          <5> QED BY <5>1
        <4>2. ASSUME NEW x \in b2 .. k + 1
              PROVE  /\ s + 1 + (x - b2) \in DOMAIN link' /\ link'[s + 1 + (x - b2)].id = id
                     /\ GoodAt(link'[s + 1 + (x - b2)], c, x)
          <5>1. x \in b .. k + 1 /\ s + 1 + (x - b) # 1 /\ s + 1 + (x - b) - 1 = s + 1 + (x - b2)
            BY <2>6, <4>1
          <5>2. PICK i, i2 : i = s + 1 + (x - b) /\ i2 = s + 1 + (x - b2)
            OBVIOUS
          <5>3. i \in DOMAIN link /\ link[i].id = id /\ GoodAt(link[i], c, x)
            BY <2>3, <5>1, <5>2
          <5>4. i2 \in DOMAIN link' /\ link'[i2] = link[i]
            <6>1. i # 1 /\ i - 1 = i2
              BY <5>1, <5>2
            <6> QED BY <2>2, <5>3, <6>1
          <5> QED BY <5>2, <5>3, <5>4
        <4>3. Ahead(link', recv', c, id, s, b2)
          BY <1>3, <2>6, <3>3, <4>1, <4>2 DEF Ahead
        <4> QED BY <1>2, <1>3, <4>3 DEF OnWay
      <3> QED BY <3>2, <3>3
    <2> QED BY <2>5, <2>6
  <1> QED BY <1>4, <1>5, <1>6

(* A file is written: the others stay.                                     *)
LEMMA DiskStep ==
    ASSUME FileInv, UNCHANGED <<sent, answer>>, NEW nm, NEW new, disk' = With(disk, nm, new),
           FileGood(nm, new, sent, Len(answer)) \/ PartGood(nm, new, sent[PartId]),
           nm \in DOMAIN disk => ~disk[nm].closed
    PROVE  /\ DiskInv' /\ DOMAIN disk' = DOMAIN disk \cup {nm} /\ disk'[nm] = new
           /\ \A f \in DOMAIN disk : f # nm => disk'[f] = disk[f]
           /\ \A id : Arrived(disk, id) => Arrived(disk', id)
  <1>1. /\ DOMAIN disk' = DOMAIN disk \cup {nm} /\ disk'[nm] = new
        /\ \A f \in DOMAIN disk : f # nm => disk'[f] = disk[f]
    BY DEF With
  <1>2. ASSUME NEW f \in DOMAIN disk'
        PROVE  FileGood(f, disk'[f], sent, Len(answer)) \/ PartGood(f, disk'[f], sent[PartId])
    <2>1. CASE f = nm
      BY <1>1, <2>1
    <2>2. CASE f # nm
      BY <1>1, <1>2, <2>2 DEF FileInv, DiskInv
    <2> QED BY <2>1, <2>2
  <1>3. DiskInv'
    BY <1>2 DEF DiskInv
  <1>4. ASSUME NEW id, Arrived(disk, id) PROVE Arrived(disk', id)
    <2>1. PICK f \in DOMAIN disk : disk[f].id = id /\ disk[f].closed
      BY <1>4 DEF Arrived
    <2>2. f # nm
      BY <2>1
    <2> QED BY <1>1, <2>1, <2>2 DEF Arrived
  <1> QED BY <1>1, <1>3, <1>4

(* Frame x of a transfer, by its type.                                     *)
LEMMA FrameOf ==
    ASSUME FileInv, NEW fr, GoodFrame(fr, sent, Len(answer)), fr.type # "PART"
    PROVE  /\ fr.id \in 1 .. Len(answer) /\ sent[fr.id] \in Files /\ FullFrames(sent[fr.id]) \in Nat
           /\ fr.type = "START" => fr.n = 0
           /\ fr.type = "DATA" => fr.n \in 1 .. FullFrames(sent[fr.id]) /\ fr.data = Block(sent[fr.id], fr.n)
           /\ fr.type = "END" => fr.n = FullFrames(sent[fr.id]) + 1 /\ Strip(fr.data) = Strip(Rest(sent[fr.id]))
           /\ fr.type \in {"START", "DATA", "END"}
  <1>1. fr.id \in 1 .. Len(answer) /\ fr.n \in 0 .. FullFrames(sent[fr.id]) + 1 /\ GoodAt(fr, sent[fr.id], fr.n)
    BY DEF GoodFrame, GoodPart
  <1>2. sent[fr.id] \in Files
    BY <1>1, Ids DEF FileInv
  <1>3. PICK k \in Nat : k = FullFrames(sent[fr.id])
    BY <1>2, FileSizes
  <1>4. fr.n = 0 \/ fr.n \in 1 .. k \/ fr.n = k + 1
    BY <1>1, <1>3
  <1> QED BY <1>1, <1>2, <1>3, <1>4 DEF GoodAt

(* What tm_parse_file does with a frame, by its type.                      *)
LEMMA ReceiveCases ==
    ASSUME recv = [name |-> recv.name, id |-> recv.id, frame |-> recv.frame],
           com_receive_file, NEW fr, fr = Head(link)
    PROVE  /\ link # <<>> /\ link' = Tail(link) /\ merged.left = {}
           /\ UNCHANGED <<sent, answer, merged, spoilt, repeated>>
           /\ fr.type = "START" =>
                 recv' = [name |-> IF Plain \in DOMAIN disk THEN IdName(fr.id) ELSE Plain, id |-> fr.id, frame |-> fr.n]
                 /\ disk' = disk
           /\ fr.type = "PART" => recv' = Closed /\ disk' = With(disk, PartName(fr.n),
                 [id |-> fr.id, total |-> fr.total, bytes |-> <<>> \o Content(fr), closed |-> FALSE])
           /\ fr.type \in {"DATA", "END"} /\ ~InSequence(recv, fr) => recv' = recv /\ disk' = disk
           /\ fr.type \in {"DATA", "END"} /\ InSequence(recv, fr) =>
                 /\ disk' = With(disk, recv.name, [id |-> fr.id, total |-> fr.total, closed |-> fr.type = "END",
                      bytes |-> (IF recv.name \in DOMAIN disk THEN disk[recv.name].bytes ELSE <<>>) \o Content(fr)])
                 /\ recv' = IF fr.type = "DATA" THEN [name |-> recv.name, id |-> recv.id, frame |-> fr.n] ELSE Closed
  <1>1. link # <<>> /\ link' = Tail(link) /\ merged.left = {}
        /\ UNCHANGED <<sent, answer, merged, spoilt, repeated>> /\ tm_parse_file(fr)
    BY DEF com_receive_file
  <1>2. ASSUME fr.type = "START"
        PROVE  /\ recv' = [name |-> IF Plain \in DOMAIN disk THEN IdName(fr.id) ELSE Plain, id |-> fr.id, frame |-> fr.n]
               /\ disk' = disk
    BY <1>1, <1>2 DEF tm_parse_file, Opened
  <1>3. ASSUME fr.type = "PART"
        PROVE  recv' = Closed /\ disk' = With(disk, PartName(fr.n),
                 [id |-> fr.id, total |-> fr.total, bytes |-> <<>> \o Content(fr), closed |-> FALSE])
    <2>1. Opened(fr) = [name |-> PartName(fr.n), id |-> fr.id, frame |-> fr.n - 1]
      BY <1>3 DEF Opened
    <2>2. InSequence(Opened(fr), fr) /\ Opened(fr).name = PartName(fr.n)
      BY <2>1 DEF InSequence, PartName
    <2> QED BY <1>1, <1>3, <2>2 DEF tm_parse_file
  <1>4. ASSUME fr.type \in {"DATA", "END"} PROVE Opened(fr) = recv /\ fr.type # "START" /\ fr.type # "PART"
    BY <1>4 DEF Opened
  <1>5. ASSUME fr.type \in {"DATA", "END"}, ~InSequence(recv, fr) PROVE recv' = recv /\ disk' = disk
    BY <1>1, <1>4, <1>5 DEF tm_parse_file
  <1>6. ASSUME fr.type \in {"DATA", "END"}, InSequence(recv, fr)
        PROVE  /\ disk' = With(disk, recv.name, [id |-> fr.id, total |-> fr.total, closed |-> fr.type = "END",
                    bytes |-> (IF recv.name \in DOMAIN disk THEN disk[recv.name].bytes ELSE <<>>) \o Content(fr)])
               /\ recv' = IF fr.type = "DATA" THEN [name |-> recv.name, id |-> recv.id, frame |-> fr.n] ELSE Closed
    <2>1. recv = [name |-> recv.name, id |-> recv.id, frame |-> recv.frame]
      OBVIOUS
    <2>2. [recv EXCEPT !.frame = fr.n] = [name |-> recv.name, id |-> recv.id, frame |-> fr.n]
      BY <2>1
    <2> QED BY <1>1, <1>4, <1>6, <2>2 DEF tm_parse_file
  <1> QED BY <1>1, <1>2, <1>3, <1>5, <1>6

LEMMA FileTypeStep ==
    ASSUME FileInv, link # <<>>, link' = Tail(link), UNCHANGED <<sent, answer>>, spoilt' \in BOOLEAN,
           recv' = [name |-> recv'.name, id |-> recv'.id, frame |-> recv'.frame]
    PROVE  FileType'
  <1>1. link' \in Seq(FileFrame)
    BY LinkTail DEF FileInv, FileType
  <1> QED BY <1>1 DEF FileInv, FileType

LEMMA ReceiveStart ==
    ASSUME FileInv, com_receive_file, Head(link).type = "START"
    PROVE  FileInv'
  <1>0. FileType
    BY DEF FileInv
  <1>1. PICK fr : fr = Head(link) /\ fr.type = "START"
    OBVIOUS
  <1>2. /\ link # <<>> /\ link' = Tail(link) /\ merged.left = {}
        /\ UNCHANGED <<sent, answer, spoilt, disk>>
        /\ recv' = [name |-> IF Plain \in DOMAIN disk THEN IdName(fr.id) ELSE Plain, id |-> fr.id, frame |-> fr.n]
    BY <1>1, ReceiveCases DEF FileInv, FileType
  <1>3. fr = link[1] /\ 1 \in DOMAIN link
    BY <1>0, <1>1, <1>2, LinkTail DEF FileType
  <1>4. GoodFrame(fr, sent, Len(answer)) /\ Unseen(recv, disk, fr.id)
    BY <1>1, <1>3 DEF FileInv, LinkInv, StartInv
  <1>5. fr.id \in 1 .. Len(answer) /\ fr.n = 0 /\ FullFrames(sent[fr.id]) \in Nat /\ fr.id # 0
    BY <1>0, <1>1, <1>4, FrameOf, Ids
  <1>6. recv'.name \notin DOMAIN disk /\ recv'.name \in {Plain, IdName(fr.id)} /\ recv'.name # <<>>
        /\ recv'.id = fr.id /\ recv'.frame = 0
    <2>1. SUFFICES IdName(fr.id) \notin DOMAIN disk
      BY <1>2, <1>5 DEF Plain, IdName
    <2>2. SUFFICES ASSUME NEW f \in DOMAIN disk, f = IdName(fr.id) PROVE FALSE
      OBVIOUS
    <2>3. f[1] = "file" /\ f # Plain /\ \A n : f # PartName(n)
      BY <1>5, <2>2 DEF IdName, Plain, PartName
    <2>4. FileGood(f, disk[f], sent, Len(answer))
      BY <2>3 DEF FileInv, DiskInv, PartGood
    <2>5. disk[f].id = fr.id
      BY <2>2, <2>3, <2>4 DEF FileGood, IdName
    <2> QED BY <1>4, <2>3, <2>5 DEF Unseen
  <1>7. RecvInv'
    BY <1>2, <1>5, <1>6 DEF RecvInv, RecvGood
  <1>8. DiskInv'
    BY <1>2 DEF FileInv, DiskInv
  <1>10. LinkInv' /\ StartInv'
    <2>1. ASSUME NEW id, Unseen(recv, disk, id), link[1].type = "START" => link[1].id # id
          PROVE  Unseen(recv', disk', id)
      BY <1>1, <1>2, <1>3, <1>6, <2>1 DEF Unseen
    <2> QED BY <1>2, <2>1, LinkStep
  <1>11. ArriveInv'
    <2>1. ASSUME NEW id \in 1 .. Len(answer), NEW b \in 0 .. FullFrames(sent[id]) + 1,
                 link[1].id = id, GoodAt(link[1], sent[id], b)
          PROVE  b <= FullFrames(sent[id]) /\ recv'.name # <<>> /\ recv'.id = id /\ recv'.frame = b
      <3>1. b = 0
        BY <1>3, <1>5, <2>1 DEF GoodAt
      <3> QED BY <1>3, <1>5, <1>6, <2>1, <3>1
    <2>2. \A id : Arrived(disk, id) => Arrived(disk', id)
      BY <1>2
    <2> QED BY <1>2, <2>1, <2>2, ArriveStep
  <1>12. FileType'
    <2>1. recv' = [name |-> recv'.name, id |-> recv'.id, frame |-> recv'.frame] /\ spoilt' \in BOOLEAN
      BY <1>0, <1>2 DEF FileType
    <2> QED BY <1>2, <2>1, FileTypeStep
  <1> QED BY <1>7, <1>8, <1>10, <1>11, <1>12 DEF FileInv

(* A part is stored as it is.                                              *)
LEMMA PartStored ==
    ASSUME NEW c, NEW fr \in FileFrame, GoodPart(fr, c), NEW new,
           new = [id |-> fr.id, total |-> fr.total, bytes |-> <<>> \o Content(fr), closed |-> FALSE]
    PROVE  PartGood(PartName(fr.n), new, c)
  <1>1. fr.n \in 0 .. LastPart(c) /\ fr.total = LastPart(c) /\ Content(fr) = PartBytes(c, fr.n)
    BY DEF GoodPart
  <1>2. <<>> \o Content(fr) = Content(fr)
    <2>1. fr.data \in Seq(Bytes)
      BY DEF FileFrame
    <2>2. Strip(fr.data) \in Seq(Bytes)
      BY <2>1, StripBytes
    <2>3. Content(fr) \in Seq(Bytes)
      BY <2>1, <2>2 DEF Content
    <2> QED BY <2>3, ConcatEmptySeq
  <1>3. new.closed = FALSE /\ new.total = LastPart(c) /\ new.bytes = PartBytes(c, fr.n)
    BY <1>1, <1>2
  <1> QED BY <1>1, <1>3 DEF PartGood

LEMMA ReceivePart ==
    ASSUME FileInv, com_receive_file, Head(link).type = "PART"
    PROVE  FileInv'
  <1>0. FileType
    BY DEF FileInv
  <1>1. PICK fr : fr = Head(link) /\ fr.type = "PART"
    OBVIOUS
  <1>2. PICK new : new = [id |-> fr.id, total |-> fr.total, bytes |-> <<>> \o Content(fr), closed |-> FALSE]
    OBVIOUS
  <1>3. /\ link # <<>> /\ link' = Tail(link) /\ merged.left = {}
        /\ UNCHANGED <<sent, answer, spoilt>>
        /\ recv' = Closed /\ disk' = With(disk, PartName(fr.n), new)
    BY <1>1, <1>2, ReceiveCases DEF FileInv, FileType
  <1>4. fr = link[1] /\ 1 \in DOMAIN link /\ fr \in FileFrame
    BY <1>0, <1>1, <1>3, LinkTail DEF FileType
  <1>5. PICK c \in Files : c = sent[PartId]
    BY <1>0, Ids
  <1>6. GoodPart(fr, c)
    <2>1. GoodFrame(fr, sent, Len(answer))
      BY <1>4 DEF FileInv, LinkInv
    <2>2. ~(fr.id \in 1 .. Len(answer) /\ fr.n \in 0 .. FullFrames(sent[fr.id]) + 1 /\ GoodAt(fr, sent[fr.id], fr.n))
      <3>1. SUFFICES ASSUME fr.id \in 1 .. Len(answer), fr.n \in 0 .. FullFrames(sent[fr.id]) + 1,
                            GoodAt(fr, sent[fr.id], fr.n)
                     PROVE  FALSE
        OBVIOUS
      <3>2. FullFrames(sent[fr.id]) \in Nat
        BY <1>0, <3>1, Ids, FileSizes
      <3>3. fr.n = 0 \/ fr.n \in 1 .. FullFrames(sent[fr.id]) \/ fr.n = FullFrames(sent[fr.id]) + 1
        BY <3>1, <3>2
      <3> QED BY <1>1, <3>1, <3>3 DEF GoodAt
    <2> QED BY <1>5, <2>1, <2>2 DEF GoodFrame
  <1>7. PartGood(PartName(fr.n), new, c)
    BY <1>2, <1>4, <1>6, PartStored
  <1>8. PICK nm : nm = PartName(fr.n)
    OBVIOUS
  <1>9. nm \in DOMAIN disk => ~disk[nm].closed
    <2>1. nm # Plain /\ \A id : nm # IdName(id)
      BY <1>8 DEF PartName, Plain, IdName
    <2> QED BY <2>1 DEF FileInv, DiskInv, FileGood, PartGood
  <1>10. /\ DiskInv' /\ DOMAIN disk' = DOMAIN disk \cup {nm} /\ disk'[nm] = new
         /\ \A f \in DOMAIN disk : f # nm => disk'[f] = disk[f]
         /\ \A id : Arrived(disk, id) => Arrived(disk', id)
    <2>1. disk' = With(disk, nm, new) /\ UNCHANGED <<sent, answer>>
      BY <1>3, <1>8
    <2>2. FileGood(nm, new, sent, Len(answer)) \/ PartGood(nm, new, sent[PartId])
      BY <1>5, <1>7, <1>8
    <2> QED BY <1>9, <2>1, <2>2, DiskStep
  <1>11. recv'.name = <<>> /\ RecvInv'
    BY <1>3 DEF RecvInv, RecvGood, Closed
  <1>13. LinkInv' /\ StartInv'
    <2>1. nm[1] # "file"
      BY <1>8 DEF PartName
    <2>2. ASSUME NEW id, Unseen(recv, disk, id) PROVE Unseen(recv', disk', id)
      BY <1>10, <1>11, <2>1, <2>2 DEF Unseen
    <2> QED BY <1>3, <2>2, LinkStep
  <1>14. ArriveInv'
    <2>1. ASSUME NEW id \in 1 .. Len(answer), NEW b \in 0 .. FullFrames(sent[id]) + 1,
                 link[1].id = id, GoodAt(link[1], sent[id], b)
          PROVE  FALSE
      <3>1. PartId \notin 1 .. Len(answer)
        BY <1>0, Ids
      <3> QED BY <1>4, <1>6, <2>1, <3>1 DEF GoodPart
    <2> QED BY <1>3, <1>10, <2>1, ArriveStep
  <1>15. FileType'
    <2>1. recv' = [name |-> recv'.name, id |-> recv'.id, frame |-> recv'.frame] /\ spoilt' \in BOOLEAN
      BY <1>0, <1>3 DEF FileType, Closed
    <2> QED BY <1>3, <2>1, FileTypeStep
  <1> QED BY <1>10, <1>11, <1>13, <1>14, <1>15 DEF FileInv

LEMMA ReceiveSkip ==
    ASSUME FileInv, com_receive_file, Head(link).type \in {"DATA", "END"}, ~InSequence(recv, Head(link))
    PROVE  FileInv'
  <1>0. FileType
    BY DEF FileInv
  <1>1. PICK fr : fr = Head(link) /\ fr.type \in {"DATA", "END"} /\ ~InSequence(recv, fr)
    OBVIOUS
  <1>2. /\ link # <<>> /\ link' = Tail(link) /\ merged.left = {}
        /\ UNCHANGED <<sent, answer, spoilt, recv, disk>>
    BY <1>1, ReceiveCases DEF FileInv, FileType
  <1>3. fr = link[1] /\ 1 \in DOMAIN link
    BY <1>0, <1>1, <1>2, LinkTail DEF FileType
  <1>4. RecvInv' /\ DiskInv'
    BY <1>2 DEF FileInv, RecvInv, DiskInv
  <1>6. LinkInv' /\ StartInv'
    BY <1>2, LinkStep
  <1>7. ArriveInv'
    <2>1. ASSUME NEW id \in 1 .. Len(answer), NEW b \in 0 .. FullFrames(sent[id]) + 1,
                 link[1].id = id, GoodAt(link[1], sent[id], b),
                 b > 0 => recv.name # <<>> /\ recv.id = id /\ recv.frame = b - 1
          PROVE  FALSE
      <3>1. fr.n = b /\ b # 0
        BY <1>1, <1>3, <2>1 DEF GoodAt
      <3>2. b > 0
        BY <2>1, <3>1
      <3> QED BY <1>1, <1>3, <2>1, <3>1, <3>2 DEF InSequence
    <2>2. \A id : Arrived(disk, id) => Arrived(disk', id)
      BY <1>2
    <2> QED BY <1>2, <2>1, <2>2, ArriveStep
  <1>8. FileType'
    <2>1. recv' = [name |-> recv'.name, id |-> recv'.id, frame |-> recv'.frame] /\ spoilt' \in BOOLEAN
      BY <1>0, <1>2 DEF FileType
    <2> QED BY <1>2, <2>1, FileTypeStep
  <1> QED BY <1>4, <1>6, <1>7, <1>8 DEF FileInv

(* Bytes up to a, then those up to e.                                      *)
LEMMA Joined ==
    ASSUME NEW c \in Seq(Bytes), NEW a \in Nat, NEW e \in Nat, a <= e, e <= Len(c)
    PROVE  SubSeq(c, 1, a) \o SubSeq(c, a + 1, e) = SubSeq(c, 1, e)
  <1>1. a + 1 \in 1 .. Len(c) + 1 /\ e \in a .. Len(c)
    OBVIOUS
  <1> QED BY <1>1, ConcatAdjacentSubSeq

LEMMA ReceiveMore ==
    ASSUME FileInv, com_receive_file, Head(link).type \in {"DATA", "END"}, InSequence(recv, Head(link))
    PROVE  FileInv'
  <1>0. FileType
    BY DEF FileInv
  <1>1. PICK fr : fr = Head(link) /\ fr.type \in {"DATA", "END"} /\ InSequence(recv, fr)
    OBVIOUS
  <1>2. PICK old : old = IF recv.name \in DOMAIN disk THEN disk[recv.name].bytes ELSE <<>>
    OBVIOUS
  <1>3. PICK new : new = [id |-> fr.id, total |-> fr.total, closed |-> fr.type = "END", bytes |-> old \o Content(fr)]
    OBVIOUS
  <1>4. /\ link # <<>> /\ link' = Tail(link) /\ merged.left = {}
        /\ UNCHANGED <<sent, answer, spoilt>>
        /\ disk' = With(disk, recv.name, new)
        /\ recv' = IF fr.type = "DATA" THEN [name |-> recv.name, id |-> recv.id, frame |-> fr.n] ELSE Closed
    BY <1>1, <1>2, <1>3, ReceiveCases DEF FileInv, FileType
  <1>5. fr = link[1] /\ 1 \in DOMAIN link /\ fr \in FileFrame
    BY <1>0, <1>1, <1>4, LinkTail DEF FileType
  <1>6. PICK nm : nm = recv.name /\ nm # <<>>
    BY <1>1 DEF InSequence
  <1>7. PICK id \in 1 .. Len(answer) : id = fr.id /\ recv.id = id
    <2>1. GoodFrame(fr, sent, Len(answer)) /\ fr.type # "PART"
      BY <1>1, <1>5 DEF FileInv, LinkInv
    <2>2. fr.id \in 1 .. Len(answer)
      BY <2>1, FrameOf
    <2> QED BY <1>1, <2>2 DEF InSequence
  <1>8. PICK c \in Files : c = sent[id]
    BY <1>0, Ids
  <1>9. PICK k \in Nat : k = FullFrames(c) /\ c \in Seq(Bytes) /\ Len(c) \in Nat /\ k * FrameLen <= Len(c)
    BY FileSizes
  <1>10. /\ fr.type = "DATA" => fr.n \in 1 .. k /\ fr.data = Block(c, fr.n)
         /\ fr.type = "END" => fr.n = k + 1 /\ Strip(fr.data) = Strip(Rest(c))
    <2>1. GoodFrame(fr, sent, Len(answer)) /\ fr.type # "PART"
      BY <1>1, <1>5 DEF FileInv, LinkInv
    <2> QED BY <1>7, <1>8, <1>9, <2>1, FrameOf
  <1>11. PICK x \in Nat : x = fr.n - 1 /\ fr.n = x + 1 /\ recv.frame = x
    <2>1. fr.n \in Nat /\ fr.n - 1 \in Nat /\ fr.n = (fr.n - 1) + 1
      BY <1>1, <1>10
    <2> QED BY <1>1, <2>1 DEF InSequence
  <1>12. PICK a \in Nat : a = x * FrameLen /\ (x + 1) * FrameLen = a + FrameLen
    BY FileTimes
  <1>13. nm \in {Plain, IdName(id)} /\ old = SubSeq(c, 1, a) /\ (nm \in DOMAIN disk => ~disk[nm].closed)
    <2>1. /\ nm \in {Plain, IdName(id)}
          /\ IF nm \in DOMAIN disk
             THEN ~disk[nm].closed /\ disk[nm].bytes = SubSeq(c, 1, a)
             ELSE x = 0
      BY <1>6, <1>7, <1>8, <1>11, <1>12 DEF FileInv, RecvInv, RecvGood
    <2>2. CASE nm \in DOMAIN disk
      BY <1>2, <1>6, <2>1, <2>2
    <2>3. CASE nm \notin DOMAIN disk
      <3>1. a = 0
        BY <1>12, <2>1, <2>3, FileTimes
      <3>2. SubSeq(c, 1, 0) = <<>>
        BY SubSeqEmpty
      <3> QED BY <1>2, <1>6, <2>1, <2>3, <3>1, <3>2
    <2> QED BY <2>2, <2>3
  <1>14. FrameLen \in Nat
    BY FileAssumption
  <1>15. /\ fr.type = "DATA" => new.bytes = SubSeq(c, 1, (x + 1) * FrameLen) /\ ~new.closed /\ x + 1 \in 1 .. k
         /\ fr.type = "END" => new.bytes = Stored(c, k) /\ new.closed
         /\ new.closed \in BOOLEAN /\ new.id = id
    <2>1. new.closed = (fr.type = "END") /\ new.bytes = old \o Content(fr) /\ new.id = id
      BY <1>3, <1>7
    <2>2. ASSUME fr.type = "DATA" PROVE new.bytes = SubSeq(c, 1, (x + 1) * FrameLen) /\ x + 1 \in 1 .. k
      <3>1. Content(fr) = Block(c, x + 1) /\ x + 1 \in 1 .. k
        BY <1>10, <1>11, <2>2 DEF Content
      <3>2. Block(c, x + 1) = SubSeq(c, a + 1, a + FrameLen)
        <4>1. (x + 1) - 1 = x
          OBVIOUS
        <4> QED BY <1>12, <4>1 DEF Block
      <3>3. a + FrameLen <= Len(c)
        <4>1. (x + 1) * FrameLen <= k * FrameLen /\ k * FrameLen \in Nat
          <5>1. PICK y \in Nat : y = x + 1 /\ y <= k
            BY <3>1
          <5> QED BY <5>1, FileTimes
        <4> QED BY <1>9, <1>12, <1>14, <4>1
      <3>4. SubSeq(c, 1, a) \o SubSeq(c, a + 1, a + FrameLen) = SubSeq(c, 1, a + FrameLen)
        <4>1. PICK e \in Nat : e = a + FrameLen /\ a <= e
          BY <1>14
        <4> QED BY <1>9, <3>3, <4>1, Joined
      <3> QED BY <1>12, <1>13, <2>1, <3>1, <3>2, <3>4
    <2>3. ASSUME fr.type = "END" PROVE new.bytes = Stored(c, k)
      <3>1. Content(fr) = Strip(Rest(c)) /\ x = k
        BY <1>10, <1>11, <2>3 DEF Content
      <3> QED BY <1>9, <1>12, <1>13, <2>1, <3>1 DEF Stored, Rest
    <2> QED BY <2>1, <2>2, <2>3
  <1>16. FileGood(nm, new, sent, Len(answer))
    <2>1. x + 1 \in 1 .. k => x + 1 \in 0 .. k
      OBVIOUS
    <2> QED BY <1>1, <1>7, <1>8, <1>9, <1>13, <1>15, <2>1 DEF FileGood
  <1>17. /\ DiskInv' /\ DOMAIN disk' = DOMAIN disk \cup {nm} /\ disk'[nm] = new
         /\ \A f \in DOMAIN disk : f # nm => disk'[f] = disk[f]
         /\ \A i : Arrived(disk, i) => Arrived(disk', i)
    <2>1. disk' = With(disk, nm, new) /\ UNCHANGED <<sent, answer>>
      BY <1>4, <1>6
    <2>2. nm \in DOMAIN disk => ~disk[nm].closed
      BY <1>13
    <2> QED BY <1>16, <2>1, <2>2, DiskStep
  <1>18. /\ fr.type = "DATA" => recv'.name = nm /\ recv'.id = id /\ recv'.frame = x + 1
         /\ fr.type = "END" => recv'.name = <<>>
         /\ recv' = [name |-> recv'.name, id |-> recv'.id, frame |-> recv'.frame]
    BY <1>4, <1>6, <1>7, <1>11 DEF Closed
  <1>19. RecvInv'
    <2>1. CASE fr.type = "END"
      BY <1>18, <2>1 DEF RecvInv, RecvGood
    <2>2. CASE fr.type = "DATA"
      <3>1. x + 1 \in 0 .. k
        BY <1>15, <2>2
      <3> QED BY ZenonT(60), <1>4, <1>8, <1>9, <1>13, <1>15, <1>17, <1>18, <2>2, <3>1 DEF RecvInv, RecvGood
    <2> QED BY <1>1, <2>1, <2>2
  <1>21. LinkInv' /\ StartInv'
    <2>1. ASSUME NEW i, Unseen(recv, disk, i) PROVE Unseen(recv', disk', i)
      <3>1. i # id
        BY <1>6, <1>7, <2>1 DEF Unseen
      <3>2. recv'.name # <<>> => recv'.id # i
        BY <1>1, <1>18, <3>1
      <3>3. \A f \in DOMAIN disk' : f[1] = "file" => disk'[f].id # i
        BY <1>15, <1>17, <2>1, <3>1 DEF Unseen
      <3> QED BY <3>2, <3>3 DEF Unseen
    <2> QED BY <1>4, <2>1, LinkStep
  <1>22. ArriveInv'
    <2>1. ASSUME NEW i \in 1 .. Len(answer), NEW b \in 0 .. FullFrames(sent[i]) + 1,
                 link[1].id = i, GoodAt(link[1], sent[i], b)
          PROVE  \/ Arrived(disk', i)
                 \/ b <= FullFrames(sent[i]) /\ recv'.name # <<>> /\ recv'.id = i /\ recv'.frame = b
      <3>1. i = id /\ b = x + 1
        BY <1>5, <1>7, <1>11, <2>1 DEF GoodAt
      <3>2. CASE fr.type = "END"
        BY <1>15, <1>17, <3>1, <3>2 DEF Arrived
      <3>3. CASE fr.type = "DATA"
        BY <1>6, <1>8, <1>9, <1>15, <1>18, <3>1, <3>3
      <3> QED BY <1>1, <3>2, <3>3
    <2> QED BY <1>4, <1>17, <2>1, ArriveStep
  <1>23. FileType'
    <2>1. spoilt' \in BOOLEAN
      BY <1>0, <1>4 DEF FileType
    <2> QED BY <1>4, <1>18, <2>1, FileTypeStep
  <1> QED BY <1>17, <1>19, <1>21, <1>22, <1>23 DEF FileInv

LEMMA ReceiveFileStep ==
    ASSUME FileInv, com_receive_file
    PROVE  FileInv'
  <1>1. link # <<>>
    BY DEF com_receive_file
  <1>2. Head(link).type \in {"START", "DATA", "END", "PART"}
    <2>1. Head(link) \in FileFrame
      BY <1>1 DEF FileInv, FileType
    <2> QED BY <2>1 DEF FileFrame
  <1> QED BY <1>2, ReceiveStart, ReceivePart, ReceiveSkip, ReceiveMore

--------------------------------------------------------------------------------
(* Losses and restarts *)

LEMMA LoseFrameStep ==
    ASSUME FileInv, Lose
    PROVE  FileInv'
  <1>1. link # <<>> /\ link' = Tail(link) /\ spoilt' = TRUE
        /\ UNCHANGED <<disk, recv, sent, answer>>
    BY DEF Lose
  <1>2. LinkInv' /\ StartInv'
    BY <1>1, LinkStep
  <1>3. RecvInv' /\ DiskInv'
    BY <1>1 DEF FileInv, RecvInv, DiskInv
  <1>5. ArriveInv'
    BY <1>1 DEF ArriveInv
  <1>6. FileType'
    <2>1. recv' = [name |-> recv'.name, id |-> recv'.id, frame |-> recv'.frame]
      BY <1>1 DEF FileInv, FileType
    <2> QED BY <1>1, <2>1, FileTypeStep
  <1> QED BY <1>2, <1>3, <1>5, <1>6 DEF FileInv

LEMMA RestartReceiverStep ==
    ASSUME FileInv, RestartReceiver
    PROVE  FileInv'
  <1>1. recv' = Closed /\ spoilt' = TRUE /\ UNCHANGED <<link, disk, sent, answer>>
    BY DEF RestartReceiver
  <1>3. LinkInv' /\ DiskInv' /\ ArriveInv'
    BY <1>1 DEF FileInv, LinkInv, DiskInv, ArriveInv
  <1>4. recv'.name = <<>> /\ RecvInv'
    BY <1>1 DEF Closed, RecvInv, RecvGood
  <1>5. StartInv'
    <2>1. ASSUME NEW id, Unseen(recv, disk, id) PROVE Unseen(recv', disk, id)
      BY <1>4, <2>1 DEF Unseen
    <2> QED BY <1>1, <2>1 DEF FileInv, StartInv
  <1>7. FileType'
    BY <1>1 DEF FileInv, FileType, Closed
  <1> QED BY <1>3, <1>4, <1>5, <1>7 DEF FileInv

(* Nothing the transfers use changes.                                      *)
LEMMA FileStays ==
    ASSUME FileInv, UNCHANGED <<link, disk, recv, sent, answer, spoilt>>
    PROVE  FileInv'
  BY DEF FileInv, FileType, LinkInv, StartInv, RecvInv, DiskInv, ArriveInv

--------------------------------------------------------------------------------
(* Parts and merges, with any ids *)

(* The sender adds frames to the link.                                     *)
LEMMA PartsSent ==
    ASSUME PartInv, NEW G \in Seq(FileFrame), link' = link \o G, UNCHANGED <<disk, recv, merged>>,
           \A j \in 1 .. Len(G) : G[j].type = "PART" => GoodPart(G[j], sent[PartId]),
           answer' \in Seq(BOOLEAN), PartId \in DOMAIN sent', sent'[PartId] = sent[PartId]
    PROVE  PartInv'
  <1>1. /\ link \in Seq(FileFrame) /\ PartsOnWay /\ PartsOnDisk /\ MergeInv /\ PartType
    BY DEF PartInv, PartType
  <1>2. /\ link' \in Seq(FileFrame)
        /\ \A i \in DOMAIN link : i \in DOMAIN link' /\ link'[i] = link[i]
        /\ \A j \in 1 .. Len(G) : Len(link) + j \in DOMAIN link' /\ link'[Len(link) + j] = G[j]
        /\ \A i \in DOMAIN link' : i \in DOMAIN link \/ \E j \in 1 .. Len(G) : i = Len(link) + j
    BY <1>1, LinkGrows
  <1>3. PartsOnWay'
    <2>1. ASSUME NEW i \in DOMAIN link', link'[i].type = "PART" PROVE GoodPart(link'[i], sent[PartId])
      <3>1. CASE i \in DOMAIN link
        BY <1>1, <1>2, <2>1, <3>1 DEF PartsOnWay
      <3>2. CASE \E j \in 1 .. Len(G) : i = Len(link) + j
        BY <1>2, <2>1, <3>2
      <3> QED BY <1>2, <3>1, <3>2
    <2> QED BY <2>1 DEF PartsOnWay
  <1>4. Parts' = Parts
    BY DEF Parts
  <1>5. PartsOnDisk' /\ MergeInv'
    BY <1>1, <1>4 DEF PartsOnDisk, MergeInv, MergedExact
  <1>6. PartType'
    BY <1>1, <1>2 DEF PartType
  <1> QED BY <1>3, <1>5, <1>6 DEF PartInv

LEMMA PartsOfTransfer ==
    ASSUME PartInv, NEW c \in Files, NEW id, NEW m \in 0 .. MaxFrames, com_send_file(c, id, m)
    PROVE  PartInv'
  <1>1. answer \in Seq(BOOLEAN) /\ PartId \in DOMAIN sent /\ MaxSends \in Nat
    BY FileAssumption DEF PartInv, PartType
  <1>2. PICK n \in Nat : n = Len(answer) /\ n + 1 <= MaxSends
    BY <1>1 DEF com_send_file
  <1>3. id \in Nat /\ PartId # id
    <2>1. id \in 1 .. n + 1
      BY <1>2 DEF com_send_file
    <2> QED BY <1>1, <1>2, <2>1 DEF PartId
  <1>4. PICK T \in Seq(FileFrame) : /\ T = Transfer(id, c)
            /\ Len(T) = FullFrames(c) + 1 + (IF Len(c) % FrameLen = 0 THEN 0 ELSE 1)
            /\ \A j \in 1 .. Len(T) : T[j].id = id /\ GoodAt(T[j], c, j - 1)
    BY <1>3, TransferFrames
  <1>5. /\ m \in 0 .. Len(T) /\ link' = link \o SubSeq(T, 1, m)
        /\ sent' = With(sent, id, c) /\ answer' = Append(answer, m = Len(T) /\ (Len(c) % FrameLen) # 0)
        /\ UNCHANGED <<disk, recv, merged>>
    BY <1>4 DEF com_send_file, com_send_file_parts
  <1>6. PICK G \in Seq(FileFrame) : G = SubSeq(T, 1, m) /\ Len(G) = m
            /\ \A j \in 1 .. m : G[j] = T[j] /\ j \in 1 .. Len(T)
    BY <1>5, FirstFrames
  <1>7. PICK k \in Nat : k = FullFrames(c) /\ Len(T) <= k + 2 /\ Len(T) \in Nat
    BY SMTT(60), <1>4, FileSizes
  <1>8. ASSUME NEW j \in 1 .. Len(G) PROVE G[j].type # "PART"
    <2>1. G[j] = T[j] /\ GoodAt(T[j], c, j - 1) /\ j \in 1 .. Len(T)
      BY <1>4, <1>6
    <2>2. j - 1 = 0 \/ j - 1 \in 1 .. k \/ j - 1 = k + 1
      BY <1>7, <2>1
    <2> QED BY <1>7, <2>1, <2>2 DEF GoodAt
  <1>9. answer' \in Seq(BOOLEAN)
    <2>1. PICK v \in BOOLEAN : v = (m = Len(T) /\ (Len(c) % FrameLen) # 0)
      OBVIOUS
    <2>2. answer' = Append(answer, v)
      BY <1>5, <2>1
    <2> QED BY <1>1, <2>2
  <1>10. PartId \in DOMAIN sent' /\ sent'[PartId] = sent[PartId]
    BY <1>1, <1>3, <1>5 DEF With
  <1>11. link' = link \o G
    BY <1>5, <1>6
  <1> QED BY <1>5, <1>8, <1>9, <1>10, <1>11, PartsSent

LEMMA PartsOfRequest ==
    ASSUME PartInv, NEW start \in Nat, NEW end \in Int, NEW m \in Nat, tm_send_file_parts(start, end, m)
    PROVE  PartInv'
  <1>1. PICK c \in Files : c = sent[PartId]
    BY DEF PartInv, PartType
  <1>2. /\ \E G \in Seq(FileFrame) : link' = link \o G /\ \A j \in 1 .. Len(G) : GoodPart(G[j], c)
        /\ UNCHANGED <<disk, recv, sent, answer, merged>>
    BY <1>1, PartsAsked
  <1>3. PICK G \in Seq(FileFrame) : link' = link \o G /\ \A j \in 1 .. Len(G) : GoodPart(G[j], c)
    BY <1>2
  <1>4. answer' \in Seq(BOOLEAN) /\ PartId \in DOMAIN sent' /\ sent'[PartId] = sent[PartId]
    BY <1>2 DEF PartInv, PartType
  <1>5. \A j \in 1 .. Len(G) : G[j].type = "PART" => GoodPart(G[j], sent[PartId])
    BY <1>1, <1>3
  <1> QED BY <1>2, <1>3, <1>4, <1>5, PartsSent

(* A frame leaves the link: nothing is merged meanwhile.                   *)
LEMMA PartLeaves ==
    ASSUME PartInv, link # <<>>, link' = Tail(link), UNCHANGED <<sent, answer, merged>>
    PROVE  /\ link' \in Seq(FileFrame) /\ PartsOnWay'
           /\ Head(link) \in FileFrame
           /\ Head(link).type = "PART" => GoodPart(Head(link), sent[PartId])
  <1>1. link \in Seq(FileFrame) /\ PartsOnWay
    BY DEF PartInv, PartType
  <1>2. /\ link' \in Seq(FileFrame)
        /\ Head(link) = link[1] /\ 1 \in DOMAIN link /\ link[1] \in FileFrame
        /\ \A i \in DOMAIN link' : i + 1 \in DOMAIN link /\ link'[i] = link[i + 1] /\ i + 1 # 1 /\ i \in Nat
    BY <1>1, LinkTail
  <1> QED BY <1>1, <1>2 DEF PartsOnWay

LEMMA PartsReceived ==
    ASSUME PartInv, com_receive_file
    PROVE  PartInv'
  <1>0. PartType /\ PartsOnDisk /\ MergeInv
    BY DEF PartInv
  <1>1. PICK fr : fr = Head(link)
    OBVIOUS
  <1>2. recv = [name |-> recv.name, id |-> recv.id, frame |-> recv.frame]
    BY <1>0 DEF PartType
  <1>3. link # <<>> /\ link' = Tail(link) /\ merged.left = {} /\ UNCHANGED <<sent, answer, merged>>
    BY <1>1, <1>2, ReceiveCases
  <1>4. /\ link' \in Seq(FileFrame) /\ PartsOnWay'
        /\ fr \in FileFrame /\ (fr.type = "PART" => GoodPart(fr, sent[PartId]))
    BY <1>1, <1>3, PartLeaves
  <1>5. fr.type \in {"START", "PART"} \/ fr.type \in {"DATA", "END"}
    BY <1>4 DEF FileFrame
  <1>6. MergeInv'
    BY <1>0, <1>3 DEF MergeInv, MergedExact
  <1>7. CASE fr.type # "PART"
    <2>1. /\ recv' = [name |-> recv'.name, id |-> recv'.id, frame |-> recv'.frame]
          /\ recv'.name # <<>> => recv'.name[1] = "file"
          /\ \/ disk' = disk
             \/ \E new : disk' = With(disk, recv.name, new) /\ recv.name # <<>>
      <3>1. CASE fr.type = "START"
        <4>1. recv' = [name |-> IF Plain \in DOMAIN disk THEN IdName(fr.id) ELSE Plain, id |-> fr.id, frame |-> fr.n]
              /\ disk' = disk
          BY <1>1, <1>2, <3>1, ReceiveCases
        <4> QED BY <4>1 DEF Plain, IdName
      <3>2. CASE fr.type \in {"DATA", "END"} /\ ~InSequence(recv, fr)
        <4>1. recv' = recv /\ disk' = disk
          BY <1>1, <1>2, <3>2, ReceiveCases
        <4> QED BY <1>0, <1>2, <4>1 DEF PartType
      <3>3. CASE fr.type \in {"DATA", "END"} /\ InSequence(recv, fr)
        <4>1. /\ disk' = With(disk, recv.name, [id |-> fr.id, total |-> fr.total, closed |-> fr.type = "END",
                    bytes |-> (IF recv.name \in DOMAIN disk THEN disk[recv.name].bytes ELSE <<>>) \o Content(fr)])
              /\ recv' = IF fr.type = "DATA" THEN [name |-> recv.name, id |-> recv.id, frame |-> fr.n] ELSE Closed
          BY <1>1, <1>2, <3>3, ReceiveCases
        <4>2. recv.name # <<>>
          BY <3>3 DEF InSequence
        <4> QED BY <1>0, <4>1, <4>2 DEF PartType, Closed
      <3> QED BY <1>5, <1>7, <3>1, <3>2, <3>3
    <2>2. Parts' = Parts /\ \A n \in Parts : disk'[PartName(n)] = disk[PartName(n)]
      <3>1. CASE disk' = disk
        BY <3>1 DEF Parts
      <3>2. ASSUME NEW new, disk' = With(disk, recv.name, new), recv.name # <<>>
            PROVE  Parts' = Parts /\ \A n \in Parts : disk'[PartName(n)] = disk[PartName(n)]
        <4>1. \A n : PartName(n) # recv.name
          BY <1>0, <3>2 DEF PartType, PartName
        <4> QED BY <3>2, <4>1 DEF With, Parts
      <3> QED BY <2>1, <3>1, <3>2
    <2>3. PartsOnDisk'
      BY <1>0, <1>3, <2>2 DEF PartsOnDisk
    <2>4. PartType'
      BY <1>0, <1>3, <1>4, <2>1 DEF PartType
    <2> QED BY <1>4, <1>6, <2>3, <2>4 DEF PartInv
  <1>8. CASE fr.type = "PART"
    <2>1. PICK new : new = [id |-> fr.id, total |-> fr.total, bytes |-> <<>> \o Content(fr), closed |-> FALSE]
      OBVIOUS
    <2>2. recv' = Closed /\ disk' = With(disk, PartName(fr.n), new)
      BY <1>1, <1>2, <1>8, <2>1, ReceiveCases
    <2>3. PICK c : c = sent[PartId]
      OBVIOUS
    <2>4. PartGood(PartName(fr.n), new, c)
      BY <1>4, <1>8, <2>1, <2>3, PartStored
    <2>5. ASSUME NEW n \in Parts' PROVE PartGood(PartName(n), disk'[PartName(n)], c)
      <3>1. PartName(n) \in DOMAIN disk' /\ n \in 0 .. MaxFrames
        BY DEF Parts
      <3>2. CASE PartName(n) = PartName(fr.n)
        BY <2>2, <2>4, <3>2 DEF With
      <3>3. CASE PartName(n) # PartName(fr.n)
        <4>1. PartName(n) \in DOMAIN disk /\ disk'[PartName(n)] = disk[PartName(n)]
          BY <2>2, <3>1, <3>3 DEF With
        <4>2. n \in Parts
          BY <3>1, <4>1 DEF Parts
        <4> QED BY <1>0, <2>3, <4>1, <4>2 DEF PartsOnDisk
      <3> QED BY <3>2, <3>3
    <2>6. PartsOnDisk'
      BY <1>3, <2>3, <2>5 DEF PartsOnDisk
    <2>7. PartType'
      BY <1>0, <1>3, <1>4, <2>2 DEF PartType, Closed
    <2> QED BY <1>4, <1>6, <2>6, <2>7 DEF PartInv
  <1> QED BY <1>7, <1>8

LEMMA PartLost ==
    ASSUME PartInv, Lose
    PROVE  PartInv'
  <1>1. link # <<>> /\ link' = Tail(link) /\ UNCHANGED <<disk, recv, sent, answer, merged>>
    BY DEF Lose
  <1>2. link' \in Seq(FileFrame) /\ PartsOnWay'
    BY <1>1, PartLeaves
  <1>3. Parts' = Parts
    BY <1>1 DEF Parts
  <1>4. PartsOnDisk' /\ MergeInv' /\ PartType'
    BY <1>1, <1>2, <1>3 DEF PartInv, PartsOnDisk, MergeInv, MergedExact, PartType
  <1> QED BY <1>2, <1>4 DEF PartInv

LEMMA PartsRestart ==
    ASSUME PartInv, RestartReceiver
    PROVE  PartInv'
  <1>0. PartType /\ PartsOnWay /\ PartsOnDisk /\ MergeInv
    BY DEF PartInv
  <1>1. recv' = Closed /\ merged' = [merged EXCEPT !.left = {}] /\ UNCHANGED <<link, disk, sent, answer>>
    BY DEF RestartReceiver
  <1>2. merged' = [bytes |-> merged.bytes, missing |-> merged.missing, left |-> {}, ok |-> merged.ok]
    BY <1>0, <1>1 DEF MergeInv
  <1>3. Parts' = Parts
    BY <1>1 DEF Parts
  <1>4. PartsOnWay' /\ PartsOnDisk'
    BY <1>0, <1>1, <1>3 DEF PartsOnWay, PartsOnDisk
  <1>5. MergeInv'
    <2>1. merged'.left = {} /\ merged'.ok = merged.ok /\ merged'.missing = merged.missing /\ merged'.bytes = merged.bytes
      BY <1>2
    <2>2. merged' = [bytes |-> merged'.bytes, missing |-> merged'.missing, left |-> merged'.left, ok |-> merged'.ok]
      BY <1>2
    <2>3. MergedExact'
      BY <1>0, <1>1, <2>1 DEF MergeInv, MergedExact
    <2> QED BY <1>0, <2>1, <2>2, <2>3 DEF MergeInv
  <1>6. PartType'
    BY <1>0, <1>1 DEF PartType, Closed
  <1> QED BY <1>4, <1>5, <1>6 DEF PartInv

(* The parts on the disk are parts of the file.                            *)
LEMMA PartsOf ==
    ASSUME PartInv, NEW n \in Parts, NEW c, c = sent[PartId]
    PROVE  /\ n \in 0 .. LastPart(c) /\ disk[PartName(n)].total = LastPart(c)
           /\ disk[PartName(n)].bytes = PartBytes(c, n)
  <1>1. PartGood(PartName(n), disk[PartName(n)], c)
    BY DEF PartInv, PartsOnDisk
  <1>2. \A k : PartName(n) = PartName(k) => n = k
    BY DEF PartName
  <1> QED BY <1>1, <1>2 DEF PartGood

(* Nothing but the merge changes.                                          *)
LEMMA MergeKeeps ==
    ASSUME PartInv, UNCHANGED <<link, disk, recv, sent, answer>>, MergeInv'
    PROVE  PartInv'
  <1>1. Parts' = Parts
    BY DEF Parts
  <1>2. PartType' /\ PartsOnWay' /\ PartsOnDisk'
    BY <1>1 DEF PartInv, PartType, PartsOnWay, PartsOnDisk
  <1> QED BY <1>2 DEF PartInv

LEMMA MergeStart ==
    ASSUME PartInv, tm_merge_file
    PROVE  PartInv'
  <1>1. /\ Parts # {} /\ UNCHANGED <<link, disk, recv, sent, answer>>
        /\ merged' = [bytes |-> <<>>, left |-> Parts, ok |-> FALSE,
                      missing |-> (UNION {0 .. disk[PartName(n)].total : n \in Parts}) \ Parts]
    BY DEF tm_merge_file
  <1>2. PICK c \in Files : c = sent[PartId]
    BY DEF PartInv, PartType
  <1>3. PICK L \in Int : L = LastPart(c)
    BY LastPartIs
  <1>4. \A n \in Parts : n \in 0 .. L /\ disk[PartName(n)].total = L
    BY <1>2, <1>3, PartsOf
  <1>5. merged'.missing = {} => Parts = 0 .. L
    <2>1. merged'.missing = (UNION {0 .. disk[PartName(n)].total : n \in Parts}) \ Parts
      BY <1>1
    <2>2. {0 .. disk[PartName(n)].total : n \in Parts} = {0 .. L}
      BY <1>1, <1>4
    <2>3. merged'.missing = (0 .. L) \ Parts
      <3>1. UNION {0 .. L} = 0 .. L
        OBVIOUS
      <3> QED BY <2>1, <2>2, <3>1
    <2> QED BY <1>4, <2>3
  <1>6. 0 \in 0 .. L
    BY <1>1, <1>4
  <1>7. SubSeq(c, 1, 0 * FrameLen) = <<>>
    <2>1. 0 * FrameLen = 0
      BY FileAssumption
    <2> QED BY <2>1, SubSeqEmpty
  <1>8. merged'.missing = {} => Joining(merged', c)
    BY <1>1, <1>3, <1>5, <1>6, <1>7 DEF Joining
  <1>9. MergeInv'
    <2>1. Parts' = Parts
      BY <1>1 DEF Parts
    <2>2. merged' = [bytes |-> merged'.bytes, missing |-> merged'.missing, left |-> merged'.left, ok |-> merged'.ok]
          /\ merged'.left = Parts /\ merged'.ok = FALSE
      BY <1>1
    <2> QED BY <1>1, <1>2, <1>8, <2>1, <2>2 DEF MergeInv, MergedExact
  <1> QED BY <1>1, <1>9, MergeKeeps

(* The last part ends the file.                                            *)
LEMMA LastEnds ==
    ASSUME NEW c \in Files, LastPart(c) \in Nat
    PROVE  (Len(c) - 1) \div FrameLen = LastPart(c)
  <1>1. PICK L \in Nat : L = LastPart(c)
    OBVIOUS
  <1>2. L * FrameLen < Len(c) /\ Len(c) <= L * FrameLen + FrameLen /\ Len(c) \in Nat /\ FrameLen \in Nat \ {0}
    <2>1. \A n \in Nat : /\ n * FrameLen < Len(c) <=> n <= L
                         /\ n = L => Len(c) <= n * FrameLen + FrameLen
      BY <1>1, LastPartIs
    <2>2. L <= L
      OBVIOUS
    <2> QED BY <2>1, <2>2, FileSizes, FileAssumption
  <1>3. PICK u \in Nat : u = L * FrameLen
    BY FileTimes
  <1>4. PICK q \in Nat : q = Len(c) - 1
    BY <1>2, <1>3
  <1>5. PICK p \in Nat, r \in Nat : p = q \div FrameLen /\ r < FrameLen /\ q = p * FrameLen + r
    BY ZenonT(60), <1>2, FileDivided
  <1>6. PICK w \in Nat : w = p * FrameLen
    BY FileTimes
  <1>7. p < L + 1 /\ L < p + 1
    <2>1. (L + 1) * FrameLen = u + FrameLen /\ (p + 1) * FrameLen = w + FrameLen
      BY <1>3, <1>6, FileTimes
    <2>2. p * FrameLen < (L + 1) * FrameLen /\ L * FrameLen < (p + 1) * FrameLen
      BY SMTT(60), <1>2, <1>3, <1>4, <1>5, <1>6, <2>1
    <2>3. L + 1 \in Nat /\ p + 1 \in Nat
      OBVIOUS
    <2> QED BY <2>2, <2>3, FileTimes
  <1> QED BY SMTT(60), <1>1, <1>4, <1>5, <1>7

LEMMA MergeStep ==
    ASSUME PartInv, MergePart
    PROVE  PartInv'
  <1>1. PICK p : p = CHOOSE n \in merged.left : \A k \in merged.left : n <= k
    OBVIOUS
  <1>2. /\ merged.left # {} /\ UNCHANGED <<link, disk, recv, sent, answer>>
        /\ merged' = [bytes |-> merged.bytes \o disk[PartName(p)].bytes,
                      left |-> merged.left \ {p}, ok |-> merged.left = {p}, missing |-> merged.missing]
    BY <1>1 DEF MergePart
  <1>3. PICK c \in Files : c = sent[PartId]
    BY DEF PartInv, PartType
  <1>4. /\ merged'.bytes = merged.bytes \o disk[PartName(p)].bytes /\ merged'.left = merged.left \ {p}
        /\ merged'.ok = (merged.left = {p}) /\ merged'.missing = merged.missing
        /\ merged' = [bytes |-> merged'.bytes, missing |-> merged'.missing, left |-> merged'.left, ok |-> merged'.ok]
    BY <1>2
  <1>5. /\ merged'.left \subseteq Parts' /\ merged'.ok \in BOOLEAN /\ (merged'.ok => merged'.left = {})
    <2>1. Parts' = Parts /\ merged.left \subseteq Parts
      BY <1>2 DEF PartInv, MergeInv, Parts
    <2> QED BY <1>4, <2>1
  <1>6. ASSUME merged.missing = {}
        PROVE  /\ merged'.left # {} => Joining(merged', c)
               /\ merged'.ok => merged'.bytes = Stored(c, (Len(c) - 1) \div FrameLen)
    <2>1. PICK n \in 0 .. LastPart(c) : merged.left = n .. LastPart(c) /\ merged.bytes = SubSeq(c, 1, n * FrameLen)
      BY <1>2, <1>3, <1>6 DEF PartInv, MergeInv, Joining
    <2>2. PICK L \in Nat : L = LastPart(c) /\ n <= L /\ n \in Nat
      <3>1. LastPart(c) \in Int
        BY LastPartIs
      <3> QED BY <2>1, <3>1
    <2>3. p = n
      <3>1. n \in n .. L /\ \A k \in n .. L : n <= k
        BY <2>2
      <3>2. p \in n .. L /\ \A k \in n .. L : p <= k
        BY <1>1, <2>1, <2>2, <3>1
      <3> QED BY <2>2, <3>1, <3>2
    <2>4. disk[PartName(n)].bytes = PartBytes(c, n)
      <3>1. n \in Parts
        BY <2>1, <2>2 DEF PartInv, MergeInv
      <3> QED BY <1>3, <3>1, PartsOf
    <2>5. merged'.bytes = SubSeq(c, 1, n * FrameLen) \o PartBytes(c, n)
      BY <1>4, <2>1, <2>3, <2>4
    <2>6. CASE n = L
      <3>1. merged'.left = {}
        BY <1>4, <2>1, <2>2, <2>3, <2>6
      <3>2. (Len(c) - 1) \div FrameLen = n
        BY <2>2, <2>6, LastEnds
      <3>3. PartBytes(c, n) = Strip(SubSeq(c, n * FrameLen + 1, Len(c)))
        BY <2>2, <2>6 DEF PartBytes
      <3> QED BY <2>5, <3>1, <3>2, <3>3 DEF Stored
    <2>7. CASE n # L
      <3>1. PICK y \in Nat : y = n + 1 /\ y <= L /\ y \in 0 .. L
        <4>1. n + 1 \in Nat /\ n + 1 <= L
          BY <2>2, <2>7
        <4> QED BY <4>1
      <3>2. merged'.left = y .. L
        BY <1>4, <2>1, <2>2, <2>3, <3>1
      <3>3. PICK a \in Nat, e \in Nat : a = n * FrameLen /\ e = y * FrameLen /\ a <= e
        BY <2>2, <3>1, FileTimes
      <3>4. e <= Len(c) /\ c \in Seq(Bytes)
        <4>1. e < Len(c)
          BY <2>2, <3>1, <3>3, LastPartIs
        <4> QED BY <4>1, FileSizes
      <3>5. PartBytes(c, n) = SubSeq(c, a + 1, e)
        BY <2>2, <2>7, <3>1, <3>3 DEF PartBytes
      <3>6. merged'.bytes = SubSeq(c, 1, e)
        BY ZenonT(60), <2>5, <3>3, <3>4, <3>5, Joined
      <3>7. Joining(merged', c)
        BY <2>2, <3>1, <3>2, <3>3, <3>6 DEF Joining
      <3>8. merged'.left # {} /\ ~merged'.ok
        BY <1>5, <2>2, <3>1, <3>2
      <3> QED BY <3>7, <3>8
    <2> QED BY <2>6, <2>7
  <1>7. MergeInv'
    <2>1. sent' = sent
      BY <1>2
    <2> QED BY <1>3, <1>4, <1>5, <1>6, <2>1 DEF MergeInv, MergedExact
  <1> QED BY <1>2, <1>7, MergeKeeps

--------------------------------------------------------------------------------
LEMMA FileInvInit ==
    FileInit => FreshInv /\ PartInv
  <1>1. SUFFICES ASSUME FileInit PROVE FileInv /\ PartInv /\ repeated \in BOOLEAN
    BY DEF FreshInv
  <1>2. link = <<>> /\ disk = <<>> /\ recv = Closed /\ answer = <<>> /\ spoilt = FALSE
        /\ sent \in [{PartId} -> Files] /\ repeated = FALSE
        /\ merged = [bytes |-> <<>>, missing |-> {}, left |-> {}, ok |-> FALSE]
    BY <1>1 DEF FileInit
  <1>3. FileType
    <2>1. Len(answer) = 0 /\ 0 <= MaxSends /\ (1 .. 0) \cup {PartId} = {PartId}
      BY <1>2, FileAssumption
    <2>2. answer \in Seq(BOOLEAN) /\ link \in Seq(FileFrame)
      BY <1>2
    <2>3. recv = [name |-> recv.name, id |-> recv.id, frame |-> recv.frame]
      BY <1>2 DEF Closed
    <2>4. sent \in [(1 .. Len(answer)) \cup {PartId} -> Files]
      BY <1>2, <2>1
    <2> QED BY <1>2, <2>1, <2>2, <2>3, <2>4 DEF FileType
  <1>4. DOMAIN link = {} /\ DOMAIN disk = {} /\ recv.name = <<>>
    BY <1>2 DEF Closed
  <1>5. LinkInv /\ StartInv /\ DiskInv /\ RecvInv /\ PartsOnWay
    BY <1>4 DEF LinkInv, StartInv, DiskInv, RecvInv, RecvGood, PartsOnWay
  <1>6. MergeInv
    BY <1>2 DEF MergeInv, MergedExact
  <1>7. ArriveInv
    BY <1>2 DEF ArriveInv
  <1>8. PartsOnDisk
    BY <1>4 DEF PartsOnDisk, Parts
  <1>9. PartType
    BY <1>2, <1>3, <1>4 DEF PartType, FileType
  <1> QED BY <1>2, <1>3, <1>5, <1>6, <1>7, <1>8, <1>9 DEF FileInv, PartInv

(* As long as each transfer draws an id of its own.                        *)
LEMMA FreshInvNext ==
    FreshInv /\ PartInv /\ [FileNext]_fileVars => FreshInv'
  <1>1. SUFFICES ASSUME FreshInv, [FileNext]_fileVars, PartType
                 PROVE  repeated' \in BOOLEAN /\ (~repeated' => FileInv')
    BY DEF FreshInv, PartInv
  <1>2. repeated \in BOOLEAN /\ (~repeated => FileInv)
    BY <1>1 DEF FreshInv
  <1>3. CASE UNCHANGED fileVars
    BY <1>2, <1>3, FileStays DEF fileVars
  <1>4. ASSUME NEW c \in Files, NEW id \in 1 .. MaxSends, NEW m \in 0 .. MaxFrames, com_send_file(c, id, m)
        PROVE  repeated' \in BOOLEAN /\ (~repeated' => FileInv')
    <2>1. repeated' = (repeated \/ id < Len(answer) + 1) /\ id \in 1 .. Len(answer) + 1
      BY <1>4 DEF com_send_file
    <2>2. Len(answer) \in Nat /\ id \in Nat
      BY <1>1, FileAssumption DEF PartType
    <2>3. ~(id < Len(answer) + 1) => id = Len(answer) + 1
      BY <2>1, <2>2
    <2> QED BY <1>2, <1>4, <2>1, <2>2, <2>3, SendFileStep
  <1>5. ASSUME NEW start \in 0 .. MaxFrames - 1, NEW m \in 0 .. MaxFrames - 1, NEW end \in -1 .. MaxFrames - 1,
               tm_send_file_parts(start, end, m)
        PROVE  repeated' \in BOOLEAN /\ (~repeated' => FileInv')
    <2>1. start \in Nat /\ m \in Nat /\ end \in Int
      BY FileAssumption
    <2>2. repeated' = repeated
      BY <1>5 DEF tm_send_file_parts
    <2> QED BY <1>2, <1>5, <2>1, <2>2, PartsStep
  <1>6. CASE com_receive_file
    <2>1. repeated' = repeated
      BY <1>6 DEF com_receive_file
    <2> QED BY <1>2, <1>6, <2>1, ReceiveFileStep
  <1>7. CASE Lose
    BY <1>2, <1>7, LoseFrameStep DEF Lose
  <1>8. CASE RestartReceiver
    BY <1>2, <1>8, RestartReceiverStep DEF RestartReceiver
  <1>9. CASE tm_merge_file
    BY <1>2, <1>9, FileStays DEF tm_merge_file
  <1>10. CASE MergePart
    BY <1>2, <1>10, FileStays DEF MergePart
  <1> QED BY <1>1, <1>3, <1>4, <1>5, <1>6, <1>7, <1>8, <1>9, <1>10 DEF FileNext

LEMMA PartInvNext ==
    PartInv /\ [FileNext]_fileVars => PartInv'
  <1>1. SUFFICES ASSUME PartInv, [FileNext]_fileVars PROVE PartInv'
    OBVIOUS
  <1>2. CASE UNCHANGED fileVars
    <2>1. Parts' = Parts
      BY <1>2 DEF fileVars, Parts
    <2>2. MergeInv'
      BY <1>1, <1>2, <2>1 DEF fileVars, PartInv, MergeInv, MergedExact
    <2> QED BY <1>1, <1>2, <2>2, MergeKeeps DEF fileVars
  <1>3. ASSUME NEW c \in Files, NEW id \in 1 .. MaxSends, NEW m \in 0 .. MaxFrames, com_send_file(c, id, m)
        PROVE  PartInv'
    BY <1>1, <1>3, PartsOfTransfer
  <1>4. ASSUME NEW start \in 0 .. MaxFrames - 1, NEW m \in 0 .. MaxFrames - 1, NEW end \in -1 .. MaxFrames - 1,
               tm_send_file_parts(start, end, m)
        PROVE  PartInv'
    <2>1. start \in Nat /\ m \in Nat /\ end \in Int
      BY FileAssumption
    <2> QED BY <1>1, <1>4, <2>1, PartsOfRequest
  <1> QED BY <1>1, <1>2, <1>3, <1>4, PartsReceived, PartLost, PartsRestart, MergeStart, MergeStep DEF FileNext

LEMMA FileInvMeans ==
    FreshInv /\ PartInv => FilesExact /\ FileArrives
  <1>1. SUFFICES ASSUME FreshInv, PartInv PROVE FilesExact /\ FileArrives
    OBVIOUS
  <1>2. FileExact
    <2>1. ASSUME ~repeated, NEW f \in DOMAIN disk, f[1] = "file" PROVE FileGood(f, disk[f], sent, Len(answer))
      <3>1. \A n : f # PartName(n)
        BY <2>1 DEF PartName
      <3> QED BY <1>1, <2>1, <3>1 DEF FreshInv, FileInv, DiskInv, PartGood
    <2> QED BY <2>1 DEF FileExact, FileGood
  <1>3. MergedExact
    BY <1>1 DEF PartInv, MergeInv
  <1>4. FileArrives
    <2>1. SUFFICES ASSUME ~spoilt, ~repeated, link = <<>>, NEW id \in 1 .. Len(answer), answer[id]
                   PROVE  Arrived(disk, id)
      BY DEF FileArrives, Arrived
    <2>2. FileInv
      BY <1>1, <2>1 DEF FreshInv
    <2>3. ASSUME OnWay(link, recv, sent[id], id) PROVE FALSE
      <3>1. PICK k \in Nat : k = FullFrames(sent[id])
        BY <2>2, Ids, FileSizes DEF FileInv
      <3>2. PICK s \in Nat, b \in 0 .. k + 1 : Ahead(link, recv, sent[id], id, s, b)
        BY <2>3, <3>1 DEF OnWay
      <3>3. k + 1 \in b .. k + 1
        BY <3>1
      <3>4. s + 1 + (k + 1 - b) \in DOMAIN link
        BY <3>1, <3>2, <3>3 DEF Ahead
      <3> QED BY <2>1, <3>4
    <2> QED BY <2>1, <2>2, <2>3 DEF FileInv, ArriveInv
  <1> QED BY <1>2, <1>3, <1>4 DEF FilesExact

(* tm_parse_file and tm_merge_file: whatever the link loses and whenever   *)
(* the receiver restarts, a stored file holds leading frames of the one    *)
(* file sent under its id, all of it once END closed it, as long as rand() *)
(* gave each transfer an id of its own; and, whatever ids it gave, a merge *)
(* that reports no part missing gives the file.  For files of any length,  *)
(* frames of any size and any number of transfers and requests.            *)
THEOREM FilesExactCorrect == FileSpec => []FilesExact
  <1>1. FileInit => FreshInv /\ PartInv
    BY FileInvInit
  <1>2. FreshInv /\ PartInv /\ [FileNext]_fileVars => FreshInv' /\ PartInv'
    BY FreshInvNext, PartInvNext
  <1>3. FreshInv /\ PartInv => FilesExact
    BY FileInvMeans
  <1> QED BY <1>1, <1>2, <1>3, PTL DEF FileSpec

(* com_send_file: as long as no frame was lost, the receiver kept running  *)
(* and no id was drawn twice, each transfer answered with CMD_OK is stored *)
(* and closed by END once the link is empty, also with requested parts     *)
(* sent between transfers.                                                 *)
THEOREM FileArrivesCorrect == FileSpec => []FileArrives
  <1>1. FileInit => FreshInv /\ PartInv
    BY FileInvInit
  <1>2. FreshInv /\ PartInv /\ [FileNext]_fileVars => FreshInv' /\ PartInv'
    BY FreshInvNext, PartInvNext
  <1>3. FreshInv /\ PartInv => FileArrives
    BY FileInvMeans
  <1> QED BY <1>1, <1>2, <1>3, PTL DEF FileSpec

=================================================================================
