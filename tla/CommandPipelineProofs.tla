------------------------- MODULE CommandPipelineProofs -------------------------
(***************************************************************************)
(* Proofs about CommandPipeline: for any number of clients, commands and   *)
(* queue slots, on both ports and at every log level.                      *)
(***************************************************************************)
EXTENDS CommandPipeline, FiniteSetTheorems, TLAPS

(* The pointers a task is about to use are not null. *)
PtrInv ==
    /\ dpc # "receive" => new_cmd # NULL
    /\ xpc = "run" <=> run_cmd # NULL
    /\ child # NULL => xpc = "run" /\ todo > 0

(* What a task or a queue holds is allocated; a command once dispatched is *)
(* never unallocated again, so its kind does not change.                   *)
LiveInv ==
    /\ \A t \in Clients : held[t] # NULL => heap[held[t]] = "live"
    /\ \A i \in 1 .. Len(dispatcher_queue) : heap[dispatcher_queue[i]] = "live"
    /\ \A i \in 1 .. Len(executer_cmd_queue) : heap[executer_cmd_queue[i]] = "live"
    /\ dpc \in Dispatching => heap[new_cmd] = "live"
    /\ run_cmd # NULL => heap[run_cmd] = "live"
    /\ child # NULL => heap[child] = "live"
    /\ new_cmd # NULL => heap[new_cmd] # "none"

(* Clients do not share commands with each other or with anyone else. *)
HeldInv ==
    \A t \in Clients : held[t] # NULL =>
        /\ \A u \in Clients : held[u] = held[t] => u = t
        /\ \A i \in 1 .. Len(dispatcher_queue) : dispatcher_queue[i] # held[t]
        /\ \A i \in 1 .. Len(executer_cmd_queue) : executer_cmd_queue[i] # held[t]
        /\ dpc \in Dispatching => new_cmd # held[t]
        /\ run_cmd # held[t]
        /\ child # held[t]

(* Nor does the queue of the dispatcher. *)
QueuedInv ==
    \A i \in 1 .. Len(dispatcher_queue) :
        /\ \A j \in 1 .. Len(dispatcher_queue) :
              dispatcher_queue[i] = dispatcher_queue[j] => i = j
        /\ \A j \in 1 .. Len(executer_cmd_queue) : executer_cmd_queue[j] # dispatcher_queue[i]
        /\ dpc \in Dispatching => new_cmd # dispatcher_queue[i]
        /\ run_cmd # dispatcher_queue[i]
        /\ child # dispatcher_queue[i]

(* Nor do the queue of the executer, and the two tasks. *)
StagedInv ==
    /\ \A i \in 1 .. Len(executer_cmd_queue) :
          /\ dpc \in Dispatching => new_cmd # executer_cmd_queue[i]
          /\ run_cmd # executer_cmd_queue[i]
          /\ child # executer_cmd_queue[i]
    /\ dpc \in Dispatching => new_cmd # run_cmd /\ new_cmd # child
    /\ run_cmd # NULL => run_cmd # child

OwnInv == LiveInv /\ HeldInv /\ QueuedInv /\ StagedInv

(* Where the command of the dispatcher is, as long as no wait gave up: the *)
(* queues and the executer are empty unless the dispatcher waits, and what *)
(* they carry is its command or the result of it.                          *)
Answered == /\ finished # <<>>
            /\ finished[Len(finished)] = new_cmd

Idle ==
    dpc \notin {"log", "get_result"} =>
        executer_cmd_queue = <<>> /\ xpc = "receive" /\ executer_stat_queue = <<>>

Busy ==
    dpc \in {"log", "get_result"} =>
        \/ /\ executer_cmd_queue = <<new_cmd>>
           /\ xpc = "receive" /\ executer_stat_queue = <<>>
        \/ /\ executer_cmd_queue = <<>> /\ executer_stat_queue = <<>>
           /\ xpc = "run" /\ run_cmd = new_cmd
        \/ /\ executer_cmd_queue = <<>> /\ executer_stat_queue = <<>>
           /\ xpc = "send_result" /\ Answered /\ cmd_stat = ResultOf(new_cmd)
        \/ /\ executer_cmd_queue = <<>> /\ xpc = "receive"
           /\ executer_stat_queue = <<ResultOf(new_cmd)>> /\ Answered

StepInv == ~gave_up => Idle /\ Busy /\ BlockingResult

(* The command of the dispatcher has been taken and has not run yet. *)
Pending ==
    \/ dpc \in Dispatching
    \/ executer_cmd_queue # <<>>
    \/ xpc = "run"

(* What was queued is what ran, then the command of the dispatcher, then   *)
(* what is still queued.                                                   *)
Ahead == Len(finished) + (IF Pending THEN 1 ELSE 0)

OrderInv ==
    ~gave_up =>
        /\ Len(accepted) = Ahead + Len(dispatcher_queue)
        /\ \A i \in 1 .. Len(finished) : finished[i] = accepted[i]
        /\ Pending => accepted[Ahead] = new_cmd
        /\ \A i \in 1 .. Len(dispatcher_queue) : dispatcher_queue[i] = accepted[Ahead + i]

--------------------------------------------------------------------------------
(* Facts about sequences that every hand-over uses. *)

LEMMA Appended ==
    ASSUME NEW S, NEW s \in Seq(S), NEW e \in S
    PROVE  /\ Append(s, e) \in Seq(S)
           /\ Len(Append(s, e)) = Len(s) + 1
           /\ \A i \in 1 .. Len(s) : Append(s, e)[i] = s[i]
           /\ Append(s, e)[Len(s) + 1] = e
  OBVIOUS

LEMMA Removed ==
    ASSUME NEW S, NEW s \in Seq(S), s # <<>>
    PROVE  /\ Tail(s) \in Seq(S)
           /\ Head(s) \in S
           /\ Head(s) = s[1]
           /\ Len(s) > 0
           /\ Len(Tail(s)) = Len(s) - 1
           /\ \A i \in 1 .. Len(Tail(s)) : Tail(s)[i] = s[i + 1]
  OBVIOUS

LEMMA Single ==
    ASSUME NEW S, NEW e \in S
    PROVE  /\ <<e>> \in Seq(S)
           /\ Len(<<e>>) = 1
           /\ <<e>>[1] = e
  OBVIOUS

(* The actions, without the disjunctions of Next. *)
LEMMA NextCases ==
    ASSUME [Next]_vars
    PROVE  \/ DispReceive \/ DispReceiveLate \/ DispGetExecuted \/ DispSetExecuted
           \/ DispSend \/ DispSendLate \/ DispLog \/ DispGetResult
           \/ DispGetResultLate \/ DispJudge \/ DispSetFailed
           \/ ExecReceive \/ ExecBuildChild \/ ExecSkipChild \/ ExecSendChild
           \/ ExecRun \/ ExecSendResult
           \/ \E t \in Clients : ClientBuild(t) \/ ClientSend(t) \/ ClientSendLate(t)
           \/ UNCHANGED vars
  BY DEF Next, Dispatcher, Executer, Client

--------------------------------------------------------------------------------
(* Type correctness *)

TypeInv == TypeOK /\ PtrInv

LEMMA TypeInit == Init => TypeInv
<1> SUFFICES ASSUME Init PROVE TypeInv
  OBVIOUS
<1>1. heap \in [Cmds -> {"none", "live", "freed"}] /\ kind \in [Cmds -> AllKinds]
  BY DEF Init, AllKinds
<1>2. held \in [Clients -> Cmds \cup {NULL}]
  BY DEF Init
<1>3. /\ dispatcher_queue \in Seq(Cmds) /\ executer_cmd_queue \in Seq(Cmds)
      /\ executer_stat_queue \in Seq(Results)
      /\ accepted \in Seq(Cmds) /\ finished \in Seq(Cmds)
      /\ Len(dispatcher_queue) = 0 /\ Len(executer_cmd_queue) = 0 /\ Len(executer_stat_queue) = 0
  BY DEF Init
<1>4. cmd_result \in Results /\ cmd_stat \in Results
  BY DEF Init, Results, CMD_OK, CMD_ERROR
<1>5. late \in SUBSET Tasks
  BY DEF Init
<1>6. PtrInv /\ gave_up \in BOOLEAN
  BY PipelineAssumption DEF Init, PtrInv
<1> QED
  BY <1>1, <1>2, <1>3, <1>4, <1>5, <1>6, PipelineAssumption
  DEF Init, TypeInv, TypeOK, DispSteps, ExecSteps

LEMMA TypeNext == TypeInv /\ [Next]_vars => TypeInv'
<1> SUFFICES ASSUME TypeInv, [Next]_vars PROVE TypeInv'
  OBVIOUS
<1> USE PipelineAssumption
    DEF TypeInv, TypeOK, PtrInv, DispSteps, ExecSteps, Tasks, queues, disp, exec, counters, history
<1>1. CASE DispReceive
  BY <1>1, Removed DEF DispReceive
<1>2. CASE DispReceiveLate
  BY <1>2 DEF DispReceiveLate
<1>3. CASE DispGetExecuted
  BY <1>3 DEF DispGetExecuted
<1>4. CASE DispSetExecuted
  BY <1>4 DEF DispSetExecuted
<1>5. CASE DispSend
  BY <1>5, Single DEF DispSend, AfterSend
<1>6. CASE DispSendLate
  BY <1>6 DEF DispSendLate, AfterSend
<1>7. CASE DispLog
  BY <1>7 DEF DispLog
<1>8. CASE DispGetResult
  BY <1>8, Removed DEF DispGetResult
<1>9. CASE DispGetResultLate
  BY <1>9 DEF DispGetResultLate
<1>10. CASE DispJudge
  BY <1>10 DEF DispJudge
<1>11. CASE DispSetFailed
  BY <1>11 DEF DispSetFailed
<1>12. CASE ExecReceive
  BY <1>12, Removed DEF ExecReceive
<1>13. CASE ExecBuildChild
  BY <1>13 DEF ExecBuildChild, Allocate, AllKinds
<1>14. CASE ExecSkipChild
  BY <1>14 DEF ExecSkipChild
<1>15. CASE ExecSendChild
  BY <1>15, Appended DEF ExecSendChild, Enqueue
<1>16. CASE ExecRun
  BY <1>16, Appended
  DEF ExecRun, ResetCounters, SetTime, Calling, ResultOf, Free, Results, CMD_OK, CMD_ERROR
<1>17. CASE ExecSendResult
  BY <1>17, Single DEF ExecSendResult
<1>18. ASSUME NEW t \in Clients, ClientBuild(t) PROVE TypeInv'
  BY <1>18 DEF ClientBuild, Allocate
<1>19. ASSUME NEW t \in Clients, ClientSend(t) PROVE TypeInv'
  BY SMTT(60), <1>19, Appended DEF ClientSend, Enqueue
<1>20. ASSUME NEW t \in Clients, ClientSendLate(t) PROVE TypeInv'
  BY <1>20 DEF ClientSendLate
<1>21. CASE UNCHANGED vars
  BY <1>21 DEF vars
<1> QED
  BY <1>1, <1>2, <1>3, <1>4, <1>5, <1>6, <1>7, <1>8, <1>9, <1>10, <1>11, <1>12, <1>13, <1>14, <1>15, <1>16, <1>17, <1>18, <1>19, <1>20, <1>21, NextCases

--------------------------------------------------------------------------------
(* Ownership *)

(* Steps that move no command. *)
OwnUnmoved ==
    /\ UNCHANGED <<heap, held, dispatcher_queue, executer_cmd_queue, new_cmd, run_cmd, child>>
    /\ dpc' \in Dispatching => dpc \in Dispatching

LEMMA UnmovedCases ==
    ASSUME \/ DispReceiveLate \/ DispGetExecuted \/ DispSetExecuted \/ DispSendLate
           \/ DispLog \/ DispGetResult \/ DispGetResultLate \/ DispJudge \/ DispSetFailed
           \/ ExecSkipChild \/ ExecSendResult \/ UNCHANGED vars
    PROVE  OwnUnmoved
<1> USE DEF OwnUnmoved, Dispatching, queues, disp, exec
<1>1. CASE DispReceiveLate
  BY <1>1 DEF DispReceiveLate
<1>2. CASE DispGetExecuted
  BY <1>2 DEF DispGetExecuted
<1>3. CASE DispSetExecuted
  BY <1>3 DEF DispSetExecuted
<1>4. CASE DispSendLate
  BY <1>4 DEF DispSendLate, AfterSend
<1>5. CASE DispLog
  BY <1>5 DEF DispLog
<1>6. CASE DispGetResult
  BY <1>6 DEF DispGetResult
<1>7. CASE DispGetResultLate
  BY <1>7 DEF DispGetResultLate
<1>8. CASE DispJudge
  BY <1>8 DEF DispJudge
<1>9. CASE DispSetFailed
  BY <1>9 DEF DispSetFailed
<1>10. CASE ExecSkipChild
  BY <1>10 DEF ExecSkipChild
<1>11. CASE ExecSendResult
  BY <1>11 DEF ExecSendResult
<1>12. CASE UNCHANGED vars
  BY <1>12 DEF vars
<1> QED
  BY <1>1, <1>2, <1>3, <1>4, <1>5, <1>6, <1>7, <1>8, <1>9, <1>10, <1>11, <1>12

LEMMA OwnInit == Init => OwnInv
  BY PipelineAssumption DEF Init, OwnInv, LiveInv, HeldInv, QueuedInv, StagedInv, Dispatching

LEMMA OwnNext == TypeInv /\ OwnInv /\ [Next]_vars => OwnInv'
<1> SUFFICES ASSUME TypeInv, OwnInv, [Next]_vars PROVE OwnInv'
  OBVIOUS
<1> USE PipelineAssumption DEF TypeInv, TypeOK, PtrInv, OwnInv
<1>1. CASE OwnUnmoved
  BY SMTT(60), <1>1 DEF OwnUnmoved, LiveInv, HeldInv, QueuedInv, StagedInv
<1>2. CASE DispReceive
  <2> USE <1>2, Removed DEF DispReceive, queues, exec, Dispatching
  <2>1. LiveInv'
    BY DEF LiveInv
  <2>2. HeldInv'
    BY DEF LiveInv, HeldInv
  <2>3. QueuedInv'
    BY SMTT(60) DEF LiveInv, HeldInv, QueuedInv
  <2>4. StagedInv'
    BY DEF LiveInv, HeldInv, QueuedInv, StagedInv
  <2> QED
    BY <2>1, <2>2, <2>3, <2>4
<1>3. CASE DispSend
  <2> USE <1>3, Single DEF DispSend, AfterSend, exec, Dispatching
  <2>1. LiveInv'
    BY DEF LiveInv
  <2>2. HeldInv'
    BY DEF LiveInv, HeldInv
  <2>3. QueuedInv'
    BY DEF LiveInv, HeldInv, QueuedInv
  <2>4. StagedInv'
    BY DEF LiveInv, HeldInv, QueuedInv, StagedInv
  <2> QED
    BY <2>1, <2>2, <2>3, <2>4
<1>4. CASE ExecReceive
  <2> USE <1>4, Removed DEF ExecReceive, disp, Dispatching
  <2>1. LiveInv'
    BY DEF LiveInv
  <2>2. HeldInv'
    BY DEF LiveInv, HeldInv
  <2>3. QueuedInv'
    BY DEF LiveInv, HeldInv, QueuedInv
  <2>4. StagedInv'
    BY DEF LiveInv, HeldInv, QueuedInv, StagedInv
  <2> QED
    BY <2>1, <2>2, <2>3, <2>4
<1>5. CASE ExecBuildChild
  <2> USE <1>5 DEF ExecBuildChild, Allocate, queues, disp, Dispatching
  <2>1. LiveInv'
    BY DEF LiveInv
  <2>2. HeldInv'
    BY DEF LiveInv, HeldInv
  <2>3. QueuedInv'
    BY DEF LiveInv, HeldInv, QueuedInv
  <2>4. StagedInv'
    BY DEF LiveInv, HeldInv, QueuedInv, StagedInv
  <2> QED
    BY <2>1, <2>2, <2>3, <2>4
<1>6. CASE ExecSendChild
  <2>0. /\ child \in Cmds
        /\ dispatcher_queue' \in Seq(Cmds)
        /\ Len(dispatcher_queue') = Len(dispatcher_queue) + 1
        /\ \A i \in 1 .. Len(dispatcher_queue) : dispatcher_queue'[i] = dispatcher_queue[i]
        /\ dispatcher_queue'[Len(dispatcher_queue) + 1] = child
    BY <1>6, Appended DEF ExecSendChild, Enqueue
  <2> USE <1>6, <2>0 DEF ExecSendChild, Enqueue, disp, Dispatching
  <2>1. LiveInv'
    BY SMTT(60) DEF LiveInv
  <2>2. HeldInv'
    BY SMTT(60) DEF LiveInv, HeldInv
  <2>3. QueuedInv'
    <3>1. \A i \in 1 .. Len(dispatcher_queue) :
              child # dispatcher_queue[i] /\ i \in 1 .. Len(dispatcher_queue')
      BY DEF QueuedInv
    <3>2. \A i \in 1 .. Len(dispatcher_queue') :
              i \in 1 .. Len(dispatcher_queue) \/ dispatcher_queue'[i] = child
      OBVIOUS
    <3>3. \A i, j \in 1 .. Len(dispatcher_queue') :
              dispatcher_queue'[i] = dispatcher_queue'[j] => i = j
      BY <3>1 DEF QueuedInv
    <3>4. ASSUME NEW i \in 1 .. Len(dispatcher_queue')
          PROVE  /\ \A j \in 1 .. Len(executer_cmd_queue') :
                        executer_cmd_queue'[j] # dispatcher_queue'[i]
                 /\ dpc' \in Dispatching => new_cmd' # dispatcher_queue'[i]
                 /\ run_cmd' # dispatcher_queue'[i]
                 /\ child' # dispatcher_queue'[i]
      <4>1. CASE i \in 1 .. Len(dispatcher_queue)
        BY <4>1 DEF QueuedInv
      <4>2. CASE dispatcher_queue'[i] = child
        BY <4>2 DEF StagedInv
      <4> QED
        BY <3>2, <4>1, <4>2
    <3> QED
      BY <3>3, <3>4 DEF QueuedInv
  <2>4. StagedInv'
    BY SMTT(60) DEF StagedInv
  <2> QED
    BY <2>1, <2>2, <2>3, <2>4
<1>7. CASE ExecRun
  <2> USE <1>7 DEF ExecRun, Free, queues, disp, Dispatching
  <2>1. LiveInv'
    <3>1. \A c \in Cmds : c # run_cmd => heap'[c] = heap[c]
      OBVIOUS
    <3>2. new_cmd # NULL => heap'[new_cmd] # "none"
      BY <3>1 DEF LiveInv
    <3>3. \A t \in Clients : held[t] # NULL => heap'[held[t]] = "live"
      BY <3>1 DEF LiveInv, HeldInv
    <3>4. \A i \in 1 .. Len(dispatcher_queue) : heap'[dispatcher_queue[i]] = "live"
      <4>1. \A i \in 1 .. Len(dispatcher_queue) : dispatcher_queue[i] \in Cmds
        OBVIOUS
      <4> QED
        BY <3>1, <4>1 DEF LiveInv, QueuedInv
    <3>5. \A i \in 1 .. Len(executer_cmd_queue) : heap'[executer_cmd_queue[i]] = "live"
      <4>1. \A i \in 1 .. Len(executer_cmd_queue) : executer_cmd_queue[i] \in Cmds
        OBVIOUS
      <4> QED
        BY <3>1, <4>1 DEF LiveInv, StagedInv
    <3>6. /\ dpc \in Dispatching => heap'[new_cmd] = "live"
          /\ child # NULL => heap'[child] = "live"
      BY <3>1 DEF LiveInv, StagedInv
    <3>7. /\ held' = held /\ dispatcher_queue' = dispatcher_queue /\ dpc' = dpc
          /\ executer_cmd_queue' = executer_cmd_queue /\ new_cmd' = new_cmd
          /\ child' = child /\ run_cmd' = NULL
      OBVIOUS
    <3> QED
      BY <3>2, <3>3, <3>4, <3>5, <3>6, <3>7 DEF LiveInv
  <2>2. HeldInv'
    BY DEF LiveInv, HeldInv
  <2>3. QueuedInv'
    BY DEF LiveInv, HeldInv, QueuedInv
  <2>4. StagedInv'
    BY DEF LiveInv, HeldInv, QueuedInv, StagedInv
  <2> QED
    BY <2>1, <2>2, <2>3, <2>4
<1>8. ASSUME NEW t \in Clients, ClientBuild(t) PROVE OwnInv'
  <2> USE <1>8 DEF ClientBuild, Allocate, queues, disp, exec, Dispatching
  <2>1. LiveInv'
    BY DEF LiveInv
  <2>2. HeldInv'
    BY DEF LiveInv, HeldInv
  <2>3. QueuedInv'
    BY DEF LiveInv, HeldInv, QueuedInv
  <2>4. StagedInv'
    BY DEF LiveInv, HeldInv, QueuedInv, StagedInv
  <2> QED
    BY <2>1, <2>2, <2>3, <2>4
<1>9. ASSUME NEW t \in Clients, ClientSend(t) PROVE OwnInv'
  <2>0. /\ held[t] \in Cmds
        /\ dispatcher_queue' \in Seq(Cmds)
        /\ Len(dispatcher_queue') = Len(dispatcher_queue) + 1
        /\ \A i \in 1 .. Len(dispatcher_queue) : dispatcher_queue'[i] = dispatcher_queue[i]
        /\ dispatcher_queue'[Len(dispatcher_queue) + 1] = held[t]
    BY <1>9, Appended DEF ClientSend, Enqueue
  <2> USE <1>9, <2>0 DEF ClientSend, Enqueue, disp, exec, Dispatching
  <2>1. LiveInv'
    BY SMTT(60) DEF LiveInv
  <2>2. HeldInv'
    BY SMTT(60) DEF LiveInv, HeldInv
  <2>3. QueuedInv'
    <3>1. \A i \in 1 .. Len(dispatcher_queue) :
              held[t] # dispatcher_queue[i] /\ i \in 1 .. Len(dispatcher_queue')
      BY DEF HeldInv
    <3>2. \A i \in 1 .. Len(dispatcher_queue') :
              i \in 1 .. Len(dispatcher_queue) \/ dispatcher_queue'[i] = held[t]
      OBVIOUS
    <3>3. \A i, j \in 1 .. Len(dispatcher_queue') :
              dispatcher_queue'[i] = dispatcher_queue'[j] => i = j
      BY <3>1 DEF QueuedInv
    <3>4. ASSUME NEW i \in 1 .. Len(dispatcher_queue')
          PROVE  /\ \A j \in 1 .. Len(executer_cmd_queue') :
                        executer_cmd_queue'[j] # dispatcher_queue'[i]
                 /\ dpc' \in Dispatching => new_cmd' # dispatcher_queue'[i]
                 /\ run_cmd' # dispatcher_queue'[i]
                 /\ child' # dispatcher_queue'[i]
      <4>1. CASE i \in 1 .. Len(dispatcher_queue)
        BY <4>1 DEF QueuedInv
      <4>2. CASE dispatcher_queue'[i] = held[t]
        BY <4>2 DEF HeldInv
      <4> QED
        BY <3>2, <4>1, <4>2
    <3> QED
      BY ZenonT(60), <3>3, <3>4 DEF QueuedInv
  <2>4. StagedInv'
    BY DEF StagedInv
  <2> QED
    BY <2>1, <2>2, <2>3, <2>4
<1>10. ASSUME NEW t \in Clients, ClientSendLate(t) PROVE OwnInv'
  <2> USE <1>10 DEF ClientSendLate, queues, disp, exec, Dispatching
  <2>1. LiveInv'
    BY DEF LiveInv
  <2>2. HeldInv'
    BY DEF LiveInv, HeldInv
  <2>3. QueuedInv'
    BY DEF LiveInv, HeldInv, QueuedInv
  <2>4. StagedInv'
    BY DEF LiveInv, HeldInv, QueuedInv, StagedInv
  <2> QED
    BY <2>1, <2>2, <2>3, <2>4
<1> QED
  BY <1>1, <1>2, <1>3, <1>4, <1>5, <1>6, <1>7, <1>8, <1>9, <1>10, NextCases, UnmovedCases

(* The invariant says of Owners what SingleOwner says. *)
LEMMA OwnersCases ==
    ASSUME NEW c \in Cmds, NEW p \in Owners(c)
    PROVE  \/ \E t \in Clients : held[t] = c /\ p = <<"client", t>>
           \/ \E i \in 1 .. Len(dispatcher_queue) : dispatcher_queue[i] = c /\ p = <<"queued", i>>
           \/ \E i \in 1 .. Len(executer_cmd_queue) : executer_cmd_queue[i] = c /\ p = <<"staged", i>>
           \/ new_cmd = c /\ dpc \in Dispatching /\ p = <<"dispatcher", 0>>
           \/ run_cmd = c /\ p = <<"executer", 0>>
           \/ child = c /\ p = <<"child", 0>>
  BY DEF Owners

LEMMA OwnImplies == TypeInv /\ OwnInv => SingleOwner
<1> SUFFICES ASSUME TypeInv, OwnInv, NEW c \in Cmds
             PROVE  /\ Owners(c) # {} => heap[c] = "live"
                    /\ \A p, q \in Owners(c) : p = q
  BY DEF SingleOwner
<1> USE PipelineAssumption DEF OwnInv
<1>1. ASSUME NEW p \in Owners(c) PROVE heap[c] = "live"
  BY <1>1, OwnersCases DEF LiveInv
<1>2. ASSUME NEW p \in Owners(c), NEW q \in Owners(c) PROVE p = q
  <2>1. CASE \E t \in Clients : held[t] = c /\ p = <<"client", t>>
    BY <2>1, <1>2, OwnersCases DEF HeldInv
  <2>2. CASE \E i \in 1 .. Len(dispatcher_queue) : dispatcher_queue[i] = c /\ p = <<"queued", i>>
    BY <2>2, <1>2, OwnersCases DEF HeldInv, QueuedInv
  <2>3. CASE \E i \in 1 .. Len(executer_cmd_queue) : executer_cmd_queue[i] = c /\ p = <<"staged", i>>
    <3>1. \A i, j \in 1 .. Len(executer_cmd_queue) : i = j
      BY DEF TypeInv, TypeOK
    <3> QED
      BY <2>3, <3>1, <1>2, OwnersCases DEF HeldInv, QueuedInv, StagedInv
  <2>4. CASE new_cmd = c /\ dpc \in Dispatching /\ p = <<"dispatcher", 0>>
    BY <2>4, <1>2, OwnersCases DEF HeldInv, QueuedInv, StagedInv
  <2>5. CASE run_cmd = c /\ p = <<"executer", 0>>
    BY <2>5, <1>2, OwnersCases DEF HeldInv, QueuedInv, StagedInv
  <2>6. CASE child = c /\ p = <<"child", 0>>
    BY <2>6, <1>2, OwnersCases DEF HeldInv, QueuedInv, StagedInv
  <2> QED
    BY <2>1, <2>2, <2>3, <2>4, <2>5, <2>6, <1>2, OwnersCases
<1> QED
  BY <1>1, <1>2

--------------------------------------------------------------------------------
(* Lock step, results and order *)

LEMMA AnswerInit == Init => StepInv /\ OrderInv
  BY DEF Init, StepInv, OrderInv, Idle, Busy, BlockingResult, Pending, Ahead, Dispatching

(* The kind of the command that is dispatched stays. *)
LEMMA KindKept ==
    ASSUME TypeInv, OwnInv, [Next]_vars, new_cmd # NULL
    PROVE  kind'[new_cmd] = kind[new_cmd]
<1>1. CASE \E c \in Cmds, k \in AllKinds : Allocate(c, k)
  BY <1>1 DEF Allocate, TypeInv, TypeOK, OwnInv, LiveInv
<1>2. CASE UNCHANGED kind
  BY <1>2
<1> QED
  BY <1>1, <1>2, NextCases, PipelineAssumption
  DEF DispReceive, DispReceiveLate, DispGetExecuted, DispSetExecuted, DispSend, DispSendLate,
      DispLog, DispGetResult, DispGetResultLate, DispJudge, DispSetFailed, ExecReceive,
      ExecBuildChild, ExecSkipChild, ExecSendChild, ExecRun, ExecSendResult, ClientBuild,
      ClientSend, ClientSendLate, vars, AllKinds

(* Steps that leave the dispatcher, its queues and the executer where they *)
(* are.                                                                    *)
Aside ==
    /\ UNCHANGED <<executer_cmd_queue, executer_stat_queue, dpc, new_cmd, cmd_result,
                   xpc, run_cmd, cmd_stat, finished, gave_up>>

LEMMA AsideCases ==
    ASSUME \/ DispReceiveLate \/ ExecBuildChild \/ ExecSkipChild \/ ExecSendChild
           \/ UNCHANGED vars
           \/ \E t \in Clients : ClientBuild(t) \/ ClientSend(t)
    PROVE  Aside
  BY DEF Aside, DispReceiveLate, ExecBuildChild, ExecSkipChild, ExecSendChild, vars,
         ClientBuild, ClientSend, queues, disp, exec, history

LEMMA StepNext == TypeInv /\ OwnInv /\ StepInv /\ [Next]_vars => StepInv'
<1> SUFFICES ASSUME TypeInv, OwnInv, StepInv, [Next]_vars, ~gave_up'
             PROVE  (Idle /\ Busy /\ BlockingResult)'
  BY DEF StepInv
<1> USE PipelineAssumption
    DEF TypeInv, TypeOK, PtrInv, StepInv, Idle, Busy, BlockingResult, Answered, ResultOf,
        queues, disp, exec, counters, history
<1>1. CASE Aside
  BY <1>1, KindKept DEF Aside
<1>2. CASE DispReceive
  BY <1>2 DEF DispReceive
<1>3. CASE DispGetExecuted
  BY <1>3 DEF DispGetExecuted
<1>4. CASE DispSetExecuted
  BY <1>4 DEF DispSetExecuted
<1>5. CASE DispSend
  BY <1>5 DEF DispSend, AfterSend
<1>6. CASE DispLog
  BY <1>6 DEF DispLog
<1>7. CASE DispGetResult
  BY <1>7 DEF DispGetResult
<1>8. CASE DispJudge
  BY <1>8 DEF DispJudge
<1>9. CASE DispSetFailed
  BY <1>9 DEF DispSetFailed
<1>10. CASE ExecReceive
  BY <1>10 DEF ExecReceive
<1>11. CASE ExecRun
  <2>1. /\ dpc \in {"log", "get_result"} /\ run_cmd = new_cmd /\ new_cmd \in Cmds
        /\ executer_cmd_queue = <<>> /\ executer_stat_queue = <<>>
    BY <1>11 DEF ExecRun
  <2>2. /\ finished' # <<>> /\ finished'[Len(finished')] = new_cmd
    <3>1. finished' = Append(finished, new_cmd)
      BY <1>11, <2>1 DEF ExecRun
    <3>2. Len(finished') = Len(finished) + 1 /\ finished'[Len(finished) + 1] = new_cmd
      BY <3>1, <2>1, Appended
    <3> QED
      BY <3>1, <3>2, <2>1, SMTT(60)
  <2> QED
    BY <1>11, <2>1, <2>2 DEF ExecRun
<1>12. CASE ExecSendResult
  BY <1>12 DEF ExecSendResult
<1>13. ~DispSendLate /\ ~DispGetResultLate /\ ~(\E t \in Clients : ClientSendLate(t))
  BY DEF DispSendLate, DispGetResultLate, ClientSendLate
<1> QED
  BY <1>1, <1>2, <1>3, <1>4, <1>5, <1>6, <1>7, <1>8, <1>9, <1>10, <1>11, <1>12, <1>13, NextCases, AsideCases

(* Steps that change neither the order of the commands nor whether one is  *)
(* pending.                                                                *)
InOrder ==
    /\ UNCHANGED <<dispatcher_queue, new_cmd, accepted, finished>>
    /\ Pending' <=> Pending
    /\ gave_up' \/ ~gave_up

(* A command is queued behind the others. *)
LEMMA OrderEnqueue ==
    ASSUME TypeInv, OrderInv, NEW c \in Cmds, Enqueue(c),
           UNCHANGED <<new_cmd, finished, gave_up, dpc, executer_cmd_queue, xpc>>
    PROVE  OrderInv'
<1> SUFFICES ASSUME ~gave_up PROVE OrderInv'
  BY DEF OrderInv
<1> USE DEF TypeInv, TypeOK
<1>1. Ahead' = Ahead /\ (Pending' <=> Pending) /\ Ahead \in Nat /\ Len(finished) <= Ahead
      /\ (Pending => Ahead > 0)
  BY DEF Ahead, Pending
<1>2. /\ Len(dispatcher_queue') = Len(dispatcher_queue) + 1
      /\ Len(accepted') = Len(accepted) + 1
      /\ \A i \in 1 .. Len(dispatcher_queue) : dispatcher_queue'[i] = dispatcher_queue[i]
      /\ \A i \in 1 .. Len(accepted) : accepted'[i] = accepted[i]
      /\ dispatcher_queue'[Len(dispatcher_queue) + 1] = c
      /\ accepted'[Len(accepted) + 1] = c
  BY Appended DEF Enqueue
<1>3. Len(accepted') = Ahead' + Len(dispatcher_queue')
  <2>1. Len(accepted) = Ahead + Len(dispatcher_queue) /\ Len(dispatcher_queue) \in Nat
    BY DEF OrderInv
  <2> HIDE DEF TypeInv
  <2> QED
    BY <1>1, <1>2, <2>1
<1>4. \A i \in 1 .. Len(finished') : finished'[i] = accepted'[i]
  BY <1>1, <1>2 DEF OrderInv
<1>5. Pending' => accepted'[Ahead'] = new_cmd'
  BY SMTT(60), <1>1, <1>2 DEF OrderInv
<1>6. ASSUME NEW i \in 1 .. Len(dispatcher_queue')
      PROVE  dispatcher_queue'[i] = accepted'[Ahead' + i]
  <2>1. CASE i \in 1 .. Len(dispatcher_queue)
    <3>1. Ahead + i \in 1 .. Len(accepted)
      BY <1>1, <2>1 DEF OrderInv
    <3> QED
      BY <1>1, <1>2, <2>1, <3>1 DEF OrderInv
  <2>2. CASE i = Len(dispatcher_queue) + 1
    <3>1. Ahead + i = Len(accepted) + 1
      <4>1. Len(accepted) = Ahead + Len(dispatcher_queue) /\ Len(dispatcher_queue) \in Nat
        BY DEF OrderInv
      <4> QED
        BY <4>1, <1>1, <2>2
    <3> QED
      BY <1>1, <1>2, <2>2, <3>1
  <2> QED
    BY <1>2, <2>1, <2>2
<1> QED
  BY <1>3, <1>4, <1>5, <1>6 DEF OrderInv

LEMMA OrderNext == TypeInv /\ OwnInv /\ StepInv /\ OrderInv /\ [Next]_vars => OrderInv'
<1> SUFFICES ASSUME TypeInv, OwnInv, StepInv, OrderInv, [Next]_vars, ~gave_up' PROVE OrderInv'
  BY DEF OrderInv
<1>1. CASE InOrder
  BY <1>1 DEF InOrder, OrderInv, Ahead
<1> USE DEF TypeInv, TypeOK, PtrInv, queues, disp, exec, counters, history
<1>2. ~gave_up /\ Idle /\ Busy
  BY NextCases DEF StepInv, DispReceive, DispReceiveLate, DispGetExecuted, DispSetExecuted,
      DispSend, DispSendLate, DispLog, DispGetResult, DispGetResultLate, DispJudge,
      DispSetFailed, ExecReceive, ExecBuildChild, ExecSkipChild, ExecSendChild, ExecRun,
      ExecSendResult, ClientBuild, ClientSend, ClientSendLate, vars
<1>3. ASSUME \/ DispReceiveLate \/ DispGetExecuted \/ DispSetExecuted \/ DispSend
             \/ DispLog \/ DispGetResult \/ DispJudge \/ DispSetFailed
             \/ ExecReceive \/ ExecBuildChild \/ ExecSkipChild \/ ExecSendResult
             \/ UNCHANGED vars \/ \E t \in Clients : ClientBuild(t)
      PROVE  InOrder
  <2> USE <1>2 DEF InOrder, Pending, Dispatching
  <2>1. CASE DispReceiveLate
    BY <2>1 DEF DispReceiveLate
  <2>2. CASE DispGetExecuted
    BY <2>2 DEF DispGetExecuted
  <2>3. CASE DispSetExecuted
    BY <2>3 DEF DispSetExecuted
  <2>4. CASE DispSend
    BY <2>4 DEF DispSend, AfterSend, Idle, Busy
  <2>5. CASE DispLog
    BY <2>5 DEF DispLog
  <2>6. CASE DispGetResult
    BY <2>6 DEF DispGetResult
  <2>7. CASE DispJudge
    BY <2>7 DEF DispJudge
  <2>8. CASE DispSetFailed
    BY <2>8 DEF DispSetFailed
  <2>9. CASE ExecReceive
    BY <2>9 DEF ExecReceive, Idle, Busy
  <2>10. CASE ExecBuildChild
    BY <2>10 DEF ExecBuildChild
  <2>11. CASE ExecSkipChild
    BY <2>11 DEF ExecSkipChild
  <2>12. CASE ExecSendResult
    BY <2>12 DEF ExecSendResult
  <2>13. CASE UNCHANGED vars
    BY <2>13 DEF vars
  <2>14. CASE \E t \in Clients : ClientBuild(t)
    BY <2>14 DEF ClientBuild
  <2> QED
    BY <1>3, <2>1, <2>2, <2>3, <2>4, <2>5, <2>6, <2>7, <2>8, <2>9, <2>10, <2>11, <2>12, <2>13, <2>14
<1>4. CASE DispReceive
  <2>1. ~Pending /\ Pending' /\ Ahead = Len(finished) /\ Ahead' = Ahead + 1
    BY <1>2, <1>4 DEF DispReceive, Idle, Pending, Ahead, Dispatching
  <2>2. /\ new_cmd' = dispatcher_queue[1]
        /\ Len(dispatcher_queue) > 0
        /\ Len(dispatcher_queue') = Len(dispatcher_queue) - 1
        /\ \A i \in 1 .. Len(dispatcher_queue') : dispatcher_queue'[i] = dispatcher_queue[i + 1]
        /\ UNCHANGED <<accepted, finished>>
    BY <1>4, Removed DEF DispReceive
  <2>3. Len(accepted') = Ahead' + Len(dispatcher_queue')
    <3>1. Len(accepted) = Ahead + Len(dispatcher_queue)
      BY <1>2 DEF OrderInv
    <3>2. Len(accepted') = Len(accepted) /\ Len(dispatcher_queue) \in Nat /\ Ahead \in Nat
      BY <2>1, <2>2
    <3> QED
      BY <3>1, <3>2, <2>1, <2>2
  <2>4. \A i \in 1 .. Len(finished') : finished'[i] = accepted'[i]
    BY <1>2, <2>2 DEF OrderInv
  <2>5. accepted'[Ahead'] = new_cmd'
    BY <1>2, <2>1, <2>2 DEF OrderInv
  <2>6. ASSUME NEW i \in 1 .. Len(dispatcher_queue')
        PROVE  dispatcher_queue'[i] = accepted'[Ahead' + i]
    <3>1. i + 1 \in 1 .. Len(dispatcher_queue) /\ Ahead' + i = Ahead + (i + 1)
      <4>1. Len(dispatcher_queue) \in Nat /\ Ahead \in Nat
        BY <2>1
      <4>2. Len(dispatcher_queue') = Len(dispatcher_queue) - 1 /\ Ahead' = Ahead + 1
        BY <2>1, <2>2
      <4> HIDE DEF TypeInv
      <4> QED
        BY <4>1, <4>2
    <3> QED
      BY <1>2, <2>2, <3>1 DEF OrderInv
  <2> QED
    BY <2>3, <2>4, <2>5, <2>6 DEF OrderInv
<1>5. CASE ExecRun
  <2>1. Pending /\ ~Pending' /\ run_cmd = new_cmd /\ new_cmd \in Cmds
    BY <1>2, <1>5, PipelineAssumption DEF ExecRun, Idle, Busy, Pending, Dispatching
  <2>2. /\ Len(finished') = Len(finished) + 1
        /\ \A i \in 1 .. Len(finished) : finished'[i] = finished[i]
        /\ finished'[Len(finished) + 1] = new_cmd
        /\ UNCHANGED <<accepted, dispatcher_queue, new_cmd>>
    BY <1>5, <2>1, Appended DEF ExecRun
  <2>3. Ahead = Len(finished) + 1 /\ Ahead' = Ahead
    BY <2>1, <2>2 DEF Ahead
  <2>4. Len(accepted') = Ahead' + Len(dispatcher_queue')
    BY <1>2, <2>2, <2>3 DEF OrderInv
  <2>5. ASSUME NEW i \in 1 .. Len(finished')
        PROVE  finished'[i] = accepted'[i]
    <3>1. CASE i \in 1 .. Len(finished)
      BY <1>2, <2>2, <3>1 DEF OrderInv
    <3>2. CASE i = Ahead
      BY <1>2, <2>1, <2>2, <2>3, <3>2 DEF OrderInv
    <3> QED
      BY <2>2, <2>3, <3>1, <3>2
  <2>6. \A i \in 1 .. Len(dispatcher_queue') : dispatcher_queue'[i] = accepted'[Ahead' + i]
    BY <1>2, <2>2, <2>3 DEF OrderInv
  <2> QED
    BY <2>1, <2>4, <2>5, <2>6 DEF OrderInv
<1>6. CASE ExecSendChild
  BY <1>6, OrderEnqueue DEF ExecSendChild
<1>7. ASSUME NEW t \in Clients, ClientSend(t) PROVE OrderInv'
  BY <1>7, OrderEnqueue DEF ClientSend
<1>8. ~DispSendLate /\ ~DispGetResultLate /\ ~(\E t \in Clients : ClientSendLate(t))
  BY DEF DispSendLate, DispGetResultLate, ClientSendLate
<1> QED
  BY <1>1, <1>3, <1>4, <1>5, <1>6, <1>7, <1>8, NextCases

--------------------------------------------------------------------------------
(* No command is lost *)

(* Owners, without the tags. *)
Placed(c) ==
    \/ \E t \in Clients : held[t] = c
    \/ \E i \in 1 .. Len(dispatcher_queue) : dispatcher_queue[i] = c
    \/ \E i \in 1 .. Len(executer_cmd_queue) : executer_cmd_queue[i] = c
    \/ new_cmd = c /\ dpc \in Dispatching
    \/ run_cmd = c
    \/ child = c

PlacedInv == ~gave_up => \A c \in Cmds : heap[c] = "live" => Placed(c)

LEMMA PlacedOwned == ASSUME NEW c \in Cmds, Placed(c) PROVE Owners(c) # {}
<1>1. CASE \E t \in Clients : held[t] = c
  BY <1>1 DEF Owners
<1>2. CASE \E i \in 1 .. Len(dispatcher_queue) : dispatcher_queue[i] = c
  BY <1>2 DEF Owners
<1>3. CASE \E i \in 1 .. Len(executer_cmd_queue) : executer_cmd_queue[i] = c
  BY <1>3 DEF Owners
<1>4. CASE new_cmd = c /\ dpc \in Dispatching
  BY <1>4 DEF Owners
<1>5. CASE run_cmd = c \/ child = c
  BY <1>5 DEF Owners
<1> QED
  BY <1>1, <1>2, <1>3, <1>4, <1>5 DEF Placed

LEMMA PlacedNext == TypeInv /\ PlacedInv /\ [Next]_vars => PlacedInv'
<1> SUFFICES ASSUME TypeInv, PlacedInv, [Next]_vars, ~gave_up',
                    NEW c \in Cmds, heap'[c] = "live"
             PROVE  Placed(c)'
  BY DEF PlacedInv
<1> USE PipelineAssumption DEF TypeInv, TypeOK, PtrInv, Placed, Dispatching
<1>1. ~gave_up
  BY NextCases DEF DispReceive, DispReceiveLate, DispGetExecuted, DispSetExecuted,
      DispSend, DispSendLate, DispLog, DispGetResult, DispGetResultLate, DispJudge,
      DispSetFailed, ExecReceive, ExecBuildChild, ExecSkipChild, ExecSendChild, ExecRun,
      ExecSendResult, ClientBuild, ClientSend, ClientSendLate, vars
<1> USE <1>1 DEF PlacedInv, queues, disp, exec
<1>2. CASE DispReceive
  <2>1. /\ new_cmd' = dispatcher_queue[1] /\ dpc' \in Dispatching
        /\ Len(dispatcher_queue') = Len(dispatcher_queue) - 1
        /\ \A i \in 1 .. Len(dispatcher_queue') : dispatcher_queue'[i] = dispatcher_queue[i + 1]
    BY <1>2, Removed DEF DispReceive
  <2>2. ASSUME NEW i \in 1 .. Len(dispatcher_queue), dispatcher_queue[i] = c
        PROVE  Placed(c)'
    <3>1. CASE i = 1
      BY <2>1, <2>2, <3>1
    <3>2. CASE i # 1
      <4>0. Len(dispatcher_queue) \in Nat /\ Len(dispatcher_queue') = Len(dispatcher_queue) - 1
        BY <2>1
      <4>1. i - 1 \in 1 .. Len(dispatcher_queue') /\ dispatcher_queue'[i - 1] = c
        <5> HIDE DEF TypeInv, PlacedInv
        <5>1. i - 1 \in 1 .. Len(dispatcher_queue') /\ (i - 1) + 1 = i
          BY <4>0, <3>2
        <5> QED
          BY <2>1, <2>2, <5>1
      <4> QED
        BY <4>1
    <3> QED
      BY <3>1, <3>2
  <2> QED
    BY <1>2, <2>2 DEF DispReceive
<1>3. CASE DispReceiveLate
  BY <1>3 DEF DispReceiveLate
<1>4. CASE DispGetExecuted
  BY <1>4 DEF DispGetExecuted
<1>5. CASE DispSetExecuted
  BY <1>5 DEF DispSetExecuted
<1>6. CASE DispSend
  BY <1>6, Single DEF DispSend, AfterSend
<1>7. CASE DispLog
  BY <1>7 DEF DispLog
<1>8. CASE DispGetResult
  BY <1>8 DEF DispGetResult
<1>9. CASE DispJudge
  BY <1>9 DEF DispJudge
<1>10. CASE DispSetFailed
  BY <1>10 DEF DispSetFailed
<1>11. CASE ExecReceive
  BY SMTT(60), <1>11, Removed DEF ExecReceive
<1>12. CASE ExecBuildChild
  BY ZenonT(60), <1>12 DEF ExecBuildChild, Allocate
<1>13. CASE ExecSkipChild
  BY <1>13 DEF ExecSkipChild
<1>14. CASE ExecSendChild
  BY SMTT(60), <1>14, Appended DEF ExecSendChild, Enqueue
<1>15. CASE ExecRun
  BY <1>15 DEF ExecRun, Free
<1>16. CASE ExecSendResult
  BY <1>16 DEF ExecSendResult
<1>17. ASSUME NEW t \in Clients, ClientBuild(t) PROVE Placed(c)'
  <2>1. PICK d \in Cmds, k \in Kinds : Allocate(d, k) /\ held' = [held EXCEPT ![t] = d]
    BY <1>17 DEF ClientBuild
  <2>2. CASE c = d
    BY <2>1, <2>2
  <2>3. CASE c # d
    <3>1. heap[c] = "live" /\ held[t] # c
      BY <1>17, <2>1, <2>3 DEF ClientBuild, Allocate
    <3>2. \A u \in Clients : held[u] = c => held'[u] = c
      BY <2>1, <3>1
    <3> QED
      BY <1>17, <3>1, <3>2 DEF ClientBuild
  <2> QED
    BY <2>2, <2>3
<1>18. ASSUME NEW t \in Clients, ClientSend(t) PROVE Placed(c)'
  <2>1. /\ held[t] \in Cmds
        /\ Len(dispatcher_queue') = Len(dispatcher_queue) + 1
        /\ \A i \in 1 .. Len(dispatcher_queue) : dispatcher_queue'[i] = dispatcher_queue[i]
        /\ dispatcher_queue'[Len(dispatcher_queue) + 1] = held[t]
    BY <1>18, Appended DEF ClientSend, Enqueue
  <2>2. CASE c = held[t]
    BY <2>1, <2>2, SMTT(60)
  <2>3. CASE c # held[t]
    <3>1. \A u \in Clients : held[u] = c => held'[u] = c
      BY <1>18, <2>3 DEF ClientSend
    <3>2. \A i \in 1 .. Len(dispatcher_queue) :
              dispatcher_queue[i] = c => i \in 1 .. Len(dispatcher_queue') /\ dispatcher_queue'[i] = c
      BY <2>1
    <3> QED
      BY <1>18, <3>1, <3>2 DEF ClientSend
  <2> QED
    BY <2>2, <2>3
<1>19. ~DispSendLate /\ ~DispGetResultLate /\ ~(\E t \in Clients : ClientSendLate(t))
  BY DEF DispSendLate, DispGetResultLate, ClientSendLate
<1>20. CASE UNCHANGED vars
  BY <1>20 DEF vars
<1> QED
  BY <1>2, <1>3, <1>4, <1>5, <1>6, <1>7, <1>8, <1>9, <1>10, <1>11, <1>12, <1>13, <1>14, <1>15, <1>16, <1>17, <1>18, <1>19, <1>20, NextCases

--------------------------------------------------------------------------------
(* The counters *)

(* A command that ran was allocated, so its kind does not change. *)
FinishedInv == \A i \in 1 .. Len(finished) : heap[finished[i]] # "none"

(* What LastReset chooses, of the commands f that ran and the kinds k. *)
ResetIn(f, k, i) ==
    /\ i \in 0 .. Len(f)
    /\ i > 0 => k[f[i]] = "reset"
    /\ \A j \in i + 1 .. Len(f) : k[f[j]] # "reset"

ResetAt(i) == ResetIn(finished, kind, i)

(* The commands run, and failed, since the status variables were reset. *)
Fails == {i \in LastReset + 1 .. Len(finished) : kind[finished[i]] = "fail"}
Executed == Len(finished) - LastReset
Failed == Cardinality(Fails)

(* The command of the dispatcher is counted and has not run yet. *)
Counted == dpc = "send" \/ (dpc \in {"log", "get_result"} /\ Pending)

(* It has failed, and that is not counted yet. *)
FailureDue ==
    \/ dpc \in {"log", "get_result", "judge"} /\ ~Pending /\ kind[new_cmd] = "fail"
    \/ dpc = "set_failed"

(* The counters between two turns of the dispatcher: the command is        *)
(* counted before it runs, its failure after.                              *)
CountInv ==
    ~gave_up =>
        /\ executed_cmds = Executed + (IF Counted THEN 1 ELSE 0)
        /\ failed_cmds + (IF FailureDue THEN 1 ELSE 0) = Failed
        /\ dpc = "set_executed" => tmp = executed_cmds
        /\ dpc = "set_failed" => tmp = failed_cmds

TallyInv == FinishedInv /\ (\E i : ResetAt(i)) /\ CountInv

LEMMA ResetUnique ==
    ASSUME NEW f \in Seq(Cmds), NEW k, NEW i, ResetIn(f, k, i)
    PROVE  i = CHOOSE n \in 0 .. Len(f) :
                  /\ n > 0 => k[f[n]] = "reset"
                  /\ \A j \in n + 1 .. Len(f) : k[f[j]] # "reset"
<1>1. \A n : ResetIn(f, k, n) => n = i
  <2> SUFFICES ASSUME NEW n, ResetIn(f, k, n), n # i PROVE FALSE
    OBVIOUS
  <2>1. i \in Nat /\ n \in Nat /\ i <= Len(f) /\ n <= Len(f) /\ Len(f) \in Nat
    BY DEF ResetIn
  <2>2. CASE i < n
    <3>1. n \in i + 1 .. Len(f) /\ n > 0
      BY <2>1, <2>2
    <3> QED
      BY <3>1 DEF ResetIn
  <2>3. CASE n < i
    <3>1. i \in n + 1 .. Len(f) /\ i > 0
      BY <2>1, <2>3
    <3> QED
      BY <3>1 DEF ResetIn
  <2> QED
    BY <2>1, <2>2, <2>3
<1> QED
  BY <1>1 DEF ResetIn

(* The failures since the last reset are finitely many. *)
LEMMA FailsFinite ==
    ASSUME TypeInv, NEW i, ResetAt(i)
    PROVE  /\ IsFiniteSet(Fails)
           /\ Failed \in Nat
           /\ Executed \in Nat
           /\ Fails \subseteq 1 .. Len(finished)
<1> USE DEF TypeInv, TypeOK
<1>1. LastReset = i /\ i \in 0 .. Len(finished) /\ Len(finished) \in Nat
  BY ResetUnique DEF ResetAt, ResetIn, LastReset
<1>2. IsFiniteSet(1 .. Len(finished))
  BY FS_Interval
<1>3. Fails \in SUBSET (1 .. Len(finished))
  BY <1>1 DEF Fails
<1>4. IsFiniteSet(Fails)
  BY <1>2, <1>3, FS_Subset
<1> QED
  BY <1>1, <1>3, <1>4, FS_CardinalityType DEF Failed, Executed

(* A step that runs nothing leaves what ran, and its kinds. *)
LEMMA TallyKept ==
    ASSUME TypeInv, OwnInv, FinishedInv, NEW i, ResetAt(i), [Next]_vars, UNCHANGED finished
    PROVE  /\ FinishedInv' /\ ResetAt(i)' /\ LastReset' = i
           /\ Executed' = Executed /\ Failed' = Failed
<1> USE DEF TypeInv, TypeOK
<1>1. \A c \in Cmds : heap[c] # "none" => heap'[c] # "none" /\ kind'[c] = kind[c]
  <2>1. CASE \E c \in Cmds, k \in AllKinds : Allocate(c, k)
    BY <2>1 DEF Allocate
  <2>2. CASE UNCHANGED kind /\ (UNCHANGED heap \/ Free(run_cmd))
    BY <2>2 DEF Free
  <2> QED
    BY ZenonT(60), <2>1, <2>2, NextCases, PipelineAssumption
    DEF DispReceive, DispReceiveLate, DispGetExecuted, DispSetExecuted, DispSend, DispSendLate,
        DispLog, DispGetResult, DispGetResultLate, DispJudge, DispSetFailed, ExecReceive,
        ExecBuildChild, ExecSkipChild, ExecSendChild, ExecRun, ExecSendResult, ClientBuild,
        ClientSend, ClientSendLate, vars, AllKinds
<1>2. \A j \in 1 .. Len(finished) : finished[j] \in Cmds /\ kind'[finished[j]] = kind[finished[j]]
  BY <1>1 DEF FinishedInv
<1>3. FinishedInv'
  BY <1>1, <1>2 DEF FinishedInv
<1>4. i \in 0 .. Len(finished) /\ Len(finished) \in Nat
  BY DEF ResetAt, ResetIn
<1>5. ResetAt(i)'
  BY <1>2, <1>4 DEF ResetAt, ResetIn
<1>6. LastReset' = i /\ LastReset = i
  <2>1. LastReset = i
    BY ResetUnique DEF ResetAt, ResetIn, LastReset
  <2>2. LastReset' = i
    BY <1>5, ResetUnique DEF ResetAt, ResetIn, LastReset
  <2> QED
    BY <2>1, <2>2
<1>7. Fails' = Fails
  <2>1. \A j \in i + 1 .. Len(finished) : j \in 1 .. Len(finished)
    BY <1>4
  <2> QED
    BY <1>2, <1>6, <2>1 DEF Fails
<1> QED
  BY <1>3, <1>5, <1>6, <1>7 DEF Executed, Failed

(* The command that ran comes last: the count restarts if it was a reset. *)
LEMMA TallyRun ==
    ASSUME TypeInv, OwnInv, FinishedInv, NEW i, ResetAt(i), ExecRun
    PROVE  /\ FinishedInv' /\ (\E n : ResetAt(n))'
           /\ kind[run_cmd] = "reset" => Executed' = 0 /\ Failed' = 0
           /\ kind[run_cmd] # "reset" => Executed' = Executed + 1
           /\ kind[run_cmd] = "fail" => Failed' = Failed + 1
           /\ kind[run_cmd] \notin {"reset", "fail"} => Failed' = Failed
<1> DEFINE n == Len(finished) + 1
<1>1. /\ run_cmd \in Cmds /\ kind' = kind /\ heap' = [heap EXCEPT ![run_cmd] = "freed"]
      /\ heap \in [Cmds -> {"none", "live", "freed"}]
      /\ finished' = Append(finished, run_cmd)
  BY DEF ExecRun, Free, TypeInv, TypeOK, PtrInv
<1>2. /\ finished \in Seq(Cmds) /\ finished' \in Seq(Cmds) /\ Len(finished) \in Nat
      /\ Len(finished') = n /\ finished'[n] = run_cmd
      /\ \A j \in 1 .. Len(finished) : finished'[j] = finished[j]
  BY <1>1, Appended DEF TypeInv, TypeOK
<1>3. i \in 0 .. Len(finished) /\ LastReset = i
  BY <1>2, ResetUnique DEF ResetAt, ResetIn, LastReset
<1>4. \A j \in 1 .. Len(finished') : j = n \/ j \in 1 .. Len(finished)
  BY <1>2
<1>5. FinishedInv'
  BY <1>1, <1>2, <1>4 DEF FinishedInv
<1>6. CASE kind[run_cmd] = "reset"
  <2>1. ResetIn(finished', kind', n)
    BY <1>1, <1>2, <1>6 DEF ResetIn
  <2>2. LastReset' = n
    BY <1>2, <2>1, ResetUnique DEF ResetIn, LastReset
  <2>3. Fails' = {} /\ Executed' = 0
    BY <1>2, <2>2 DEF Fails, Executed
  <2> QED
    BY <1>5, <1>6, <2>1, <2>3, FS_EmptySet DEF Failed, ResetAt
<1>7. CASE kind[run_cmd] # "reset"
  <2>1. ResetIn(finished', kind', i)
    <3>1. \A j \in i + 1 .. Len(finished') : j = n \/ j \in i + 1 .. Len(finished)
      BY <1>2, <1>3
    <3>2. i > 0 => i \in 1 .. Len(finished)
      BY <1>2, <1>3
    <3>3. \A j \in i + 1 .. Len(finished) : j \in 1 .. Len(finished)
      BY <1>2, <1>3
    <3>4. i \in 0 .. Len(finished')
      BY <1>2, <1>3
    <3> QED
      BY <1>1, <1>2, <1>7, <3>1, <3>2, <3>3, <3>4 DEF ResetAt, ResetIn
  <2>2. LastReset' = i
    BY <1>2, <2>1, ResetUnique DEF ResetIn, LastReset
  <2>3. Executed' = Executed + 1
    BY <1>2, <1>3, <2>2 DEF Executed
  <2>4. IsFiniteSet(Fails) /\ Failed \in Nat /\ n \notin Fails
    <3>1. IsFiniteSet(Fails) /\ Failed \in Nat
      BY FailsFinite
    <3> QED
      BY <3>1, <1>2, <1>3 DEF Fails
  <2>5. Fails' = IF kind[run_cmd] = "fail" THEN Fails \cup {n} ELSE Fails
    <3>1. i + 1 .. Len(finished') = (i + 1 .. Len(finished)) \cup {n}
      BY <1>2, <1>3
    <3>2. \A j \in i + 1 .. Len(finished) : j \in 1 .. Len(finished)
      BY <1>2, <1>3
    <3>3. n \in i + 1 .. Len(finished')
      BY <1>2, <1>3
    <3> QED
      BY <1>1, <1>2, <1>3, <2>2, <3>1, <3>2, <3>3 DEF Fails
  <2>6. Failed' = IF kind[run_cmd] = "fail" THEN Failed + 1 ELSE Failed
    BY <2>4, <2>5, FS_AddElement DEF Failed
  <2> QED
    BY <1>5, <1>7, <2>1, <2>3, <2>6 DEF ResetAt
<1> QED
  BY <1>6, <1>7

LEMMA TallyInit == Init => TallyInv
<1> SUFFICES ASSUME Init PROVE TallyInv
  OBVIOUS
<1>1. Len(finished) = 0 /\ finished \in Seq(Cmds)
  BY DEF Init
<1>2. ResetAt(0)
  BY <1>1 DEF ResetAt, ResetIn
<1>3. LastReset = 0
  BY <1>1, <1>2, ResetUnique DEF ResetAt, ResetIn, LastReset
<1>4. Executed = 0 /\ Fails = {}
  BY <1>1, <1>3 DEF Executed, Fails
<1>5. Failed = 0
  BY <1>4, FS_EmptySet DEF Failed
<1>6. dpc = "receive" /\ executed_cmds = 0 /\ failed_cmds = 0
  BY DEF Init
<1>7. ~Counted /\ ~FailureDue
  BY <1>6 DEF Counted, FailureDue
<1>8. CountInv
  BY <1>4, <1>5, <1>6, <1>7 DEF CountInv
<1> QED
  BY <1>1, <1>2, <1>8 DEF TallyInv, FinishedInv

LEMMA TallyNext ==
    TypeInv /\ OwnInv /\ StepInv /\ TallyInv /\ [Next]_vars => TallyInv'
<1> SUFFICES ASSUME TypeInv, OwnInv, StepInv, TallyInv, [Next]_vars PROVE TallyInv'
  OBVIOUS
<1>0. PICK i : ResetAt(i)
  BY DEF TallyInv
<1>1. Executed \in Nat /\ Failed \in Nat
  BY <1>0, FailsFinite
<1>2. ASSUME UNCHANGED finished
      PROVE  FinishedInv' /\ (\E n : ResetAt(n))' /\ Executed' = Executed /\ Failed' = Failed
  BY <1>0, <1>2, TallyKept DEF TallyInv
<1>3. CASE gave_up'
  <2>1. CASE UNCHANGED finished
    BY <1>2, <1>3, <2>1 DEF TallyInv, CountInv
  <2>2. CASE ExecRun
    BY <1>0, <1>3, <2>2, TallyRun DEF TallyInv, CountInv
  <2> QED
    BY <2>1, <2>2, NextCases DEF DispReceive, DispReceiveLate, DispGetExecuted, DispSetExecuted,
      DispSend, DispSendLate, DispLog, DispGetResult, DispGetResultLate, DispJudge,
      DispSetFailed, ExecReceive, ExecBuildChild, ExecSkipChild, ExecSendChild,
      ExecSendResult, ClientBuild, ClientSend, ClientSendLate, vars, history
<1>4. CASE ~gave_up'
  <2>0. ~gave_up
    BY <1>4, NextCases DEF TypeInv, TypeOK, DispReceive, DispReceiveLate, DispGetExecuted,
      DispSetExecuted, DispSend, DispSendLate, DispLog, DispGetResult, DispGetResultLate,
      DispJudge, DispSetFailed, ExecReceive, ExecBuildChild, ExecSkipChild, ExecSendChild,
      ExecRun, ExecSendResult, ClientBuild, ClientSend, ClientSendLate, vars
  <2>1. /\ executed_cmds = Executed + (IF Counted THEN 1 ELSE 0)
        /\ failed_cmds + (IF FailureDue THEN 1 ELSE 0) = Failed
        /\ dpc = "set_executed" => tmp = executed_cmds
        /\ dpc = "set_failed" => tmp = failed_cmds
        /\ executed_cmds \in Nat /\ failed_cmds \in Nat
    BY <2>0 DEF TallyInv, CountInv, TypeInv, TypeOK
  <2>2. Idle /\ Busy /\ BlockingResult
    BY <2>0 DEF StepInv
  <2>3. ASSUME UNCHANGED <<finished, executed_cmds, failed_cmds, tmp>>,
               dpc' \in {"set_executed", "set_failed"} => dpc' = dpc,
               Counted' <=> Counted, FailureDue' <=> FailureDue
        PROVE  TallyInv'
    BY <1>2, <2>1, <2>3 DEF TallyInv, CountInv
  <2>4. new_cmd # NULL => kind'[new_cmd] = kind[new_cmd]
    BY KindKept
  <2>5. dpc # "receive" => new_cmd # NULL
    BY DEF TypeInv, PtrInv
  <2> USE DEF queues, disp, exec, counters, history
  <2>6. ASSUME \/ DispReceiveLate \/ ExecBuildChild \/ ExecSkipChild \/ ExecSendChild
               \/ UNCHANGED vars
               \/ \E t \in Clients : ClientBuild(t) \/ ClientSend(t)
        PROVE  TallyInv'
    <3>1. Aside
      BY <2>6, AsideCases
    <3>2. UNCHANGED <<executed_cmds, failed_cmds, tmp>>
      BY <2>6 DEF DispReceiveLate, ExecBuildChild, ExecSkipChild, ExecSendChild, vars,
                  ClientBuild, ClientSend
    <3> QED
      BY <2>3, <2>4, <2>5, <3>1, <3>2 DEF Aside, Counted, FailureDue, Pending, Dispatching
  <2>7. CASE DispReceive
    BY <2>2, <2>3, <2>7 DEF DispReceive, Idle, Counted, FailureDue, Pending, Dispatching
  <2>8. CASE DispGetExecuted
    BY <1>2, <2>1, <2>8
    DEF DispGetExecuted, TallyInv, CountInv, Counted, FailureDue
  <2>9. CASE DispSetExecuted
    <3>1. ~Counted /\ ~FailureDue /\ Counted' /\ ~FailureDue'
      BY <2>9 DEF DispSetExecuted, Counted, FailureDue
    <3>2. executed_cmds' = executed_cmds + 1 /\ failed_cmds' = failed_cmds
      BY <2>1, <2>9 DEF DispSetExecuted
    <3> QED
      BY <1>1, <1>2, <2>1, <2>9, <3>1, <3>2 DEF DispSetExecuted, TallyInv, CountInv
  <2>10. CASE DispSend
    BY <2>3, <2>10 DEF DispSend, AfterSend, Counted, FailureDue, Pending, Dispatching
  <2>11. CASE DispLog
    BY <2>3, <2>4, <2>5, <2>11 DEF DispLog, Counted, FailureDue, Pending, Dispatching
  <2>12. CASE DispGetResult
    BY <2>2, <2>3, <2>4, <2>5, <2>12
    DEF DispGetResult, Busy, Counted, FailureDue, Pending, Dispatching
  <2>13. CASE DispJudge
    <3>1. ~Pending /\ ~Pending' /\ ~Counted /\ ~Counted'
      BY <2>2, <2>13 DEF DispJudge, Idle, Counted, Pending, Dispatching
    <3>2. FailureDue <=> cmd_result # CMD_OK
      BY <2>2, <2>13, <3>1
      DEF DispJudge, BlockingResult, ResultOf, FailureDue, CMD_OK, CMD_ERROR
    <3>3. FailureDue' <=> cmd_result # CMD_OK
      BY <2>13 DEF DispJudge, FailureDue
    <3> QED
      BY <1>1, <1>2, <2>1, <2>13, <3>1, <3>2, <3>3 DEF DispJudge, TallyInv, CountInv
  <2>14. CASE DispSetFailed
    <3>1. ~Counted /\ FailureDue /\ ~Counted' /\ ~FailureDue'
      BY <2>14 DEF DispSetFailed, Counted, FailureDue
    <3>2. failed_cmds' = failed_cmds + 1 /\ executed_cmds' = executed_cmds
      BY <2>1, <2>14 DEF DispSetFailed
    <3> QED
      BY <1>1, <1>2, <2>1, <2>14, <3>1, <3>2 DEF DispSetFailed, TallyInv, CountInv
  <2>15. CASE ExecReceive
    <3>1. Pending' <=> Pending
      BY <2>15 DEF ExecReceive, Pending, Dispatching
    <3> QED
      BY <2>3, <2>4, <2>5, <2>15, <3>1 DEF ExecReceive, Counted, FailureDue
  <2>16. CASE ExecRun
    <3>1. dpc \in {"log", "get_result"} /\ run_cmd = new_cmd /\ Pending /\ ~Pending'
      BY <2>2, <2>16 DEF ExecRun, Idle, Busy, Pending, Dispatching
    <3>2. /\ Counted /\ ~Counted' /\ ~FailureDue
          /\ FailureDue' <=> kind[run_cmd] = "fail"
      BY <2>16, <3>1 DEF ExecRun, Counted, FailureDue
    <3>3. /\ executed_cmds' = IF kind[run_cmd] = "reset" THEN 0 ELSE executed_cmds
          /\ failed_cmds' = IF kind[run_cmd] = "reset" THEN 0 ELSE failed_cmds
          /\ dpc' = dpc
      BY <2>16 DEF ExecRun, ResetCounters
    <3>4. /\ FinishedInv' /\ (\E n : ResetAt(n))'
          /\ kind[run_cmd] = "reset" => Executed' = 0 /\ Failed' = 0
          /\ kind[run_cmd] # "reset" => Executed' = Executed + 1
          /\ kind[run_cmd] = "fail" => Failed' = Failed + 1
          /\ kind[run_cmd] \notin {"reset", "fail"} => Failed' = Failed
      BY <1>0, <2>16, TallyRun DEF TallyInv
    <3>5. CountInv'
      BY <1>1, <2>1, <3>1, <3>2, <3>3, <3>4 DEF CountInv
    <3> QED
      BY <3>4, <3>5 DEF TallyInv
  <2>17. CASE ExecSendResult
    <3>1. Pending' <=> Pending
      BY <2>17 DEF ExecSendResult, Pending, Dispatching
    <3> QED
      BY <2>3, <2>4, <2>5, <2>17, <3>1 DEF ExecSendResult, Counted, FailureDue
  <2>18. ~DispSendLate /\ ~DispGetResultLate /\ ~(\E t \in Clients : ClientSendLate(t))
    BY <1>4 DEF DispSendLate, DispGetResultLate, ClientSendLate
  <2> QED
    BY <2>6, <2>7, <2>8, <2>9, <2>10, <2>11, <2>12, <2>13, <2>14, <2>15, <2>16, <2>17, <2>18, NextCases
<1> QED
  BY <1>3, <1>4

--------------------------------------------------------------------------------
(* Theorems *)

LEMMA Inductive == Spec => [](TypeInv /\ OwnInv /\ StepInv /\ OrderInv)
<1>1. Init => TypeInv /\ OwnInv /\ StepInv /\ OrderInv
  BY TypeInit, OwnInit, AnswerInit
<1>2. TypeInv /\ OwnInv /\ StepInv /\ OrderInv /\ [Next]_vars
          => (TypeInv /\ OwnInv /\ StepInv /\ OrderInv)'
  BY TypeNext, OwnNext, StepNext, OrderNext
<1> QED
  BY <1>1, <1>2, PTL DEF Spec

(* Every variable of the command path keeps its type, and the three queues *)
(* their bounds, on both ports.                                            *)
THEOREM TypeCorrect == Spec => []TypeOK
<1>1. TypeInv => TypeOK
  BY DEF TypeInv
<1> QED
  BY <1>1, Inductive, PTL

(* repoCommand.c:253-263, taskExecuter.c:47-49: whatever the interleaving, *)
(* and even when waits give up, no command is in two places, and what a    *)
(* queue, the dispatcher or the executer holds has not been freed.  The    *)
(* command that the dispatcher logs is one it no longer holds.             *)
THEOREM SingleOwnerCorrect == Spec => []SingleOwner
  BY Inductive, OwnImplies, PTL

(* repoCommand.h:42: as long as no wait gave up, a command that was        *)
(* allocated and not yet freed is in a queue or in the hands of a task.    *)
THEOREM NoLeakCorrect == Spec => []NoLeak
<1>1. Init => PlacedInv
  BY DEF Init, PlacedInv
<1>2. PlacedInv => NoLeak
  BY PlacedOwned DEF PlacedInv, NoLeak
<1> QED
  BY <1>1, <1>2, PlacedNext, Inductive, PTL DEF Spec

(* repoCommand.h:36-42, taskExecuter.c:47-49: so a command that is         *)
(* allocated is in one place, once, from cmd_send to the free.             *)
THEOREM OwnedCorrect == Spec => []OwnedOnce
  BY SingleOwnerCorrect, NoLeakCorrect, PTL DEF OwnedOnce

(* taskDispatcher.c:49-53: as long as no wait gave up, at most one command *)
(* is between the dispatcher and the result of it, and exactly one while   *)
(* the dispatcher waits.                                                   *)
THEOREM LockStepCorrect == Spec => []LockStep
<1>1. StepInv => LockStep
  BY DEF StepInv, Idle, Busy, LockStep, InFlight
<1> QED
  BY <1>1, Inductive, PTL

(* taskDispatcher.c:52-59: as long as no wait gave up, the dispatcher      *)
(* judges each command by the result of that command.                      *)
THEOREM ResultCorrect == Spec => []ResultMatches
<1>1. StepInv => ResultMatches
  BY DEF StepInv, ResultMatches
<1> QED
  BY <1>1, Inductive, PTL

(* taskDispatcher.c:37-49: as long as no wait gave up, commands run in the *)
(* order in which their sends took effect, and none is skipped.            *)
THEOREM OrderCorrect == Spec => []ExecutionOrder
<1>1. TypeInv /\ OrderInv => ExecutionOrder
  BY DEF TypeInv, TypeOK, OrderInv, Ahead, ExecutionOrder
<1> QED
  BY <1>1, Inductive, PTL

(* taskDispatcher.c:46-48, 54-59: as long as no wait gave up, the counters *)
(* are those of the commands run, and failed, since the last reset,        *)
(* although they are read and written without a lock around both: a reset  *)
(* only runs while the dispatcher waits for it.                            *)
THEOREM CountersCorrect == Spec => []CountersExact
<1>1. TypeInv /\ TallyInv => CountersExact
  <2> SUFFICES ASSUME TypeInv, TallyInv, dpc = "receive", ~gave_up
               PROVE  executed_cmds = Executed /\ failed_cmds = Failed
    BY DEF CountersExact, Executed, Failed, Fails
  <2>1. Executed \in Nat /\ Failed \in Nat
    BY FailsFinite DEF TallyInv
  <2>2. ~Counted /\ ~FailureDue
    BY DEF Counted, FailureDue
  <2> QED
    BY <2>1, <2>2 DEF TypeInv, TypeOK, TallyInv, CountInv
<1> QED
  BY <1>1, TallyInit, TallyNext, Inductive, PTL DEF Spec

================================================================================
