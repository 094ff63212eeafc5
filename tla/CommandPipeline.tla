---------------------------- MODULE CommandPipeline ----------------------------
(***************************************************************************)
(* The command path of the flight software.  Client tasks (console,        *)
(* communications, flight plan, watchdog, housekeeping...) allocate a      *)
(* command and cmd_send it to dispatcher_queue; taskDispatcher counts it   *)
(* and hands it to taskExecuter through a queue of one, waits for the      *)
(* result in another queue of one, and counts failures; taskExecuter runs  *)
(* the command, frees it and sends the result.                             *)
(*                                                                         *)
(* The queues are the bounded FIFOs that OsQueue implements.  On FreeRTOS  *)
(* portMAX_DELAY waits for ever; on Linux it is a finite deadline on       *)
(* CLOCK_REALTIME (FiniteDelay), which obc_set_time can carry past the     *)
(* deadline of every call in progress: those tasks are late, and a late    *)
(* call may return without having moved anything.  No caller looks at what *)
(* the sends return, and the dispatcher does not look at what the receive  *)
(* of the result returns.                                                  *)
(***************************************************************************)
EXTENDS Integers, Sequences, FiniteSets

CONSTANTS Clients,      \* the tasks that call cmd_send
          Cmds,         \* cmd_t allocations; the bound on how many are made
          NULL,         \* the null pointer
          QueueLen,     \* SCH_CMD_QUEUE_LEN
          Kinds,        \* the kinds of command the clients build
          NestLen,      \* commands that a "nested" command sends itself
          FiniteDelay,  \* portMAX_DELAY is a finite deadline (Linux port)
          LogDebug      \* the log level is LOG_LVL_DEBUG or above

AllKinds == {"ok", "fail", "reset", "settime", "nested"}

ASSUME PipelineAssumption ==
    /\ NULL \notin Cmds
    /\ QueueLen \in Nat \ {0}
    /\ Kinds \subseteq AllKinds
    /\ NestLen \in Nat
    /\ FiniteDelay \in BOOLEAN
    /\ LogDebug \in BOOLEAN
    /\ "dispatcher" \notin Clients

VARIABLES
    heap,                 \* heap[c]: the state of the allocation c
    kind,                 \* kind[c]: which function the command runs
    held,                 \* held[t]: the command client t builds and sends
    dispatcher_queue,     \* commands to dispatch
    executer_cmd_queue,   \* the command to run
    executer_stat_queue,  \* the result of the run
    dpc, new_cmd, cmd_result, tmp,   \* taskDispatcher: control and locals
    xpc, run_cmd, cmd_stat,          \* taskExecuter: control and locals
    child, todo,          \* the nested command being sent, and how many remain
    executed_cmds,        \* status variable dat_obc_executed_cmds
    failed_cmds,          \* status variable dat_obc_failed_cmds
    late,                 \* tasks whose queue call has passed its deadline
    accepted, finished,   \* history: commands in order of queueing, of running
    gave_up               \* history: a send, or the receive of a result, gave up

queues == <<dispatcher_queue, executer_cmd_queue, executer_stat_queue>>
disp == <<dpc, new_cmd, cmd_result, tmp>>
exec == <<xpc, run_cmd, cmd_stat, child, todo>>
counters == <<executed_cmds, failed_cmds>>
history == <<accepted, finished>>
vars == <<heap, kind, held, queues, disp, exec, counters, late, history, gave_up>>

CMD_OK == 1
CMD_ERROR == 0
Results == {CMD_OK, CMD_ERROR}
Tasks == Clients \cup {"dispatcher"}

(* cmd_result and cmd_stat are not initialised. *)
Init ==
    /\ heap = [c \in Cmds |-> "none"]
    /\ kind = [c \in Cmds |-> "ok"]
    /\ held = [t \in Clients |-> NULL]
    /\ dispatcher_queue = <<>>
    /\ executer_cmd_queue = <<>>
    /\ executer_stat_queue = <<>>
    /\ dpc = "receive" /\ new_cmd = NULL /\ cmd_result \in Results /\ tmp = 0
    /\ xpc = "receive" /\ run_cmd = NULL /\ cmd_stat = CMD_OK
    /\ child = NULL /\ todo = 0
    /\ executed_cmds = 0
    /\ failed_cmds = 0
    /\ late = {}
    /\ accepted = <<>>
    /\ finished = <<>>
    /\ gave_up = FALSE

(* cmd_get_str / cmd_get_idx / cmd_build_from_str: malloc a command. *)
Allocate(c, k) ==
    /\ heap[c] = "none"
    /\ heap' = [heap EXCEPT ![c] = "live"]
    /\ kind' = [kind EXCEPT ![c] = k]

(* Seeded fault: a free that is skipped when the command failed. *)
FreeUnlessFailed(c) ==
    heap' = IF kind[c] = "fail" THEN heap ELSE [heap EXCEPT ![c] = "freed"]

(* cmd_free *)
Free(c) == heap' = [heap EXCEPT ![c] = "freed"]

(* Seeded fault: a full queue takes one more. *)
EnqueueUnbounded(c) ==
    /\ dispatcher_queue' = Append(dispatcher_queue, c)
    /\ accepted' = Append(accepted, c)

(* Seeded fault: the command is put at the head of the queue. *)
EnqueueFront(c) ==
    /\ Len(dispatcher_queue) < QueueLen
    /\ dispatcher_queue' = <<c>> \o dispatcher_queue
    /\ accepted' = Append(accepted, c)

(* osQueueSend to dispatcher_queue takes effect. *)
Enqueue(c) ==
    /\ Len(dispatcher_queue) < QueueLen
    /\ dispatcher_queue' = Append(dispatcher_queue, c)
    /\ accepted' = Append(accepted, c)

--------------------------------------------------------------------------------
(* The client tasks *)

ClientBuild(t) ==
    /\ held[t] = NULL
    /\ \E c \in Cmds, k \in Kinds :
          /\ Allocate(c, k)
          /\ held' = [held EXCEPT ![t] = c]
    /\ UNCHANGED <<queues, disp, exec, counters, late, history, gave_up>>

(* Seeded fault: the client sends its command again. *)
ClientSendTwice(t) ==
    /\ held[t] # NULL
    /\ Enqueue(held[t])
    /\ late' = late \ {t}
    /\ UNCHANGED <<heap, kind, held, executer_cmd_queue, executer_stat_queue, disp,
                   exec, counters, finished, gave_up>>

ClientSend(t) ==
    /\ held[t] # NULL
    /\ Enqueue(held[t])
    /\ held' = [held EXCEPT ![t] = NULL]
    /\ late' = late \ {t}
    /\ UNCHANGED <<heap, kind, executer_cmd_queue, executer_stat_queue, disp,
                   exec, counters, finished, gave_up>>

(* The send gives up; the client drops its pointer all the same. *)
ClientSendLate(t) ==
    /\ held[t] # NULL
    /\ t \in late
    /\ held' = [held EXCEPT ![t] = NULL]
    /\ gave_up' = TRUE
    /\ late' = late \ {t}
    /\ UNCHANGED <<heap, kind, queues, disp, exec, counters, history>>

--------------------------------------------------------------------------------
(* taskDispatcher *)

DispReceive ==
    /\ dpc = "receive"
    /\ dispatcher_queue # <<>>
    /\ new_cmd' = Head(dispatcher_queue)
    /\ dispatcher_queue' = Tail(dispatcher_queue)
    /\ dpc' = "get_executed"
    /\ late' = late \ {"dispatcher"}
    /\ UNCHANGED <<heap, kind, held, executer_cmd_queue, executer_stat_queue,
                   cmd_result, tmp, exec, counters, history, gave_up>>

(* status # pdPASS: the loop tries again, with a new deadline. *)
DispReceiveLate ==
    /\ dpc = "receive"
    /\ "dispatcher" \in late
    /\ late' = late \ {"dispatcher"}
    /\ UNCHANGED <<heap, kind, held, queues, disp, exec, counters, history, gave_up>>

DispGetExecuted ==
    /\ dpc = "get_executed"
    /\ tmp' = executed_cmds
    /\ dpc' = "set_executed"
    /\ UNCHANGED <<heap, kind, held, queues, new_cmd, cmd_result, exec,
                   counters, late, history, gave_up>>

DispSetExecuted ==
    /\ dpc = "set_executed"
    /\ executed_cmds' = tmp + 1
    /\ dpc' = "send"
    /\ UNCHANGED <<heap, kind, held, queues, new_cmd, cmd_result, tmp, exec,
                   failed_cmds, late, history, gave_up>>

AfterSend == IF LogDebug THEN "log" ELSE "get_result"

DispSend ==
    /\ dpc = "send"
    /\ executer_cmd_queue = <<>>
    /\ executer_cmd_queue' = <<new_cmd>>
    /\ dpc' = AfterSend
    /\ late' = late \ {"dispatcher"}
    /\ UNCHANGED <<heap, kind, held, dispatcher_queue, executer_stat_queue,
                   new_cmd, cmd_result, tmp, exec, counters, history, gave_up>>

DispSendLate ==
    /\ dpc = "send"
    /\ "dispatcher" \in late
    /\ dpc' = AfterSend
    /\ gave_up' = TRUE
    /\ late' = late \ {"dispatcher"}
    /\ UNCHANGED <<heap, kind, held, queues, new_cmd, cmd_result, tmp, exec,
                   counters, history>>

(* LOGD(..., new_cmd->id, ...): reads the command that was handed over. *)
DispLog ==
    /\ dpc = "log"
    /\ dpc' = "get_result"
    /\ UNCHANGED <<heap, kind, held, queues, new_cmd, cmd_result, tmp, exec,
                   counters, late, history, gave_up>>

(* Seeded fault: the receive of the result does not wait. *)
DispGetResultPoll ==
    /\ dpc = "get_result"
    /\ cmd_result' = IF executer_stat_queue = <<>> THEN cmd_result ELSE Head(executer_stat_queue)
    /\ executer_stat_queue' = <<>>
    /\ dpc' = "judge"
    /\ late' = late \ {"dispatcher"}
    /\ UNCHANGED <<heap, kind, held, dispatcher_queue, executer_cmd_queue,
                   new_cmd, tmp, exec, counters, history, gave_up>>

DispGetResult ==
    /\ dpc = "get_result"
    /\ executer_stat_queue # <<>>
    /\ cmd_result' = Head(executer_stat_queue)
    /\ executer_stat_queue' = Tail(executer_stat_queue)
    /\ dpc' = "judge"
    /\ late' = late \ {"dispatcher"}
    /\ UNCHANGED <<heap, kind, held, dispatcher_queue, executer_cmd_queue,
                   new_cmd, tmp, exec, counters, history, gave_up>>

(* The receive gives up: cmd_result keeps the value of an earlier turn. *)
DispGetResultLate ==
    /\ dpc = "get_result"
    /\ "dispatcher" \in late
    /\ dpc' = "judge"
    /\ gave_up' = TRUE
    /\ late' = late \ {"dispatcher"}
    /\ UNCHANGED <<heap, kind, held, queues, new_cmd, cmd_result, tmp, exec,
                   counters, history>>

(* Seeded fault: the count of failures is not read before it is written. *)
DispJudgeStale ==
    /\ dpc = "judge"
    /\ dpc' = IF cmd_result = CMD_OK THEN "receive" ELSE "set_failed"
    /\ UNCHANGED <<heap, kind, held, queues, new_cmd, cmd_result, tmp, exec,
                   counters, late, history, gave_up>>

(* cmd_result != CMD_OK: read the count of failures. *)
DispJudge ==
    /\ dpc = "judge"
    /\ \/ /\ cmd_result = CMD_OK
          /\ dpc' = "receive"
          /\ UNCHANGED tmp
       \/ /\ cmd_result # CMD_OK
          /\ dpc' = "set_failed"
          /\ tmp' = failed_cmds
    /\ UNCHANGED <<heap, kind, held, queues, new_cmd, cmd_result, exec,
                   counters, late, history, gave_up>>

DispSetFailed ==
    /\ dpc = "set_failed"
    /\ failed_cmds' = tmp + 1
    /\ dpc' = "receive"
    /\ UNCHANGED <<heap, kind, held, queues, new_cmd, cmd_result, tmp, exec,
                   executed_cmds, late, history, gave_up>>

--------------------------------------------------------------------------------
(* taskExecuter *)

ExecReceive ==
    /\ xpc = "receive"
    /\ executer_cmd_queue # <<>>
    /\ run_cmd' = Head(executer_cmd_queue)
    /\ executer_cmd_queue' = Tail(executer_cmd_queue)
    /\ todo' = IF kind[run_cmd'] = "nested" THEN NestLen ELSE 0
    /\ xpc' = "run"
    /\ UNCHANGED <<heap, kind, held, dispatcher_queue, executer_stat_queue,
                   disp, cmd_stat, child, counters, late, history, gave_up>>

(* adcs_mag_moment builds commands and sends them from inside the executer. *)
ExecBuildChild ==
    /\ xpc = "run"
    /\ todo > 0
    /\ child = NULL
    /\ \E c \in Cmds : Allocate(c, "ok") /\ child' = c
    /\ UNCHANGED <<held, queues, disp, xpc, run_cmd, cmd_stat, todo, counters,
                   late, history, gave_up>>

(* A command of that name is not registered: cmd_send(NULL) does nothing. *)
ExecSkipChild ==
    /\ xpc = "run"
    /\ todo > 0
    /\ child = NULL
    /\ todo' = todo - 1
    /\ UNCHANGED <<heap, kind, held, queues, disp, xpc, run_cmd, cmd_stat,
                   child, counters, late, history, gave_up>>

ExecSendChild ==
    /\ xpc = "run"
    /\ child # NULL
    /\ Enqueue(child)
    /\ child' = NULL
    /\ todo' = todo - 1
    /\ UNCHANGED <<heap, kind, held, executer_cmd_queue, executer_stat_queue,
                   disp, xpc, run_cmd, cmd_stat, counters, late, finished, gave_up>>

(* The tasks that may be inside a queue call, with its deadline computed.  *)
(* The executer is not: it is the one that runs the command.               *)
Calling ==
    {t \in Clients : held[t] # NULL}
        \cup (IF dpc \in {"receive", "send", "get_result"} THEN {"dispatcher"} ELSE {})

(* drp_reset_status writes every status variable. *)
ResetCounters(k) ==
    /\ executed_cmds' = IF k = "reset" THEN 0 ELSE executed_cmds
    /\ failed_cmds' = IF k = "reset" THEN 0 ELSE failed_cmds

(* obc_set_time moves the clock past the deadlines of calls in progress. *)
SetTime(k) ==
    IF k = "settime" /\ FiniteDelay
    THEN \E S \in SUBSET Calling : late' = late \cup S
    ELSE UNCHANGED late

(* What the function of a command returns. *)
ResultOf(c) == IF kind[c] = "fail" THEN CMD_ERROR ELSE CMD_OK

(* The function returns; its command is freed and its result kept. *)
ExecRun ==
    /\ xpc = "run"
    /\ todo = 0
    /\ ResetCounters(kind[run_cmd])
    /\ SetTime(kind[run_cmd])
    /\ cmd_stat' = ResultOf(run_cmd)
    /\ finished' = Append(finished, run_cmd)
    /\ Free(run_cmd)
    /\ run_cmd' = NULL
    /\ xpc' = "send_result"
    /\ UNCHANGED <<kind, held, queues, disp, child, todo, accepted, gave_up>>

(* Seeded fault: only a success is reported. *)
ExecSendOnlyOk ==
    /\ xpc = "send_result"
    /\ executer_stat_queue = <<>>
    /\ executer_stat_queue' = IF cmd_stat = CMD_OK THEN <<cmd_stat>> ELSE <<>>
    /\ xpc' = "receive"
    /\ UNCHANGED <<heap, kind, held, dispatcher_queue, executer_cmd_queue,
                   disp, run_cmd, cmd_stat, child, todo, counters, late, history, gave_up>>

ExecSendResult ==
    /\ xpc = "send_result"
    /\ executer_stat_queue = <<>>
    /\ executer_stat_queue' = <<cmd_stat>>
    /\ xpc' = "receive"
    /\ UNCHANGED <<heap, kind, held, dispatcher_queue, executer_cmd_queue,
                   disp, run_cmd, cmd_stat, child, todo, counters, late, history, gave_up>>

--------------------------------------------------------------------------------

Dispatcher ==
    \/ DispReceive \/ DispReceiveLate \/ DispGetExecuted \/ DispSetExecuted
    \/ DispSend \/ DispSendLate \/ DispLog \/ DispGetResult
    \/ DispGetResultLate \/ DispJudge \/ DispSetFailed

Executer ==
    \/ ExecReceive \/ ExecBuildChild \/ ExecSkipChild \/ ExecSendChild
    \/ ExecRun \/ ExecSendResult

Client(t) == ClientBuild(t) \/ ClientSend(t) \/ ClientSendLate(t)

Next == Dispatcher \/ Executer \/ \E t \in Clients : Client(t)

Spec == Init /\ [][Next]_vars

(* The tasks are threads of a preemptive scheduler, all of them blocked on *)
(* a queue or a delay most of the time: a task that can run does.  Clients *)
(* are not obliged to build commands.                                      *)
FairSpec ==
    /\ Spec
    /\ WF_vars(Dispatcher)
    /\ WF_vars(Executer)
    /\ \A t \in Clients : WF_vars(ClientSend(t) \/ ClientSendLate(t))

--------------------------------------------------------------------------------
(* Properties *)

DispSteps == {"receive", "get_executed", "set_executed", "send", "log",
              "get_result", "judge", "set_failed"}
ExecSteps == {"receive", "run", "send_result"}

TypeOK ==
    /\ heap \in [Cmds -> {"none", "live", "freed"}]
    /\ kind \in [Cmds -> AllKinds]
    /\ held \in [Clients -> Cmds \cup {NULL}]
    /\ dispatcher_queue \in Seq(Cmds)
    /\ Len(dispatcher_queue) <= QueueLen
    /\ executer_cmd_queue \in Seq(Cmds)
    /\ Len(executer_cmd_queue) <= 1
    /\ executer_stat_queue \in Seq(Results)
    /\ Len(executer_stat_queue) <= 1
    /\ dpc \in DispSteps
    /\ new_cmd \in Cmds \cup {NULL}
    /\ cmd_result \in Results
    /\ tmp \in Nat
    /\ xpc \in ExecSteps
    /\ run_cmd \in Cmds \cup {NULL}
    /\ cmd_stat \in Results
    /\ child \in Cmds \cup {NULL}
    /\ todo \in Nat
    /\ executed_cmds \in Nat
    /\ failed_cmds \in Nat
    /\ late \in SUBSET Tasks
    /\ accepted \in Seq(Cmds)
    /\ finished \in Seq(Cmds)
    /\ gave_up \in BOOLEAN

(* The steps in which the dispatcher has a command to hand on. *)
Dispatching == {"get_executed", "set_executed", "send"}

(* The places that may still use, hand on or free the command c. *)
Owners(c) ==
    {<<"client", t>> : t \in {u \in Clients : held[u] = c}}
        \cup {<<"queued", i>> : i \in {j \in 1 .. Len(dispatcher_queue) : dispatcher_queue[j] = c}}
        \cup {<<"staged", i>> : i \in {j \in 1 .. Len(executer_cmd_queue) : executer_cmd_queue[j] = c}}
        \cup (IF new_cmd = c /\ dpc \in Dispatching THEN {<<"dispatcher", 0>>} ELSE {})
        \cup (IF run_cmd = c THEN {<<"executer", 0>>} ELSE {})
        \cup (IF child = c THEN {<<"child", 0>>} ELSE {})

(* repoCommand.c:253-263, taskExecuter.c:47-49: the executer frees what it *)
(* ran.  No command is in two places at once, and what a task or a queue   *)
(* holds has not been freed, so nothing is freed twice and nothing runs    *)
(* after it was freed.                                                     *)
SingleOwner ==
    \A c \in Cmds :
        /\ Owners(c) # {} => heap[c] = "live"
        /\ \A p, q \in Owners(c) : p = q

(* repoCommand.h:42: a command that was allocated is always on its way to  *)
(* the executer, which frees it: none is lost between two tasks, unless a  *)
(* send gave up.                                                           *)
NoLeak == gave_up \/ \A c \in Cmds : heap[c] = "live" => Owners(c) # {}

(* Both: a command that is allocated has exactly one owner.                *)
OwnedOnce == SingleOwner /\ NoLeak

(* taskDispatcher.c:49-53: the dispatcher and the executer run in lock     *)
(* step: a command is staged, running or answered only while the           *)
(* dispatcher waits for that answer, and one at a time; as long as no wait *)
(* for it gave up.                                                         *)
InFlight ==
    (IF executer_cmd_queue # <<>> THEN 1 ELSE 0)
        + (IF xpc # "receive" THEN 1 ELSE 0)
        + (IF executer_stat_queue # <<>> THEN 1 ELSE 0)

LockStep == gave_up \/ InFlight = (IF dpc \in {"log", "get_result"} THEN 1 ELSE 0)

(* taskDispatcher.c:52, "Get the result from Executer Stat Queue -         *)
(* BLOCKING": the result that decides whether a failure is counted is the  *)
(* result of the command that was just dispatched.                         *)
BlockingResult ==
    dpc = "judge" =>
        /\ finished # <<>>
        /\ finished[Len(finished)] = new_cmd
        /\ cmd_result = ResultOf(new_cmd)

(* taskDispatcher.c:52-59: the same, as long as no wait gave up.           *)
ResultMatches == gave_up \/ BlockingResult

(* The last command that reset the status variables, 0 if there is none. *)
LastReset ==
    CHOOSE i \in 0 .. Len(finished) :
        /\ i > 0 => kind[finished[i]] = "reset"
        /\ \A j \in i + 1 .. Len(finished) : kind[finished[j]] # "reset"

(* taskDispatcher.c:46-48, 54-59: the counters are read, then written,     *)
(* without a lock around both.  Whenever the dispatcher is back at its     *)
(* loop, they count exactly the commands run and the commands failed since *)
(* the status variables were last reset, as long as no wait gave up.       *)
CountersExact ==
    dpc = "receive" /\ ~gave_up =>
        /\ executed_cmds = Len(finished) - LastReset
        /\ failed_cmds = Cardinality({i \in LastReset + 1 .. Len(finished) :
                                          kind[finished[i]] = "fail"})

(* Commands run in the order in which their sends took effect, whichever   *)
(* tasks sent them, and none is skipped unless a hand-over gave up.        *)
ExecutionOrder ==
    gave_up \/ /\ Len(finished) <= Len(accepted)
               /\ \A i \in 1 .. Len(finished) : finished[i] = accepted[i]

Queued(c) == \E i \in 1 .. Len(accepted) : accepted[i] = c

(* repoCommand.h:37, "Send command to execution": a command that was       *)
(* queued is executed.                                                     *)
SentIsExecuted == \A c \in Cmds : Queued(c) ~> heap[c] = "freed"

(* A command that sends commands found the queue full (repoCommand.h:38,   *)
(* "Blocks if the queue is full").                                         *)
SendingIntoFull == child # NULL /\ Len(dispatcher_queue) = QueueLen

(* The same, unless a hand-over gave up or a command that sends commands   *)
(* found the queue full.                                                   *)
EventuallyExecuted ==
    \A c \in Cmds : Queued(c) ~> (heap[c] = "freed" \/ gave_up \/ SendingIntoFull)

================================================================================
