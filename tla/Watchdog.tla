-------------------------------- MODULE Watchdog --------------------------------
(***************************************************************************)
(* The ground watchdog and the boot sequence.  taskWatchdog counts seconds *)
(* in the status variable dat_obc_sw_wdt and sends obc_reset when ground   *)
(* has not cleared it for SCH_MAX_GND_WDT_TIMER seconds; it also sends     *)
(* obc_reset_wdt every SCH_MAX_WDT_TIMER seconds.  drp_clear_gnd_wdt runs  *)
(* in the executer.  taskInit opens the repositories and clears the        *)
(* counter on boot, but suchai_main starts taskWatchdog before taskInit.   *)
(*                                                                         *)
(* The counter is read in one critical zone and written in another.  While *)
(* the storage is closed a read leaves its variable uninitialised.  While  *)
(* the command repository is empty a lookup hands a null name to strcmp,   *)
(* which ends the program.  A send into a full queue waits, and may give   *)
(* up: its deadline is a moment of the settable clock.                     *)
(***************************************************************************)
EXTENDS Integers, Sequences

CONSTANTS MaxGnd,      \* SCH_MAX_GND_WDT_TIMER
          MaxObc,      \* SCH_MAX_WDT_TIMER
          QueueLen,    \* SCH_CMD_QUEUE_LEN
          Persistent,  \* dat_obc_sw_wdt survives a reboot (flash, database)
          MaxCount     \* bound on the seconds counted

ASSUME WatchdogAssumption ==
    /\ MaxGnd \in Nat
    /\ MaxObc \in Nat
    /\ QueueLen \in Nat \ {0}
    /\ Persistent \in BOOLEAN
    /\ MaxCount \in Nat /\ MaxCount > MaxGnd

VARIABLES
    boot,               \* what taskInit does next
    sw_wdt,             \* status variable dat_obc_sw_wdt
    wpc,                \* what taskWatchdog does next
    elapsed_obc_timer,  \* its locals
    elapsed_sw_timer,
    due,                \* seconds that have begun and taskWatchdog not served
    queue,              \* commands sent and not executed yet
    silence,            \* history: seconds since the count was last cleared
    since_kick,         \* history: seconds begun since an obc_reset_wdt was
                        \* put into the queue
    seen                \* history: since the last boot, whether taskInit took
                        \* more than a second, whether a clear ran while
                        \* taskWatchdog counted one, and whether a send gave up

locals == <<wpc, elapsed_obc_timer, elapsed_sw_timer>>
history == <<silence, since_kick>>
vars == <<boot, sw_wdt, locals, due, queue, history, seen>>

Count == 0 .. MaxCount
MaxDue == 2   \* seconds that may wait for the task

Init ==
    /\ boot = "cmd_repo"
    /\ sw_wdt = 0
    /\ wpc = "sleep" /\ elapsed_obc_timer = 0 /\ elapsed_sw_timer = 0
    /\ due = 0
    /\ queue = <<>>
    /\ silence = 0
    /\ since_kick = 0
    /\ seen = {}

--------------------------------------------------------------------------------
(* taskInit *)

InitCmdRepo ==
    /\ boot = "cmd_repo"
    /\ boot' = "dat_repo"
    /\ UNCHANGED <<sw_wdt, locals, due, queue, history, seen>>

(* dat_repo_init: a table in RAM is reset to the defaults. *)
InitDatRepo ==
    /\ boot = "dat_repo"
    /\ boot' = "vars"
    /\ sw_wdt' = IF Persistent THEN sw_wdt ELSE 0
    /\ UNCHANGED <<locals, due, queue, history, seen>>

(* init_update_status_vars, "Reset the gnd wdt on boot". *)
InitStatusVars ==
    /\ boot = "vars"
    /\ boot' = "up"
    /\ sw_wdt' = 0
    /\ silence' = 0
    /\ UNCHANGED <<locals, due, queue, since_kick, seen>>

--------------------------------------------------------------------------------
(* taskWatchdog *)

StorageOpen == boot \in {"vars", "up"}
CommandsKnown == boot \in {"dat_repo", "vars", "up"}

(* Seeded fault: seconds that piled up are counted as one. *)
WdtReadMerged ==
    /\ wpc = "sleep"
    /\ due > 0
    /\ due' = 0
    /\ elapsed_obc_timer' = elapsed_obc_timer + 1
    /\ \E v \in IF StorageOpen THEN {sw_wdt} ELSE Count : elapsed_sw_timer' = v + 1
    /\ wpc' = "save"
    /\ UNCHANGED <<boot, sw_wdt, queue, history, seen>>

(* The second is over: count it, and read the software timer. *)
WdtRead ==
    /\ wpc = "sleep"
    /\ due > 0
    /\ due' = due - 1
    /\ elapsed_obc_timer' = elapsed_obc_timer + 1
    /\ \E v \in IF StorageOpen THEN {sw_wdt} ELSE Count : elapsed_sw_timer' = v + 1
    /\ wpc' = "save"
    /\ UNCHANGED <<boot, sw_wdt, queue, history, seen>>

WdtSave ==
    /\ wpc = "save"
    /\ sw_wdt' = IF StorageOpen THEN elapsed_sw_timer ELSE sw_wdt
    /\ wpc' = "kick"
    /\ UNCHANGED <<boot, elapsed_obc_timer, elapsed_sw_timer, due, queue, history, seen>>

(* cmd_get_str or cmd_build_from_str while the names of the repository are *)
(* null: strcmp(name, NULL), and the program ends.                         *)
Crash ==
    /\ ~CommandsKnown
    /\ boot' = "dead" /\ wpc' = "dead"
    /\ queue' = <<>>
    /\ UNCHANGED <<sw_wdt, elapsed_obc_timer, elapsed_sw_timer, due, history, seen>>

(* cmd_send of a command that was found: it waits while the queue is full. *)
SendCmd(c) ==
    /\ CommandsKnown
    /\ Len(queue) < QueueLen
    /\ queue' = Append(queue, c)
    /\ UNCHANGED seen

(* ... until its deadline has passed; the result is not looked at. *)
SendGivesUp ==
    /\ CommandsKnown
    /\ Len(queue) = QueueLen
    /\ seen' = seen \cup {"gave_up"}
    /\ UNCHANGED queue

TimeToKick == elapsed_obc_timer > MaxObc

KickNotYet ==
    /\ ~TimeToKick
    /\ UNCHANGED <<elapsed_obc_timer, queue, since_kick, seen>>

KickSent ==
    /\ TimeToKick
    /\ elapsed_obc_timer' = 0
    /\ \/ SendCmd("obc_reset_wdt") /\ since_kick' = 0
       \/ SendGivesUp /\ UNCHANGED since_kick

WdtKick ==
    /\ wpc = "kick"
    /\ \/ TimeToKick /\ Crash
       \/ /\ KickNotYet \/ KickSent
          /\ wpc' = "check"
          /\ UNCHANGED <<boot, sw_wdt, elapsed_sw_timer, due, silence>>

(* Seeded fault: the timer is compared for equality, which it may step over. *)
OverdueExactly == elapsed_sw_timer = MaxGnd

(* Seeded fault: the reset is sent a second early. *)
OverdueEarly == elapsed_sw_timer >= MaxGnd

Overdue == elapsed_sw_timer > MaxGnd

WdtCheck ==
    /\ wpc = "check"
    /\ \/ Overdue /\ Crash
       \/ /\ \/ Overdue /\ (SendCmd("obc_reset") \/ SendGivesUp)
             \/ ~Overdue /\ UNCHANGED <<queue, seen>>
          /\ wpc' = "sleep"
          /\ elapsed_sw_timer' = 0
          /\ UNCHANGED <<boot, sw_wdt, elapsed_obc_timer, due, history>>

--------------------------------------------------------------------------------
(* Ground, the executer and time *)

(* Communications receives drp_clear_gnd_wdt and sends it to execution. *)
GroundClears ==
    /\ boot = "up"
    /\ Len(queue) < QueueLen
    /\ queue' = Append(queue, "clear")
    /\ UNCHANGED <<boot, sw_wdt, locals, due, history, seen>>

(* drp_clear_gnd_wdt; a clear that changes nothing while the storage is    *)
(* closed cannot happen, ground is only heard when the system is up.       *)
ExecClear ==
    /\ queue # <<>> /\ Head(queue) = "clear"
    /\ queue' = Tail(queue)
    /\ sw_wdt' = 0
    /\ silence' = 0
    /\ seen' = IF wpc = "sleep" /\ due = 0 THEN seen ELSE seen \cup {"overlap"}
    /\ UNCHANGED <<boot, locals, due, since_kick>>

(* obc_reset_wdt touches the hardware only. *)
ExecKick ==
    /\ queue # <<>> /\ Head(queue) = "obc_reset_wdt"
    /\ queue' = Tail(queue)
    /\ UNCHANGED <<boot, sw_wdt, locals, due, history, seen>>

(* obc_reset: the system boots again, with what the storage kept. *)
ExecReset ==
    /\ queue # <<>> /\ Head(queue) = "obc_reset"
    /\ boot' = "cmd_repo"
    /\ wpc' = "sleep" /\ elapsed_obc_timer' = 0 /\ elapsed_sw_timer' = 0
    /\ due' = 0
    /\ queue' = <<>>
    /\ silence' = 0
    /\ since_kick' = 0
    /\ seen' = {}
    /\ UNCHANGED sw_wdt

(* The bounds: the counters stop at MaxCount. *)
Tick ==
    /\ boot # "dead"
    /\ due < MaxDue
    /\ silence < MaxCount /\ sw_wdt + due < MaxCount /\ elapsed_sw_timer + due < MaxCount
    /\ since_kick < MaxCount
    /\ due' = due + 1
    /\ silence' = silence + 1
    /\ since_kick' = since_kick + 1
    /\ seen' = IF boot = "up" THEN seen ELSE seen \cup {"slow_boot"}
    /\ UNCHANGED <<boot, sw_wdt, locals, queue>>

Boot == InitCmdRepo \/ InitDatRepo \/ InitStatusVars
Task == WdtRead \/ WdtSave \/ WdtKick \/ WdtCheck
Executer == ExecClear \/ ExecKick \/ ExecReset

Next == Boot \/ Task \/ Executer \/ GroundClears \/ Tick

Spec == Init /\ [][Next]_vars

(* The tasks are scheduled by priority and all sleep or wait most of the   *)
(* time; commands end.  Neither ground nor the bounded clock is obliged.   *)
FairSpec == Spec /\ WF_vars(Boot) /\ WF_vars(Task) /\ WF_vars(Executer)

--------------------------------------------------------------------------------
(* Properties *)

(* Seconds begun, and not in the counter yet. *)
Uncounted == due + (IF wpc = "save" THEN 1 ELSE 0)

(* taskWatchdog.c:40-41: once the system is up the counter never falls     *)
(* behind the silence of ground: whatever clears, boots and iterations of  *)
(* the task interleave, no second of silence goes uncounted.               *)
SilenceCounted == boot = "up" => sw_wdt + Uncounted >= silence

(* taskWatchdog.c:43-49: while the program runs, MaxObc + 1 seconds after  *)
(* the last obc_reset_wdt went into the queue the next one goes in, late   *)
(* only by the seconds the task has not served yet, unless a send gave up. *)
KickedInTime ==
    boot # "dead" /\ "gave_up" \notin seen => since_kick <= MaxObc + 1 + due

(* taskWatchdog.c:47 and 55: the task, which mainFS.c:63 starts before     *)
(* taskInit, looks a command up in the empty repository only when the boot *)
(* takes longer than a second.                                             *)
NamesInTime == boot = "dead" => "slow_boot" \in seen

(* The two timers of the task, for ground and for the hardware, beside the *)
(* boot.                                                                   *)
TimersKept == SilenceCounted /\ KickedInTime /\ NamesInTime

SendsReset == wpc = "check" /\ queue' = Append(queue, "obc_reset")

(* config.h.in:51, "Seconds to reset the OBC if the ground watchdog was    *)
(* not clear": the reset is sent only after more than MaxGnd seconds of    *)
(* silence, if the boot was prompt and no clear ran while the task counted *)
(* a second.                                                               *)
NoEarlyReset == [][SendsReset /\ seen = {} => silence > MaxGnd]_vars

(* taskInit.c:73, "Reset the gnd wdt on boot": the same, however long the  *)
(* boot takes.                                                             *)
BootClears == [][SendsReset /\ "overlap" \notin seen => silence > MaxGnd]_vars

(* taskWatchdog.c:51-57: too long a silence ends, by a clear or a reset,   *)
(* unless a send gave up.                                                  *)
SilenceEnds ==
    (boot = "up" /\ silence > MaxGnd) ~> (silence <= MaxGnd \/ "gave_up" \in seen)

================================================================================
