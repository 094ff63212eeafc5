----------------------------- MODULE WatchdogProofs -----------------------------
(***************************************************************************)
(* Proofs about Watchdog: for any limits of the two timers, any length of  *)
(* the queue, and a counter that survives a reboot or does not.            *)
(***************************************************************************)
EXTENDS Watchdog, TLAPS

Commands == {"clear", "obc_reset_wdt", "obc_reset"}

(* The types of the variables.  How far the counters go is a bound of the  *)
(* model and not needed.                                                   *)
TypeInv ==
    /\ boot \in {"cmd_repo", "dat_repo", "vars", "up", "dead"}
    /\ wpc \in {"sleep", "save", "kick", "check", "dead"}
    /\ sw_wdt \in Nat /\ due \in Nat /\ silence \in Nat /\ since_kick \in Nat
    /\ elapsed_obc_timer \in Nat /\ elapsed_sw_timer \in Nat
    /\ queue \in Seq(Commands)
    /\ seen \subseteq {"slow_boot", "overlap", "gave_up"}

(* What taskWatchdog is about to save covers the silence, too.             *)
SaveCovers == wpc = "save" /\ boot = "up" => elapsed_sw_timer + due >= silence

(* Its other timer has counted the seconds since the last kick, or will,   *)
(* and is below the limit again whenever the task has looked at it.        *)
KickTimer ==
    /\ boot # "dead" /\ "gave_up" \notin seen => since_kick <= elapsed_obc_timer + due
    /\ elapsed_obc_timer <= MaxObc + 1
    /\ wpc \in {"sleep", "check"} => elapsed_obc_timer <= MaxObc

(* The task has nothing to do before the boot is over, unless that took    *)
(* more than a second.                                                     *)
BootFirst ==
    boot # "up" /\ (boot = "dead" \/ due > 0 \/ wpc # "sleep") => "slow_boot" \in seen

(* As long as the boot was prompt and no clear ran while a second was      *)
(* counted, nothing is counted that was not silence.                       *)
NotAhead ==
    seen = {} =>
        /\ boot # "up" => due = 0 /\ wpc = "sleep"
        /\ boot = "up" => sw_wdt + Uncounted <= silence
        /\ boot = "up" /\ wpc # "sleep" => elapsed_sw_timer + due <= silence

IInv == TypeInv /\ SilenceCounted /\ SaveCovers /\ KickTimer /\ BootFirst /\ NotAhead

(* What sending a command, or failing to, leaves behind. *)
LEMMA SendTyped ==
    ASSUME TypeInv, NEW c \in Commands, SendCmd(c) \/ SendGivesUp
    PROVE  queue' \in Seq(Commands) /\ seen' \subseteq {"slow_boot", "overlap", "gave_up"}
  <1>1. CASE SendCmd(c)
    BY <1>1 DEF TypeInv, SendCmd
  <1>2. CASE SendGivesUp
    BY <1>2 DEF TypeInv, SendGivesUp
  <1> QED
    BY <1>1, <1>2

LEMMA CrashTyped ==
    ASSUME TypeInv, Crash
    PROVE  TypeInv'
  BY DEF TypeInv, Crash, history

LEMMA InitInv == Init => IInv
  BY WatchdogAssumption DEF Init, IInv, TypeInv, SilenceCounted, SaveCovers, KickTimer,
     BootFirst, NotAhead, Uncounted

LEMMA TypeStep ==
    ASSUME TypeInv, [Next]_vars
    PROVE  TypeInv'
  <1> USE WatchdogAssumption
  <1>1. CASE Boot
    <2>1. CASE InitCmdRepo
      BY <2>1 DEF TypeInv, InitCmdRepo, locals, history
    <2>2. CASE InitDatRepo
      BY <2>2 DEF TypeInv, InitDatRepo, locals, history
    <2>3. CASE InitStatusVars
      BY <2>3 DEF TypeInv, InitStatusVars, locals
    <2> QED
      BY <1>1, <2>1, <2>2, <2>3 DEF Boot
  <1>2. CASE WdtRead
    BY <1>2 DEF TypeInv, WdtRead, Count, history
  <1>3. CASE WdtSave
    BY <1>3 DEF TypeInv, WdtSave, history
  <1>4. CASE WdtKick
    <2>1. CASE TimeToKick /\ Crash
      BY <2>1, CrashTyped
    <2>2. CASE KickNotYet /\ wpc' = "check" /\ ~Crash
      BY <1>4, <2>2 DEF TypeInv, WdtKick, KickNotYet
    <2>3. CASE KickSent /\ wpc' = "check" /\ ~Crash
      <3>1. SendCmd("obc_reset_wdt") \/ SendGivesUp
        BY <2>3 DEF KickSent
      <3>2. queue' \in Seq(Commands) /\ seen' \subseteq {"slow_boot", "overlap", "gave_up"}
        BY <3>1, SendTyped DEF Commands
      <3> QED
        BY <1>4, <2>3, <3>2 DEF TypeInv, WdtKick, KickSent
    <2> QED
      BY <1>4, <2>1, <2>2, <2>3, CrashTyped DEF WdtKick
  <1>5. CASE WdtCheck
    <2>1. CASE Crash
      BY <2>1, CrashTyped
    <2>2. CASE ~Crash
      <3>1. queue' \in Seq(Commands) /\ seen' \subseteq {"slow_boot", "overlap", "gave_up"}
        <4>1. CASE Overdue
          BY <1>5, <2>2, <4>1, SendTyped DEF WdtCheck, Commands
        <4>2. CASE ~Overdue
          BY <1>5, <2>2, <4>2 DEF WdtCheck, TypeInv
        <4> QED
          BY <4>1, <4>2
      <3> QED
        BY <1>5, <2>2, <3>1 DEF TypeInv, WdtCheck, history
    <2> QED
      BY <2>1, <2>2
  <1>6. CASE Executer
    <2>1. queue # <<>> => Tail(queue) \in Seq(Commands)
      BY DEF TypeInv
    <2>2. CASE ExecClear
      BY <2>1, <2>2 DEF TypeInv, ExecClear, locals
    <2>3. CASE ExecKick
      BY <2>1, <2>3 DEF TypeInv, ExecKick, locals, history
    <2>4. CASE ExecReset
      BY <2>4 DEF TypeInv, ExecReset
    <2> QED
      BY <1>6, <2>2, <2>3, <2>4 DEF Executer
  <1>7. CASE GroundClears
    BY <1>7 DEF TypeInv, GroundClears, Commands, locals, history
  <1>8. CASE Tick
    BY <1>8 DEF TypeInv, Tick, locals
  <1>9. CASE UNCHANGED vars
    BY <1>9 DEF TypeInv, vars, locals, history
  <1> QED
    BY <1>1, <1>2, <1>3, <1>4, <1>5, <1>6, <1>7, <1>8, <1>9 DEF Next, Task

LEMMA TimerStep ==
    ASSUME IInv, [Next]_vars
    PROVE  SilenceCounted' /\ SaveCovers' /\ KickTimer' /\ BootFirst' /\ NotAhead'
  <1> USE WatchdogAssumption DEF IInv, TypeInv, SilenceCounted, SaveCovers, KickTimer,
          BootFirst, NotAhead, Uncounted
  <1>1. CASE InitCmdRepo \/ InitDatRepo
    BY <1>1 DEF InitCmdRepo, InitDatRepo, locals, history
  <1>2. CASE InitStatusVars
    BY <1>2 DEF InitStatusVars, locals
  <1>3. CASE WdtRead
    <2>1. CASE boot = "up"
      <3>1. elapsed_sw_timer' = sw_wdt + 1
        BY <1>3, <2>1 DEF WdtRead, StorageOpen
      <3> QED
        BY <1>3, <2>1, <3>1 DEF WdtRead, history
    <2>2. CASE boot # "up"
      BY <1>3, <2>2 DEF WdtRead, history
    <2> QED
      BY <2>1, <2>2
  <1>4. CASE WdtSave
    BY <1>4 DEF WdtSave, StorageOpen, history
  <1>5. CASE WdtKick
    BY <1>5 DEF WdtKick, KickNotYet, KickSent, SendCmd, SendGivesUp, Crash, CommandsKnown,
       TimeToKick, history
  <1>6. CASE WdtCheck
    BY <1>6 DEF WdtCheck, SendCmd, SendGivesUp, Crash, CommandsKnown, history
  <1>7. CASE ExecClear
    BY <1>7 DEF ExecClear, locals
  <1>8. CASE ExecKick
    BY <1>8 DEF ExecKick, locals, history
  <1>9. CASE ExecReset
    BY <1>9 DEF ExecReset
  <1>10. CASE GroundClears
    BY <1>10 DEF GroundClears, locals, history
  <1>11. CASE Tick
    BY <1>11 DEF Tick, locals
  <1>12. CASE UNCHANGED vars
    BY <1>12 DEF vars, locals, history
  <1> QED
    BY <1>1, <1>2, <1>3, <1>4, <1>5, <1>6, <1>7, <1>8, <1>9, <1>10, <1>11, <1>12
    DEF Next, Boot, Task, Executer

LEMMA NextInv == IInv /\ [Next]_vars => IInv'
  BY TypeStep, TimerStep DEF IInv

LEMMA Invariant == Spec => []IInv
  BY InitInv, NextInv, PTL DEF Spec

(* taskWatchdog.c:40-49: no second of silence goes uncounted while clears  *)
(* and boots interleave with the task, a kick of the hardware watchdog is  *)
(* late only by the seconds not served or after a send gave up, and no     *)
(* command is looked up in the empty repository after a prompt boot; for   *)
(* any limits.                                                             *)
THEOREM TimersCorrect == Spec => []TimersKept
  <1>1. IInv => TimersKept
    BY WatchdogAssumption
    DEF IInv, TypeInv, KickTimer, BootFirst, TimersKept, KickedInTime, NamesInTime
  <1> QED
    BY <1>1, Invariant, PTL

(* A command other than the check of taskWatchdog never leaves one more    *)
(* obc_reset in the queue.                                                 *)
LEMMA OnlyCheckResets ==
    ASSUME IInv, [Next]_vars, SendsReset
    PROVE  WdtCheck /\ Overdue
  <1> USE DEF IInv, TypeInv
  <1>1. queue' # queue /\ Len(queue') = Len(queue) + 1 /\ queue'[Len(queue')] = "obc_reset"
    BY DEF SendsReset, Commands
  <1>2. ~Boot /\ ~Tick /\ ~UNCHANGED vars
    BY <1>1 DEF Boot, InitCmdRepo, InitDatRepo, InitStatusVars, Tick, vars
  <1>3. ~WdtRead /\ ~WdtSave /\ ~WdtKick /\ ~Crash
    BY <1>1 DEF WdtRead, WdtSave, WdtKick, Crash, SendsReset
  <1>4. ~Executer
    <2>1. queue # <<>> => Len(Tail(queue)) < Len(queue)
      OBVIOUS
    <2> QED
      BY <1>1, <2>1 DEF Executer, ExecClear, ExecKick, ExecReset
  <1>5. ~GroundClears
    <2>1. Append(queue, "clear")[Len(queue) + 1] = "clear"
      OBVIOUS
    <2> QED
      BY <1>1, <2>1 DEF GroundClears
  <1>6. WdtCheck
    BY <1>2, <1>3, <1>4, <1>5 DEF Next, Task
  <1>7. Overdue
    BY <1>1, <1>3, <1>6 DEF WdtCheck
  <1> QED
    BY <1>6, <1>7

(* config.h.in:51: obc_reset is sent only after more than MaxGnd seconds   *)
(* of silence, when the boot was prompt and no clear ran while the task    *)
(* counted a second.                                                       *)
THEOREM ResetCorrect == Spec => NoEarlyReset
  <1>1. ASSUME IInv, [Next]_vars, SendsReset, seen = {}
        PROVE  silence > MaxGnd
    <2>1. WdtCheck /\ Overdue
      BY <1>1, OnlyCheckResets
    <2>2. elapsed_sw_timer + due <= silence
      BY <1>1, <2>1 DEF IInv, NotAhead, WdtCheck
    <2> QED
      BY <1>1, <2>1, <2>2, WatchdogAssumption DEF IInv, TypeInv, Overdue
  <1>2. IInv /\ [Next]_vars => [SendsReset /\ seen = {} => silence > MaxGnd]_vars
    BY <1>1
  <1> QED
    BY <1>2, Invariant, PTL DEF Spec, NoEarlyReset

================================================================================
