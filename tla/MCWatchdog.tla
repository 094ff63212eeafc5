------------------------------- MODULE MCWatchdog -------------------------------
(* Instances of Watchdog for TLC: timers of a few seconds, so that both     *)
(* expire several times, and a queue of two that the task can fill.        *)
EXTENDS Watchdog
================================================================================
