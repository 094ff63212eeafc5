------------------------------ MODULE CommandRepo ------------------------------
(***************************************************************************)
(* The command repository (repoCommand.c) at boot, in use and at exit.     *)
(* taskInit registers the commands of the framework, fills the array with  *)
(* "null", creates the client tasks and only then registers the commands   *)
(* of the application; a client looks a name up entry by entry, each one   *)
(* under repo_cmd_sem, and copies the entry in a later critical section.   *)
(* The watchdog task was created before taskInit and may look its commands *)
(* up all the while.  obc_exit frees the entries without the semaphore.    *)
(***************************************************************************)
EXTENDS Integers, Sequences, SequencesExt

CONSTANTS MaxEntries,   \* SCH_CMD_MAX_ENTRIES
          Clients,      \* tasks that look commands up, "console" and "watchdog" among them
          MaxLookups    \* bound on the lookups of a client

ASSUME CommandRepoAssumption ==
    /\ MaxEntries \in Nat \ {0} /\ MaxLookups \in Nat /\ Clients \subseteq STRING

VARIABLES
    cmd_list,    \* names; the other fields go with the name
    cmd_index,   \* entries registered
    boot,        \* where taskInit is: a stage and how far it has come; or "crashed"
    client,      \* where each client is in cmd_get_str, and its results
    execq,       \* commands on the way to the executer
    closing      \* obc_exit: entries freed, -1 before it began

repoVars == <<cmd_list, cmd_index, boot, client, execq, closing>>

Entries == 0 .. MaxEntries - 1

(* The lists of commands, a name or two of each; what the other lists of   *)
(* cmd_repo_init add comes between them in the same way.                   *)
cmd_obc_init == <<"obc_exit", "obc_reset_wdt">>
cmd_com_init == <<"com_send_cmd">>
cmd_app_init == <<"obc_get_sensors", "obc_update_status">>

Core == cmd_obc_init \o cmd_com_init

(* `freed' is a history: the lookup has read an entry that was freed. *)
Waiting(lookups) ==
    [pc |-> "wait", name |-> "", i |-> 0, before |-> {}, got |-> "", lookups |-> lookups, freed |-> FALSE]

(* Before cmd_repo_init the names are null pointers. *)
RepoInit ==
    /\ cmd_list = [i \in Entries |-> "unset"] /\ cmd_index = 0
    /\ boot = <<"core", 1>> /\ execq = <<>> /\ closing = -1
    /\ client = [c \in Clients |-> Waiting(0)]

Alive == boot[1] # "crashed" /\ closing < MaxEntries

--------------------------------------------------------------------------------
(* taskInit *)

(* Seeded fault: a new command takes the first place, as if sorted in. *)
cmd_add_first(name) ==
    IF cmd_index < MaxEntries
    THEN /\ cmd_list' = [i \in Entries |->
                IF i = 0 THEN name ELSE IF i <= cmd_index THEN cmd_list[i - 1] ELSE cmd_list[i]]
         /\ cmd_index' = cmd_index + 1
    ELSE UNCHANGED <<cmd_list, cmd_index>>

(* A command beyond the last entry is refused, with a warning. *)
cmd_add(name) ==
    IF cmd_index < MaxEntries
    THEN /\ cmd_list' = [cmd_list EXCEPT ![cmd_index] = name]
         /\ cmd_index' = cmd_index + 1
    ELSE UNCHANGED <<cmd_list, cmd_index>>

RegisterCore ==
    /\ boot[1] = "core" /\ Alive
    /\ IF boot[2] <= Len(Core)
       THEN cmd_add(Core[boot[2]]) /\ boot' = <<"core", boot[2] + 1>>
       ELSE boot' = <<"null", cmd_index>> /\ UNCHANGED <<cmd_list, cmd_index>>
    /\ UNCHANGED <<client, execq, closing>>

(* Seeded fault: the loop goes on after the last entry. *)
FillNullForever ==
    /\ boot[1] = "null"
    /\ cmd_add("null")
    /\ boot' = boot
    /\ UNCHANGED <<client, execq, closing>>

(* The do-while: cmd_add returns the number of entries, or -1 when the     *)
(* array was full already, and the loop goes on while that is less than    *)
(* MaxEntries.  The number of the framework's commands is kept.            *)
FillNull ==
    /\ boot[1] = "null" /\ Alive
    /\ cmd_add("null")
    /\ LET n_cmd == IF cmd_index < MaxEntries THEN cmd_index + 1 ELSE -1
       IN boot' = IF n_cmd < MaxEntries THEN boot ELSE <<"restore", boot[2]>>
    /\ UNCHANGED <<client, execq, closing>>

(* cmd_index is restored; the data repository, the purge of the flight     *)
(* plan and CSP follow, then the client tasks.                             *)
init_create_task ==
    /\ boot[1] = "restore" /\ Alive
    /\ cmd_index' = boot[2] /\ boot' = <<"app", 1>>
    /\ UNCHANGED <<cmd_list, client, execq, closing>>

(* initAppHook, while the clients run. *)
initAppHook ==
    /\ boot[1] = "app" /\ Alive
    /\ IF boot[2] <= Len(cmd_app_init)
       THEN cmd_add(cmd_app_init[boot[2]]) /\ boot' = <<"app", boot[2] + 1>>
       ELSE boot' = <<"done", 0>> /\ UNCHANGED <<cmd_list, cmd_index>>
    /\ UNCHANGED <<client, execq, closing>>

Boot == RegisterCore \/ FillNull \/ init_create_task \/ initAppHook

--------------------------------------------------------------------------------
(* The clients *)

(* A line of the console: "/exit" is obc_exit, "<node>: ..." goes out with *)
(* com_send_cmd; an empty line is no command.                              *)
console_read(line) ==
    CASE line = "/exit" -> "obc_exit"
      [] line = "1: help" -> "com_send_cmd"
      [] OTHER -> line

Registered == {cmd_list[i] : i \in 0 .. cmd_index - 1}

(* cmd_build_from_str: the first word is looked up.  The watchdog runs     *)
(* from the start, the other clients once they are created.                *)
cmd_build_from_str(c, name) ==
    /\ Alive /\ (c = "watchdog" \/ boot[1] \in {"app", "done"})
    /\ client[c].pc = "wait" /\ client[c].lookups < MaxLookups
    /\ client' = [client EXCEPT ![c] =
            [pc |-> IF name = "" THEN "wait" ELSE "compare", name |-> name, i |-> 0,
             before |-> Registered, got |-> "", lookups |-> @.lookups + 1, freed |-> FALSE]]
    /\ UNCHANGED <<cmd_list, cmd_index, boot, execq, closing>>

taskWatchdog == "watchdog" \in Clients /\ cmd_build_from_str("watchdog", "obc_reset_wdt")

taskConsole(line) == "console" \in Clients /\ cmd_build_from_str("console", console_read(line))

(* strcmp on a name that is still a null pointer. *)
CompareNull(c) ==
    /\ Alive /\ client[c].pc = "compare" /\ cmd_list[client[c].i] = "unset"
    /\ boot' = <<"crashed", 0>>
    /\ UNCHANGED <<cmd_list, cmd_index, client, execq, closing>>

(* One entry compared; a name that was freed may read as anything. *)
cmd_get_str(c, equal) ==
    LET k == client[c]
        f == k.freed \/ cmd_list[k.i] = "freed"
    IN /\ Alive /\ k.pc = "compare" /\ cmd_list[k.i] # "unset"
       /\ cmd_list[k.i] # "freed" => equal = (cmd_list[k.i] = k.name)
       /\ client' = [client EXCEPT ![c] =
               IF equal THEN [k EXCEPT !.pc = "copy", !.freed = f]
               ELSE IF k.i + 1 < MaxEntries THEN [k EXCEPT !.i = k.i + 1, !.freed = f]
               ELSE [k EXCEPT !.pc = "end", !.got = "NULL", !.freed = f]]
       /\ UNCHANGED <<cmd_list, cmd_index, boot, execq, closing>>

(* The entry as it is now. *)
cmd_get_idx(c) ==
    LET k == client[c] IN
    /\ Alive /\ k.pc = "copy"
    /\ client' = [client EXCEPT ![c] =
            [k EXCEPT !.pc = "end", !.got = cmd_list[k.i],
                      !.freed = k.freed \/ cmd_list[k.i] = "freed"]]
    /\ UNCHANGED <<cmd_list, cmd_index, boot, execq, closing>>

(* cmd_send, unless the name was not found. *)
SendCommand(c) ==
    /\ Alive /\ client[c].pc = "end"
    /\ execq' = IF client[c].got = "NULL" THEN execq ELSE Append(execq, client[c].got)
    /\ client' = [client EXCEPT ![c] = Waiting(@.lookups)]
    /\ UNCHANGED <<cmd_list, cmd_index, boot, closing>>

--------------------------------------------------------------------------------
(* The executer, which runs from the start: of the commands only obc_exit  *)
(* changes the repository.                                                 *)
ExecuteNext ==
    /\ Alive /\ execq # <<>> /\ closing = -1
    /\ execq' = Tail(execq)
    /\ closing' = IF Head(execq) = "obc_exit" THEN 0 ELSE -1
    /\ UNCHANGED <<cmd_list, cmd_index, boot, client>>

(* cmd_repo_close frees the entries one by one; the process ends when all  *)
(* are freed.                                                              *)
cmd_repo_close ==
    /\ Alive /\ closing \in Entries
    /\ cmd_list' = [cmd_list EXCEPT ![closing] = "freed"]
    /\ closing' = closing + 1
    /\ cmd_index' = IF closing + 1 = MaxEntries THEN 0 ELSE cmd_index
    /\ UNCHANGED <<boot, client, execq>>

RepoNext ==
    \/ Boot
    \/ \E line \in {"/exit", "1: help", "", "obc_update_status"} : taskConsole(line)
    \/ taskWatchdog
    \/ \E c \in Clients \ {"console", "watchdog"}, name \in {"obc_get_sensors", "null"} :
            cmd_build_from_str(c, name)
    \/ \E c \in Clients : \/ CompareNull(c) \/ cmd_get_idx(c) \/ SendCommand(c)
                          \/ \E equal \in BOOLEAN : cmd_get_str(c, equal)
    \/ ExecuteNext \/ cmd_repo_close

RepoSpec == RepoInit /\ [][RepoNext]_repoVars

--------------------------------------------------------------------------------
(* A name is compared in one critical section and its entry copied in the  *)
(* next, while taskInit still registers commands or obc_exit frees them.   *)
(* A lookup that ends gives the command of that name, or NULL when the     *)
(* name was not registered as the lookup began; unless it read an entry    *)
(* after obc_exit freed it, which nothing prevents.  Only "null", whose    *)
(* entries commands are registered over, may give another command.         *)
LookupExact ==
    \A c \in Clients : LET k == client[c] IN
        k.pc = "end" /\ ~k.freed /\ k.name # "null" =>
            \/ k.got = k.name
            \/ k.got = "NULL" /\ k.name \notin k.before

(* Once the framework has registered its commands the boot ends, unless    *)
(* obc_exit is executed or the watchdog comes to an entry that has no name *)
(* yet: with room for one command more, the loop that fills the array with *)
(* "null" stops, and the commands of the application that fit are          *)
(* registered.                                                             *)
BootEnds ==
    boot[1] = "null" ~>
        \/ closing # -1 \/ boot[1] = "crashed"
        \/ /\ boot[1] = "done"
           /\ Registered = {Core[i] : i \in DOMAIN Core} \cup
                {cmd_app_init[i] : i \in {j \in DOMAIN cmd_app_init : Len(Core) + j <= MaxEntries}}

================================================================================
