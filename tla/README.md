# A TLA+ model of the SUCHAI flight software

The SUCHAI flight software runs on the on-board computer of small satellites: a
set of tasks on FreeRTOS or Linux that exchange *commands* through queues and
share a *data repository*. This directory holds a model of it: the blocking
queue of the Linux port, the path of a command from a task to its execution, the
flight plan, the status variables with triple writing and the three storages
under them, payload samples and telemetry, the link to the ground with its
telecommands and files, the watchdog and the boot, and the applications
(sampling, antenna release, attitude, housekeeping). TLC checks the modules on
small instances; TLAPS proves the results listed below for every instance.
Source paths below are relative to the root of the repository.

## Inventory

| Component | State | Operations | Interacts with |
|---|---|---|---|
| OS queue (`src/os/linux/pthread_queue.c`, same code in `src/os/sim`) | ring buffer, mutex, two condition variables | send, receive with timeout | every task |
| Command repository (`src/system/repoCommand.c`) | `cmd_list`, allocated commands | register, look up, build, `cmd_send`, free, close | every task |
| Dispatcher and executer (`taskDispatcher.c`, `taskExecuter.c`) | three queues, two counters | receive, count, hand over, run, free, report | clients, data repository |
| Flight plan (`taskFlightPlan.c`, `cmdFP.c`, `repoData.c`) | table of entries, `dat_fpl_queue`, `dat_fpl_last` | take the entry of the second, put it back, set, delete, reset, purge | dispatcher queue, clock, storage |
| Status repository (`repoData.c`, `repoDataSchema.*`, `cmdDRP.c`) | status table, `repo_data_sem` | set, get (vote), reset all, set by name | every task |
| Storage (`storage_ram.c`, `storage_flash.c`, `storage_sqlite.c`) | tables in RAM; flash pages, look-up table in FRAM; database | put, get, delete, reset, rebuild | data repository |
| Payload samples (`repoData.c`, `cmdTM.c`, `cmdDRP.c`) | samples, index and acknowledge counters | add, get, delete, send, acknowledge, dump | storage, link |
| Communications (`taskCommunications.c`, `cmdCOM.c`) | CSP sockets and buffers, counter of telecommands | ports of the task, commands, frames, answers | command path, ground |
| Telemetry and files (`cmdTM.c`, `cmdCOM.c`) | receiver of a file | cut into frames, show, store, request parts, merge | link |
| I2C over a serial controller (`csp_if_i2c_uart.c`, `i2c_usart_linux.c`) | lock, answer semaphore, read buffer | send and wait for the answer, read the line | CSP |
| Watchdog and boot (`taskWatchdog.c`, `taskInit.c`, `mainFS.c`) | `dat_obc_sw_wdt`, timers | count, kick, reset the OBC, initialise | status repository, dispatcher queue |
| Sampling (`apps/suchai`: `taskSensors.c`, `cmdSensors.c`) | state machine, saved in status variables | start, pause, sample, save, restore | payload samples |
| Antennas, panels, wheels (`apps/suchai`: `cmdGSSB.c`, `cmdRW.c`) | registers of the boards, selected address | unlock, configure, arm, burn, poll | I2C bus |
| Attitude (`apps/suchai`: `taskADCS.c`, `cmdADCS.c`; `math_utils.c`, `igrf13.c`) | estimate, target, mode | measure, estimate, point, send torques | status variables, CSP |
| Housekeeping (`apps/simple`) | seconds counted | send a command each minute and each hour | command path, status variables |
| Console (`taskConsole.c`, `cmdConsole.c`), logging, drivers | - | lines to commands; output | command path |

The hard behaviours are: commands that change hands between three queues while
their owner is decided by convention; waits that are called blocking and have a
deadline on a clock that a command may set; status variables read in one
critical zone and written in another; several variables that mean one thing and
are written one by one, with a restart or another thread in between; tables
walked without the lock; a task that starts before the repositories are open;
memory that is corrupted, or half written when the power fails; a link that
loses frames and answers; and one array cut or indexed by several functions,
each with its own arithmetic. `PROJECT.json` lists them under `hazards`, each at
its line, with the properties that would notice.

## Modules

### Commands, flight plan, status, watchdog

`BoundedFifo` - what a blocking queue promises: a linearizable FIFO of bounded
size; a call takes effect once, atomically; a call that fails changed nothing
and fails only after it found the queue full (or empty).

`OsQueue` - `pthread_queue.c`. `op[t]`, `pc[t]` follow a call of thread `t`
from the lock to the broadcast; send and receive have the same shape and share
their actions, except the copy. `SpuriousWakeup` and `Expire` are what
`pthread_cond_timedwait` may do at any moment (the deadline is a CLOCK_REALTIME
instant that setting the clock can make pass). `Contents` and `CallOf` are the
refinement mapping to `BoundedFifo`.

`CommandPipeline` - clients, `taskDispatcher`, `taskExecuter`, and the life of a
command on the heap. The queues are the FIFOs that `OsQueue` implements. Each
read and each write of a counter is a step. `late` holds the tasks whose call
has passed its deadline, which happens when `obc_set_time` runs on Linux
(`FiniteDelay`); such a call may give up (`ClientSendLate`, `DispSendLate`,
`DispGetResultLate`, `DispReceiveLate`), and `gave_up` records that one whose
status nobody looks at did. A "nested" command sends commands from inside the
executer, as `adcs_mag_moment` of `apps/suchai` does. `LogDebug` is the build
whose dispatcher logs a command after it handed it over.

`FlightPlan` - `taskFlightPlan`, the `fp_*` commands and the `dat_*_fp`
functions over the table in RAM. Two processes, the task (`"fp"`) and the
command in the executer (`"cmd"`), each follow the steps of a repository
function: read the count, edit the table under the semaphore, write the count.
`dat_get_fp` edits in two steps (`TakeEntry`, `TakeDelete`), because
`dat_purge_fp`, which takes no lock and is one step per table access, may clear
the slot between them. `served`
says whether the task began an iteration in the current second; the period of
`osTaskDelayUntil` is not aligned with the seconds, so a second may see several
iterations or none. An entry carries an identity `id` and the second in which
it was stored, `since`, that only the properties read.

`StatusRepo` - `dat_set_status_var`, `dat_get_status_var` and
`dat_reset_status_vars` with one or three copies. Each store and each load of a
copy is a step; `Corrupt` changes a cell at any moment and `Restart` stops every
task wherever it is. `Survives` says whether the table outlives a restart; the
set with both values covers both kinds of storage in one model.

`Watchdog` - `taskWatchdog`, the steps of `taskInit`, ground clearing the
counter, and the executer. While the storage is closed a read of the counter
returns any value (the variable in `dat_get_status_var` is not initialised);
while the names of the command repository are null a lookup ends the program
(`Crash`: `strcmp` with a null pointer, `repoCommand.c:75`). A send into a full
queue waits or gives up (`SendGivesUp`, recorded in `seen`). `since_kick` counts
from the moment `obc_reset_wdt` goes into the queue, not from the reset of the
task's own timer.

### Storage and samples

`FpTable` - what `repoData.c` expects of the flight plan table: a row put can be
read until an operation asks for it to go, and then it is gone.

`FlashPlan` - the flight plan in NOR flash. A row is written to the next page
of its section; the look-up table (TLB) of slots and the number of pages used
are in RAM with a copy in FRAM, written slot first, count next, page last. A
full section is read, erased and written again. `Restart` may fall between any
two of these writes, after which the TLB is the one of FRAM. Each access to
flash or FRAM may fail, and then the code goes on or stops as it does; when there is no memory for a rebuild the row is put all the same. The row after the
last that fits gets an address from behind the array of section addresses
(`NextPages`), so it may fall on any page or elsewhere. The module implements
`FpTable` with the rows that can be read; `spoilt` records a failed access, a
restart inside a rebuild or a reset, or a row put where the flash is not blank
or brought along by no rebuild, and `torn` a restart between the slot and the
count. One operation runs at a time, and the read of FRAM at boot succeeds.

`SqlPlan` - the flight plan in SQLite, and `dat_fpl_queue`. The boot, the
flight-plan task and the executer call the repository functions, whose steps
interleave: the count is read in a critical zone of its own, the table edited in
the next, the count written in a third, and a purge takes none for the table.
Rows are replaced by time and indexed by rowid. It implements `FpTable`, but for
a purge that deletes at an index another row than it looked at (`raced`);
`drift` records what makes the count wrong until the next purge or reset, among
it a count written over one written since it was read (`stale`).

`Payload` - samples in RAM, flash or SQLite (`build`), their index and
acknowledge counters, `drp_reset_payload`, and the telemetry commands
`tm_send_all`, `tm_send_from`, `tm_get_last`, `tm_get_single`, `tm_dump` and
`tm_set_ack`. A sample is written before its index, one payload is deleted in
several steps, `drp_ebf` and `drp_reset_status` write one index and one
acknowledge after the other, and a restart may fall between; `drp_set_var` may
write any of them. Addresses are computed as the code does, so that samples can
land on one another. `over` records that one was stored outside its sections,
`doubt` the indices that a restart or the ground left open.

`PayloadFields` - the fields of one sample on their way through an SQLite table
and to the printed line: four functions that walk the packed structure, each
with its own sizes, while values become text, columns and integers of a width.

### Applications

`Sensors` - `taskSensors` and `sen_set_machine`/`sen_activate`. The commands
hold `repo_machine_sem`, the task does not; the five fields are copied, then
saved one by one. `ask` remembers what ground asked for, `ask.crossed` that its
command met a round or a reboot came before the fields were saved.

`Interstages` - the registered handlers of `cmdGSSB.c` and `cmdRW.c` as scripts
of device calls. A call may fail before or after its effect; the boards release
while the handlers run. `notes.why` says why a board was left open.

`Attitude` - both loops of `taskADCS` and the commands of `cmdADCS.c`. A
quaternion is `Parts` status variables, each read and written on its own;
`crossed` records that the estimate loop and a measurement met. In a mode that
the task does not know it sends an uninitialised `cmd_point` (`taskADCS.c:148`):
nothing, or a command of an earlier round (`PointCommands`); where that crashes
the program the behaviour ends.

`AttitudeMath` - the vector, quaternion and matrix functions of `math_utils.c`,
the filter prediction of `taskADCS.c` and the rotations of `igrf13.c`, on turns
that map the cube to itself, where every result is an integer.

`FieldModel` - the loops of `igrf13.c` with the numbers left out: what remains
is which coefficient and which Legendre function each index means.

`Housekeeping` - `taskHousekeeping` and the commands `drp_set_var`,
`drp_set_var_name`, `drp_add_hrs_alive`, `drp_reset_status`,
`obc_update_status`, with the boot of each storage and restarts between any two
writes. `base` follows what ground and the boot put into the two hour counters.
A status variable without a row (a new SQLite database) reads as any value.

### Ground link

`Communications` - `taskCommunications` with the ports of the satellite, the
commands of `cmdCOM.c` on the other side, packets and answers that get lost, and
the pool of CSP buffers. A send into the full queue of the dispatcher gives up
when the clock was set past its deadline (`QueueGivesUp`, `lost`); a command that
runs may send one itself and then waits for the room only the executer can make
(`EndCommand`, `ExecuterStopped`). `leaked` counts answers that could not be sent.

`Telemetry` - the status variables, the flight plan, lists and lines: cut into
frames by `com_send_telemetry` and by `_com_send_data`, shown by a third function.
`filled` counts the rows of a report that the sender wrote: `tm_send_fp` sends as
many as `dat_fpl_queue` says.

`FileTransfer` - `com_send_file`, `tm_send_file_parts`, `tm_parse_file` with its
static variables, `tm_merge_file`, over a link that keeps order and loses frames;
the receiver may restart, also while a merge joins part after part. A byte is
data or the filling 0xAA, which is stripped. The id of a transfer, in the code
`rand() % USHRT_MAX` without a seed, may be a new one or one of an earlier
transfer, whose file the receiver then opens again and appends to (`repeated`).

`I2cUart` - the tasks that send a frame under a lock and wait for the "TX" of the
controller, and the thread that reads answers and frames in pieces. A read may
run past the end of its frame (`overran`); the thread then searches the rest of
the next one, in which any two bytes may read "TX" or "OK" (`misread`). `late`
records that a task gave up waiting.

`CommandRepo` - registration at boot, lookup entry by entry, and `obc_exit`,
which frees the entries without the semaphore. `taskWatchdog` may look a name up
before there is any, and the program ends where it meets a null one
(`CompareNull`); the other clients run while `taskInit` still registers the
commands of the application. A client notes when it read an entry that was
freed (`freed`).

### Instances

`MCOsQueue`, `MCCommandPipeline`, `MCFlightPlan`, `MCStatusRepo` and `MCWatchdog`
instantiate one module each. `MCStorage`, `MCApplication` and `MCGround`
instantiate several that share no state: the variable `part` says which of them
runs in a behaviour, so that their state spaces add up instead of multiplying.
`OsQueueProofs`, `CommandPipelineProofs`, `FlightPlanProofs`,
`StatusRepoProofs`, `WatchdogProofs`, `StorageProofs` (`SqlPlan`, `FlashPlan`,
`Payload`), `GroundProofs` (`Communications`, `I2cUart`, `CommandRepo`,
`Telemetry`, `FileTransfer`) and `ApplicationProofs` (`Attitude`, `Interstages`, `Sensors`, `Housekeeping`) hold
the theorems. Where a module is one part of an instance, its theorems are about
its own specification (`SqlSpec`, `FlashSpec`, `PayloadSpec`, `CommSpec`,
`UartSpec`, `RepoSpec`, `TelemetrySpec`, `FileSpec`, `AttitudeSpec`, `StagesSpec`,
`SensorsSpec`, `HouseSpec`), which is what the instance runs when `part` chooses it. Definitions marked "Seeded
fault" are plausible bugs of the definition after them, used to show that each
property would notice; no specification refers to them.

## Runs

| Run | Instance | Shows |
|---|---|---|
| `queue` | 3 threads, 2 values, 2 slots | `NoLostWakeup`; `ImplementsFifo`, the refinement of `BoundedFifo` |
| `queue_live` | 3 threads, 1 value, 1 slot | `WaiterWoken`: a waiter whose condition became true is woken |
| `pipeline` | 2 clients, 3 commands, queue of 2, all kinds of command | `OwnedOnce` (`SingleOwner` and `NoLeak`), `ResultMatches`, `CountersExact`, `ExecutionOrder`, `EventuallyExecuted` |
| `flight_plan` | 2 slots, 2 entries, 4 seconds, all ground commands | `AtMostAsked`; `SentOnTime` (only in its seconds, and on time); `Undisturbed` (count, periodic entries, purge) |
| `status` | 2 tasks, 2 variables of 3 copies, one corrupted cell | `ReadsMasked`: the vote |
| `watchdog` | 3 s of silence, kick after 1 s, queue of 2 | `TimersKept` (silence counted, kick sent in time, no lookup in an empty repository after a prompt boot), `NoEarlyReset`, `SilenceEnds` |
| `storage` | flash: 2 slots, 3 rows a section, 6 puts; SQLite: 2 entries, 3 times, 3 inserts, calls of two tasks; samples: 2 payloads, 2 sections, 2 samples; fields: all orders of up to 3 | `FlashIsTable`, `SqlIsTable`, `RowsOnce`, `Counted`, `FieldsKept` (a sample comes back field by field), `SamplesSent` (kept under their index; sent whole, in order, behind the acknowledge) |
| `app` | see the bounds | `SamplesBudget`, `StartServed`, `OpenForAReason`, `BurnsAsConfigured`, `DeployedSound`, `EstimateWhole`, `PacketsReturned`, `FieldExact`, `RotationsExact`, `HoursExact` |
| `ground` | see the bounds | `RunInOrder`, `BuffersBack`, `AckedRuns`, `TelemetryShown`, `FilesExact`, `FileArrives`, `BusKept`, `LookupExact`, `BootEnds` |
| `pipeline_nested` | queue of 2, 4 commands | violation of `SentIsExecuted` |
| `watchdog_boot` | as `watchdog` | violation of `BootClears` |
| `flash_full` | as `storage` | violation of `InSection` |

Bounds. The ring wraps and all three threads compete with two slots; one slot
and three threads make two threads wait on the same condition. Three commands
fill the queue of two while one runs. Two slots fill up with two entries and
still leave a free one for a periodic entry in the other case; four seconds are
enough to wait, run, repeat and be late. Ground deletes the entries of seconds 1
and 2, which are those of first and second executions as well as seconds without
an entry. Two variables are enough for the copies of one to land in another's.
The counters of the watchdog stop at `MaxCount`, past both limits.

In `storage` six puts fill a section of three rows, put one outside it, rebuild
it and fill it again; the flash is followed up to the first fault that spoils
it, after which nothing is promised. `dat_fpl_queue`, which deletions of missing
rows lower without end, stops at -`MinQueue`. Three
times and two entries make SQLite rows collide by time and pass the last index;
samples of 3 and 2 in pages and sections of 5 do not divide them, and two
samples, or an index that ground set to 2, pass the end of a section; ground
writes an index or acknowledge, and asks for a reset of the status variables,
only while nothing is in doubt. In `app` one sensor is sampled at the default
period or every 2 s, with two settings and one reboot; two release boards are
worked on by three handlers; quaternions have two parts; the field model runs at
its real degrees 13 and 8, at equal ones and with the rate larger than the base;
three turns about six axes, one of them zero, meet every branch of
`quat_from_dcm`; an hour is 4 and a minute 2 seconds, two boots run 8 seconds
each. In `ground` the queue holds one command and a frame has two, so queueing
blocks; of three buffers the template takes one; frames of 2 bytes cut files of
2 and 5 (with and without a rest, ending in 0xAA), with at most `MaxCalls`
transfers and requests together; a telemetry frame of 4 holds
two structs of 2 and is passed by three; the repository has four entries, room
for one application command fewer than there are.

Some properties carry a condition, which a history variable records. They are
the places where the code keeps its promise only if tasks do not meet or a
restart does not fall into a gap:

* `gave_up`: on Linux a send or a receive of a result can give up when the clock
  is set; a command is then lost and never freed, or judged by the result of
  another. (Only `SingleOwner` needs no condition.) In `Communications` the lost
  commands are named one by one (`lost`).
* `"overlap" \in seen` (flight plan): a ground command that overlaps an iteration
  of the task can leave a wrong `dat_fpl_queue`, take the slot a periodic entry
  needs, or, for `fp_purge`, delete an entry of the future.
* `"missed" \in seen`: entries of a second without an iteration stay as trash.
* `"slow_boot"`, `"overlap" \in seen` (watchdog): the boot took more than a
  second, or a clear ran between the read and the write of the counter.
* `ExecuterStopped`, a restart: an acknowledged command may never run.
* `spoilt`, `torn` (flash), `drift`, `raced` (SQLite), `over`, `doubt` (samples):
  above.
* `crossed` (sampling, attitude), `notes.why` (boards), `late`, `misread` (serial
  bus), `leaked` (buffers), `spoilt`, `repeated` (files), `freed` (lookups): above.

Three runs show that a sentence of the repository is not what the code does; the
sentences are quoted under `findings`: a command that sends a command into a full
queue stops executer and dispatcher for ever; `taskWatchdog`, started before
`taskInit`, acts on an uninitialised or an old counter; and the flash flight
plan puts one row more than fits before it rebuilds its section, at an address
read behind the end of an array.

Fairness: every task is a thread of a preemptive scheduler and spends most of
its time blocked, so a task that can take a step inside a call does (weak
fairness on the steps of the tasks). In `app` this is asked of `taskSensors` and
of the end of a command that was begun, in `ground` of `taskCommunications` once
it has a packet (`QueueCommand`, `FreePacket`), of dispatcher and executer
(`ExecuteCommand`, `ExecuteOther`, `EndCommand`, which stays disabled for ever
when a command sends one into a full queue), and of `taskInit` (`Boot`), while
the program runs. Nobody is obliged to make a
call, ground to send, the link to deliver, a wait to expire, or the clock to go
on. `EventuallyExecuted` needs in addition that functions of commands return,
which `ExecRun` assumes.

Deadlock is checked for the queue, the status repository and the storages. The
other models stop when their bound (commands, seconds, packets) is used up.

### Other differences seen in the code

These are in the models, which do what the code does, without a run of their own.

* The "BLOCKING" receive of a result (`taskDispatcher.c:52-53`) gives up on Linux
  when the clock is set, and the result of another command is used (`gave_up`).
* The reset of the RAM flight plan returns in the first turn of its loop
  (`storage_ram.c:278`; `storage.h:267` promises all entries).
* A periodic entry is dropped when `fp_set` takes the last slot between its
  removal and its return (`taskFlightPlan.c:57`, `docs/flightplan.md:32`).
* `docs/flightplan.md` says an entry with period 0 is executed `<executions>`
  times; the loop that did so is commented out (`taskFlightPlan.c:65-70`). An
  entry with `executions` 0 is executed once, too.
* A clear of the ground watchdog between the read and the write of the counter
  is overwritten (`taskWatchdog.c:41`, `cmdDRP.h:150`).
* Flash payload addresses add the offset of a section twice, and the last index
  the RAM storage accepts lies outside the sections of its payload (`over`).
* `drp_set_var` takes its value through a float, so integers above 2^24 are
  rounded; `drp_reset_status` does not look at its magic number.
* `taskHousekeeping` counts from 1, so the first hour is a second short.
* A string with a quote makes the INSERT of a sample fail.
* The comment of `get_sizeof_type` gives "%h" 4 bytes, the code 2.

## Proofs

Assumptions: `SizeAssumption` and `ThreadAssumption` (the queue has at least one
slot, the value for "free mutex" is no thread), `PipelineAssumption` (the null
pointer is no command, the queue has at least one slot, "dispatcher" is no
client), `FlightPlanAssumption` (the table has at least one slot, an identity is
not the one of a free slot, times and counts are natural numbers),
`StatusAssumption` (at least one variable; the distance between copies used by writes, `dat_status_last_address`,
and by reads, `dat_status_last_var`, is the same; one or three copies; defaults
are values), `WatchdogAssumption` (limits are natural numbers, the queue has a
slot, the cap of the counters is above the ground limit), `UartAssumption` (a
frame is longer than the two bytes of an answer, 0 is no task),
`SqlAssumption` (the indices reach at least one row, times are natural numbers),
`FlashAssumption` (a section has more pages than the plan has slots),
`PayloadAssumption` (a sample fits into a page and into a frame, a section is a
whole number of pages), `CommunicationsAssumption` (bounds are natural numbers),
`FileAssumption` (a frame has room for a byte, the bound on frames covers the
longest file), `CommandRepoAssumption` (the repository has an entry),
`TelemetryAssumption` (a status variable fits into a frame, a build has one),
`AttitudeAssumption` (a quaternion has a part), `InterstagesAssumption` (finitely many boards, the spare
address is none of theirs), `SensorsAssumption` (periods divide the cap of the
elapsed time) and `HousekeepingAssumption` (an hour is longer than the second the
task starts at, the queue has a slot). TLC evaluates them
in every run of the module.

`OsQueueProofs`, for any set of threads, any values and any size:

* `TypeCorrect`: needs that a thread at "check" that is not blocked finds
  `items` below `Size` (or above 0), which is its guard.
* `Exclusive`: mutual exclusion is inductive as stated, as an equivalence
  between holding the mutex and being in a critical step.
* `NoWakeupLost`: inductive with mutual exclusion. The argument is that the
  condition of a waiter becomes true only by a copy of the other side, whose
  thread is then on its way to the broadcast; and a thread begins to wait only
  with the mutex, when its condition is false.
* `RingCorrect`: `in` is `out + items` modulo the size; the lemmas `ModRange`,
  `ModWrap`, `AdvanceIn`, `AdvanceOut` do the arithmetic.
* `Implements`: the refinement. `CopyInAppends` and `CopyOutTakes` show that the
  copies are `Append` and `Head`/`Tail` of the occupied slots (`SlotsDiffer`:
  the slot written is none of them); every other step leaves `Contents` alone
  and moves one call, or resumes some, or stutters.

`CommandPipelineProofs`, for any clients, commands, queue length, number of
nested commands, with finite and infinite waits, at every log level:

* `TypeCorrect` needs `PtrInv`: a task that is past its receive has a command.
* `SingleOwnerCorrect` rests on `OwnInv`: what each place holds is allocated
  (`LiveInv`), and the six kinds of place are pairwise disjoint (`HeldInv`,
  `QueuedInv`, `StagedInv`). The steps that move no command are settled at once
  (`OwnUnmoved`); a send or receive moves one; an allocation takes a command that
  no place can hold. It needs no condition on `gave_up`: giving up loses a
  command, never duplicates it.
* `NoLeakCorrect`: an allocated command stays placed (`Placed`). `OwnedCorrect`
  puts the two together: an allocated command is in exactly one place.
* `LockStepCorrect` and `ResultCorrect`: `StepInv` lists the four places between
  hand-over and answer and what each holds. Results are compared through the
  kind of the command, which stays because a dispatched command is never
  allocated again (`KindKept`).
* `OrderCorrect`: `OrderInv` says that the commands queued so far are those that
  ran, then the pending one, then those in the queue.
* `CountersCorrect`: `CountersExact` says nothing between two turns of the
  dispatcher; `CountInv` says what each counter is at every step (a command is
  counted before it runs, its failure after), and that what was read is still
  what is stored when it is written. That a reset cannot fall between the read
  and the write is `StepInv`: the reset runs while the dispatcher waits. The last
  reset is unique (`ResetUnique`), so the proof never unfolds the `CHOOSE`.

`FlightPlanProofs`, for any table size, identities, requests and deletions:

* `TypeCorrect` needs that a periodic entry that is put back has executions
  left, and that the count of a purge does not pass its index (`LocalInv`).
  That the search for a slot finds one uses that `<` is well founded on the
  natural numbers.
* `AskedCorrect`: `AtMostAsked` is inductive with `ReadInv` (between the reading and
  the deleting of an entry its slot still holds it, or a purge has cleared the
  slot, so what is deleted is never another entry's only copy), `OutOfTable` (once
  deleted the entry is in no slot until it is put back) and `Fresh` (`fp_set`
  stores an identity once). `TableDelete` and `TableStore` say what clearing and
  filling a slot does to the number of executions left.
* `OnTimeCorrect`: `TimesInv` ties the time of an entry, in a slot or in the hands
  of the task, to the number of its executions so far; `OnTimeInv` extends the
  promise to the seconds already looked at (`Due`) while the task is inside an
  iteration. `SlotInv` says which slots are occupied.
* `UndisturbedCorrect`: with no overlap one of the two processes is idle
  (`AloneInv`); then what a function read is still the count when it writes it
  (`CountInv`, with the entries a purge has kept so far), and the executions of an
  entry are exactly those asked for, with room to put a periodic entry back into
  the slot it came from (`DeliveredInv`).

`StatusRepoProofs`, for any tasks, variables, values and default values, one or
three copies, any amount of damage:

* `TypeCorrect`: every store and load is inside the table.
* `CopiesCorrect` and `ReadsCorrect` rest on the invariant `IInv`: the semaphore
  is held exactly over stores and loads; the copies a write has not reached hold
  the last complete value or that of a torn write (`NotReached`), the copies it
  has reached hold the new one (`Reached`), unless corrupted; and what a read
  has loaded so far is sound for every copy not corrupted (`LoadedSound`).
  `ReadsMasked` alone is not inductive because the vote is taken over loads that
  happened at different moments; `CopiesIntact` alone not because it says
  nothing about which copies a write has passed.

`WatchdogProofs`, for any limits, any length of the queue, with a counter that
survives a reboot or does not:

* `TimersCorrect` needs that what the task is about to save covers the silence
  (`SaveCovers`), since it reads the counter and saves it in two steps with clears in between; that its other timer is not behind the seconds since
  `obc_reset_wdt` was last sent, as long as no send gave up, and is below its limit
  whenever the task has looked (`KickTimer`); and that before the boot is over the
  task has nothing to do unless the boot took more than a second (`BootFirst`),
  so that only then a null name is met.
* `ResetCorrect`, an action property, needs the other direction (`NotAhead`): as
  long as the boot was prompt and no clear ran while a second was counted, nothing
  is counted that was not silence.

`StorageProofs`, for any times, any number of rows, slots and pages, with restarts
at any step:

* `CountedCorrect`: `Counted` says nothing while a call is between its two writes.
  `SumInv` adds to the count what the calls of all callers that have edited the
  table are about to add (`Moves`); `HeldInv` says that what a call has read is
  still the count unless another wrote since (`stale`), and `WholeInv` that a purge
  nobody disturbed has counted the rows its index has passed (`Passed`). `Distinct` (one row per time and per identity) is
  what makes an insertion or a deletion change the number of rows by one. That
  there is a largest `rowid` uses that `<` is well founded.
* `SqlImplements`: every step changes what can be read as `FpTable` allows, or not at
  all.
* `RowsOnceCorrect`: two slots may show one row only if they share a page. The
  invariant `FlashInv` is the types and, as long as nothing is `spoilt`, `Sound`.
  `PagesInv` says that slots in use have pages counted and each its own, in a
  rebuild those already moved; `ErasedInv` that pages not counted are erased, so
  that a row put is the only thing on its page; `FramInv` how far the copy in FRAM
  may lag, which is what a restart brings back; `NumbersInv` that the row being set is on no page yet, and that a row put outside
  the section is on none of its pages.
* `FlashImplements`: from the same invariant, step by step: every write changes
  the rows that can be read as `FpTable` allows, or not at all.
* `SamplesCorrect`, for any payloads, sizes of samples, pages and sections, in all
  three builds. `CellsHome` says that whatever is stored lies at the place of an
  index in use, of one in doubt or of the sample being added, or outside all
  sections; `GoodHeld` and `NewHeld` that exactly one cell holds a sample that
  counts; `Emptied` that a payload has no cell left when its index is set to 0;
  `Counts` says how far a command that sets the indices and acknowledges one by one
  has come, wherever a restart stops it. Lemmas about the
  addresses show that the places of two samples do not overlap as long as nothing
  left its sections (`over`). That frames hold the samples in order
  (`SentInOrder`) is stated by position, so that no induction is needed.

`GroundProofs`, for any telecommands, any number of buffers; for any tasks, any
length of a frame, any way the line cuts it; for any number of entries and
clients; for any room of a frame, any sizes and numbers of structs; for any
files:

* `BuffersCorrect`: inductive with the place of the task; the steps of the ground
  and of the link touch no buffer of the satellite (`GroundSteps`).
* `RunInOrderCorrect`: a command is named by the packet it came in and its place
  there; what ran and what is queued are the positions read so far without those
  whose send gave up. `AtHand` says how much of its packet the task has still to
  queue, `LostTaken` that a send that gave up was of a command it has taken.
* `BusCorrect`, sending: `OneAnswer` says that as long as no task gave up and no
  bytes of a frame were taken for an answer there is one answer on its way at most, for the task that has the lock, and once it has
  left the controller its frame is on the bus.
* `BusCorrect`, receiving: `LineInv` says that after a piece of a frame on the
  line the rest of the frame follows. It is stated by position (the piece `k`
  places on is `k` pieces on), so that no induction is needed: lemmas `WholeAt`,
  `WholeFrame` and `WholeRest`. `Begun` ties the bytes read so far to what the line still holds, `PassedOld` the
  order of what was passed to the order of the bus (`RxSound`, as long as no bytes
  of a frame were taken for a header). `Aligned` says that until a read overruns
  its frame the thread looks for "TX" or "OK" only at answers and first pieces
  (`Starts`), so that nothing is misread.
* `LookupCorrect`: `StageInv` follows the filling of the array, during which only
  the watchdog may ask; `RoomInv` says that where the next commands go there is
  none yet, so that a command registered by the application never takes the place
  of another. `SearchInv` says that a name registered before a lookup began is
  still ahead of it, and that an entry found is still there when it is copied, or
  was freed by `obc_exit`, which a client then notes (`CleanInv`: none before).
* `TelemetryCorrect`: `DataCut` and `TelemetryCut` work out, for the two functions
  that cut, what the ground shows of each frame (`Shows`, with the division in
  `Fits`). From there on only the order counts: `OrderInv` has the structs shown
  and behind them those on the way in order, and `RowsInv` bounds the frames
  counted by the last row shown, all of which are shown when the bound is met.
  With that no induction over the frames is needed. `FilledInv` says that only a
  report of the flight plan may hold rows that were not written before they were
  sent.
* `FilesExactCorrect` and `FileArrivesCorrect` share the invariant `FileInv`, which
  holds as long as no id was drawn twice (`FreshInv`).
  `TransferFrames` and `PartFrames` work out what frame `x` of a transfer or of a
  request carries, filling included (`DataFull`, `DataLast`). `LinkInv` says every
  frame on the way is such a frame, `StartInv` that a START frame is the only one
  of its transfer and nothing is stored under its id, so that the name it picks is
  a new one; `RecvInv` that the file the statics name holds exactly the frames up
  to `last_frame`; `DiskInv` what each file and part holds. `MergedExact`, a part of
  `FilesExact`, needs no such condition: the parts have names of their own (`PartInv`), and `MergeInv` says that
  a merge has joined the parts below those left. `ArriveInv` says where a transfer
  answered with CMD_OK is when nothing failed: closed, or with all its frames from
  some frame on next to each other on the link, which is the frame the statics wait
  for once the first has arrived; so a requested part, which closes the open file,
  never falls between two frames of a transfer.

`ApplicationProofs`:

* `EstimateCorrect`, for any number of parts: `EstimateInv` says that with no
  overlap the loop is away while a measurement is stored, the parts stored so far
  are the new measurement, and what the loop has read is the estimate.
  `PacketsCorrect`: inductive with the steps of the commands.
* `OpenCorrect`, `DeployedCorrect`, `BurnsCorrect`, for any boards, with calls that
  fail before or after their effect: a handler is at an end of its script
  (`EndOf`), so its position says what it has done. `OpenInv` confines open boards
  to those the handler reaches; `ReleaseInv` says the settings are a release's
  before the burn; `PollInv` bounds the sum by the antennas out on boards polled
  and not polled, where readdressing two boards to one address leaves an address
  without a board, on which the poll fails.
* `BudgetCorrect`, for any samples, periods and sensors: `LeftInv` bounds the
  rounds taken and those left by the request at each step of the task, one more
  while a round is taken and not counted; `SavedInv` does the same for the fields
  copied and saved, which are what a reboot starts from and lag by one round.
  `SamplesBudget` alone is not inductive: it does not mention the samples left.
* `HoursCorrect`, for any length of hour, minute and queue: `HoursInv` has the
  hours alive exact in all phases of the boot and the hours without reset from the
  step that sets them; `DoingInv` says that what the hours command read is still
  there when it writes it back; `BootInv` that nothing is queued before the boot
  ends. `MarkedAppend` and `MarkedTail` count the hour commands of a queue,
  `NextHour` does the division.

Only model-checked: the liveness properties (`WaiterWoken`, `EventuallyExecuted`,
`SilenceEnds`, `StartServed`, `AckedRuns`, `BootEnds`), because fairness is out of
the prover's reach; `FieldsKept`, whose offsets are sums over the fields of a
structure, which takes an induction over data; `FieldExact` and `RotationsExact`,
computations over bounded inputs that the prover could only repeat. The three
violations are TLC's as well.

## Not modelled

* Logging (`log_utils.c`): formatting and output under one mutex. `log_send`
  writes its terminator by the returned length (`log_utils.c:60`), which may lie
  past the buffer.
* Drivers other than the serial bus, the set up of CSP interfaces, opening and
  closing of devices and databases: calls of the hardware or of the host.
* Parsing and printing of parameters (`cmd_add_params_*`, `cmd_print_all`, ...),
  the prompt of the console, commands that only print.
* `cmdGSSB.c:653-998`: handlers that are registered nowhere and cannot run.
* The calendar and the position of the sun (`taskADCS.c:201-312`), the gains of
  the control law, the values of the field coefficients and the reading of the
  model file: floating point or input. `eskf_update_mag`, which nothing calls,
  `quat_cons_mult` (scales three of four parts) and the diagonal `mat_skew`
  leaves alone are visible in the code and met by no caller of the models.
* Memory beyond the state of a module: a read of the serial line that runs past
  its buffer (`i2c_usart_linux.c`) shows only as bytes lost to the frames
  (`overran`, `misread`); the debug log of a freed command as a use after its release; a semaphore created again
  (`repoData.c:35`) while another task may hold it and the carry of nanoseconds
  with `>` (`pthread_queue.c:72`) are seen in the code and have no property.

## Plan

Done: all components of the inventory as far as said above, and the proofs listed:
every safety property of a passing run is a theorem, but for `FieldsKept`,
`FieldExact` and `RotationsExact`. Next, in this order:

1. The parts listed as "partly", where a host or a board can stand behind them:
   the FreeRTOS port and the databases with failing calls.
2. `FieldsKept` for every list of fields, once the offsets can be stated without a
   fold.
