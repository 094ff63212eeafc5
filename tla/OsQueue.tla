-------------------------------- MODULE OsQueue --------------------------------
(***************************************************************************)
(* The blocking queue of the Linux port (os/linux/pthread_queue.c): a ring *)
(* buffer of Size slots under a mutex, with the condition variables        *)
(* cond_full (waited on by senders) and cond_empty (by receivers).  Both   *)
(* calls have the same shape - lock, wait while the queue is full / empty, *)
(* copy, unlock, broadcast to the other side - so one set of actions       *)
(* follows a call of either kind, and op[t] tells them apart.              *)
(* The deadline of a timed wait is a CLOCK_REALTIME instant, and the       *)
(* largest timeout (portMAX_DELAY) is a finite number of milliseconds, so  *)
(* a wait may expire whenever the clock, or a command that sets the clock, *)
(* says so: Expire has no guard but the wait itself.                       *)
(***************************************************************************)
EXTENDS Integers, Sequences

CONSTANTS Threads,   \* the tasks that use the queue
          Values,    \* the items it carries (memcpy of item_size bytes)
          Size,      \* queue->size
          NoThread   \* the mutex is free

ASSUME SizeAssumption == Size \in Nat \ {0}
ASSUME ThreadAssumption == NoThread \notin Threads

VARIABLES buffer,    \* queue->buffer
          items,     \* queue->items
          in,        \* queue->in
          out,       \* queue->out
          mutex,     \* the holder of queue->mutex
          op,        \* op[t]: which of the two calls t makes
          pc,        \* pc[t]: where in the call t is
          arg,       \* arg[t]: *value of a send, *buf of a receive
          ret        \* ret[t]: what t's last call returned

ring == <<buffer, items, in, out>>
vars == <<buffer, items, in, out, mutex, op, pc, arg, ret>>

Slots == 0 .. Size - 1
Ops == {"send", "recv"}
Steps == {"idle", "lock", "check", "wait", "woken", "expired", "giveup",
          "unlock", "notify"}

(* PTHREAD_QUEUE_OK; FULL, EMPTY and ERROR are the same value 0 *)
QueueOk == 1
QueueFail == 0

(* os_pthread_queue_create: malloc leaves the slots with arbitrary bytes *)
Init ==
    /\ buffer \in [Slots -> Values]
    /\ items = 0
    /\ in = 0
    /\ out = 0
    /\ mutex = NoThread
    /\ op \in [Threads -> Ops]
    /\ pc = [t \in Threads |-> "idle"]
    /\ arg \in [Threads -> Values]
    /\ ret = [t \in Threads |-> QueueOk]

At(t, step) == pc[t] = step
Goto(t, step) == pc' = [pc EXCEPT ![t] = step]

(* The condition of the while loop around the timed wait. *)
Blocked(t) == IF op[t] = "send" THEN items = Size ELSE items = 0

Send(t, v) ==
    /\ At(t, "idle")
    /\ op' = [op EXCEPT ![t] = "send"]
    /\ arg' = [arg EXCEPT ![t] = v]
    /\ Goto(t, "lock")
    /\ UNCHANGED <<ring, mutex, ret>>

Receive(t) ==
    /\ At(t, "idle")
    /\ op' = [op EXCEPT ![t] = "recv"]
    /\ Goto(t, "lock")
    /\ UNCHANGED <<ring, mutex, arg, ret>>

(* Seeded fault: the mutex is taken although another thread holds it. *)
LockShared(t) ==
    /\ pc[t] \in {"lock", "woken"}
    /\ mutex' = t
    /\ Goto(t, "check")
    /\ UNCHANGED <<ring, op, arg, ret>>

(* pthread_mutex_lock, and the relock inside a wait that was woken. *)
Lock(t) ==
    /\ pc[t] \in {"lock", "woken"}
    /\ mutex = NoThread
    /\ mutex' = t
    /\ Goto(t, "check")
    /\ UNCHANGED <<ring, op, arg, ret>>

(* pthread_cond_timedwait releases the mutex and waits in one step. *)
Wait(t) ==
    /\ At(t, "check")
    /\ Blocked(t)
    /\ mutex' = NoThread
    /\ Goto(t, "wait")
    /\ UNCHANGED <<ring, op, arg, ret>>

(* Seeded fault: queue->in does not wrap around. *)
CopyInNoWrap(t) ==
    /\ At(t, "check")
    /\ op[t] = "send"
    /\ ~Blocked(t)
    /\ buffer' = [buffer EXCEPT ![in] = arg[t]]
    /\ items' = items + 1
    /\ in' = in + 1
    /\ Goto(t, "unlock")
    /\ UNCHANGED <<out, mutex, op, arg, ret>>

(* memcpy into the slot and the update of the indices; the mutex is held. *)
CopyIn(t) ==
    /\ At(t, "check")
    /\ op[t] = "send"
    /\ ~Blocked(t)
    /\ buffer' = [buffer EXCEPT ![in] = arg[t]]
    /\ items' = items + 1
    /\ in' = (in + 1) % Size
    /\ Goto(t, "unlock")
    /\ UNCHANGED <<out, mutex, op, arg, ret>>

(* Seeded fault: queue->out stays behind. *)
CopyOutStuck(t) ==
    /\ At(t, "check")
    /\ op[t] = "recv"
    /\ ~Blocked(t)
    /\ arg' = [arg EXCEPT ![t] = buffer[out]]
    /\ items' = items - 1
    /\ Goto(t, "unlock")
    /\ UNCHANGED <<buffer, in, out, mutex, op, ret>>

(* Seeded fault: out advances before the copy. *)
CopyOutLate(t) ==
    /\ At(t, "check")
    /\ op[t] = "recv"
    /\ ~Blocked(t)
    /\ out' = (out + 1) % Size
    /\ arg' = [arg EXCEPT ![t] = buffer[out']]
    /\ items' = items - 1
    /\ Goto(t, "unlock")
    /\ UNCHANGED <<buffer, in, mutex, op, ret>>

CopyOut(t) ==
    /\ At(t, "check")
    /\ op[t] = "recv"
    /\ ~Blocked(t)
    /\ arg' = [arg EXCEPT ![t] = buffer[out]]
    /\ items' = items - 1
    /\ out' = (out + 1) % Size
    /\ Goto(t, "unlock")
    /\ UNCHANGED <<buffer, in, mutex, op, ret>>

Unlock(t) ==
    /\ At(t, "unlock")
    /\ mutex' = NoThread
    /\ Goto(t, "notify")
    /\ UNCHANGED <<ring, op, arg, ret>>

(* Seeded fault: the broadcast goes to the condition t itself waits on. *)
SameSideWaiters(t) == {u \in Threads : At(u, "wait") /\ op[u] = op[t]}

(* The threads waiting on the condition variable t's call broadcasts. *)
OtherSideWaiters(t) == {u \in Threads : At(u, "wait") /\ op[u] # op[t]}

Broadcast(t) ==
    /\ At(t, "notify")
    /\ pc' = [u \in Threads |-> IF u = t THEN "idle"
                                ELSE IF u \in OtherSideWaiters(t) THEN "woken"
                                ELSE pc[u]]
    /\ ret' = [ret EXCEPT ![t] = QueueOk]
    /\ UNCHANGED <<ring, mutex, op, arg>>

(* pthread_cond_timedwait may return without a broadcast. *)
SpuriousWakeup(t) ==
    /\ At(t, "wait")
    /\ Goto(t, "woken")
    /\ UNCHANGED <<ring, mutex, op, arg, ret>>

(* The deadline passes: the wait will return ETIMEDOUT once it has the mutex. *)
Expire(t) ==
    /\ At(t, "wait")
    /\ Goto(t, "expired")
    /\ UNCHANGED <<ring, mutex, op, arg, ret>>

RelockExpired(t) ==
    /\ At(t, "expired")
    /\ mutex = NoThread
    /\ mutex' = t
    /\ Goto(t, "giveup")
    /\ UNCHANGED <<ring, op, arg, ret>>

(* Unlock and return PTHREAD_QUEUE_FULL / PTHREAD_QUEUE_EMPTY. *)
GiveUp(t) ==
    /\ At(t, "giveup")
    /\ mutex' = NoThread
    /\ ret' = [ret EXCEPT ![t] = QueueFail]
    /\ Goto(t, "idle")
    /\ UNCHANGED <<ring, op, arg>>

(* The steps a thread takes by itself once it made a call. *)
Progress(t) ==
    \/ Lock(t)
    \/ Wait(t)
    \/ CopyIn(t)
    \/ CopyOut(t)
    \/ Unlock(t)
    \/ Broadcast(t)
    \/ RelockExpired(t)
    \/ GiveUp(t)

Next ==
    \E t \in Threads :
        \/ \E v \in Values : Send(t, v)
        \/ Receive(t)
        \/ Progress(t)
        \/ SpuriousWakeup(t)
        \/ Expire(t)

Spec == Init /\ [][Next]_vars

(* The scheduler runs every thread that can take a step inside a call;     *)
(* nobody is obliged to make a call, and no wait is obliged to expire.     *)
FairSpec == Spec /\ \A t \in Threads : WF_vars(Progress(t))

--------------------------------------------------------------------------------
(* Properties *)

TypeOK ==
    /\ buffer \in [Slots -> Values]
    /\ items \in 0 .. Size
    /\ in \in Slots
    /\ out \in Slots
    /\ mutex \in Threads \cup {NoThread}
    /\ op \in [Threads -> Ops]
    /\ pc \in [Threads -> Steps]
    /\ arg \in [Threads -> Values]
    /\ ret \in [Threads -> {QueueOk, QueueFail}]

(* Steps taken with the mutex held. *)
Critical == {"check", "unlock", "giveup"}

(* pthread_queue.c:78-91: the ring is only touched by the holder of the    *)
(* mutex, so at most one thread is between lock and unlock, however waits  *)
(* are woken, expire, or take the mutex back.                              *)
MutualExclusion ==
    \A t \in Threads : pc[t] \in Critical <=> mutex = t

(* in, out and items always describe the same run of occupied slots.       *)
RingConsistent == in = (out + items) % Size

(* pthread_queue.c:93-94 broadcasts after the unlock.  No wakeup is lost:  *)
(* when a thread still waits for something that is already there, a thread *)
(* of the other side is on its way to the broadcast that will wake it.     *)
NoLostWakeup ==
    \A t \in Threads :
        At(t, "wait") /\ ~Blocked(t)
            => \E u \in Threads : op[u] # op[t] /\ pc[u] \in {"unlock", "notify"}

(* The same, as what must happen: a waiting thread whose condition became  *)
(* true does not sleep until its deadline.                                 *)
WaiterWoken ==
    \A t \in Threads : (At(t, "wait") /\ ~Blocked(t)) ~> ~At(t, "wait")

(* The refinement: the occupied slots, oldest first, are the abstract      *)
(* queue, and the copy under the mutex is the point where a call takes     *)
(* effect.                                                                 *)
Contents == [i \in 1 .. items |-> buffer[(out + i - 1) % Size]]

CallOf(step) ==
    CASE step = "idle" -> "idle"
      [] step \in {"lock", "check", "woken"} -> "pending"
      [] step = "wait" -> "blocked"
      [] step \in {"expired", "giveup"} -> "failed"
      [] step \in {"unlock", "notify"} -> "done"

Fifo == INSTANCE BoundedFifo WITH
            fifo <- Contents,
            call <- [t \in Threads |-> CallOf(pc[t])]

(* pthread_queue.c:57-141: every behaviour of the ring buffer with its     *)
(* mutex, waits, wakeups and timeouts is one of the bounded FIFO.          *)
ImplementsFifo == Fifo!Spec

================================================================================
