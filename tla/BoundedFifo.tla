------------------------------ MODULE BoundedFifo ------------------------------
(***************************************************************************)
(* What a blocking queue promises its callers: a linearizable FIFO of at   *)
(* most Size values.  A call takes effect once, atomically, between its    *)
(* invocation and its return; a call that fails changed nothing, and fails *)
(* only after it found the queue full (a send) or empty (a receive).       *)
(* OsQueue, the model of the pthread queue, is shown to implement this.    *)
(***************************************************************************)
EXTENDS Integers, Sequences

CONSTANTS Threads,   \* the tasks that use the queue
          Values,    \* the items the queue carries
          Size       \* capacity of the queue

VARIABLES fifo,      \* the queued values, oldest first
          op,        \* op[t]: the kind of t's last call
          arg,       \* arg[t]: the item t sends, or the buffer t receives into
          call,      \* call[t]: how far t's call has gone
          ret        \* ret[t]: what t's last call returned

vars == <<fifo, op, arg, call, ret>>

Ops == {"send", "recv"}

Init ==
    /\ fifo = <<>>
    /\ op \in [Threads -> Ops]
    /\ arg \in [Threads -> Values]
    /\ call = [t \in Threads |-> "idle"]
    /\ ret = [t \in Threads |-> 1]

(* The operation of t cannot take effect now. *)
Refused(t) == IF op[t] = "send" THEN Len(fifo) = Size ELSE Len(fifo) = 0

InvokeSend(t, v) ==
    /\ call[t] = "idle"
    /\ op' = [op EXCEPT ![t] = "send"]
    /\ arg' = [arg EXCEPT ![t] = v]
    /\ call' = [call EXCEPT ![t] = "pending"]
    /\ UNCHANGED <<fifo, ret>>

InvokeReceive(t) ==
    /\ call[t] = "idle"
    /\ op' = [op EXCEPT ![t] = "recv"]
    /\ call' = [call EXCEPT ![t] = "pending"]
    /\ UNCHANGED <<fifo, arg, ret>>

Put(t) ==
    /\ call[t] = "pending"
    /\ op[t] = "send"
    /\ ~Refused(t)
    /\ fifo' = Append(fifo, arg[t])
    /\ call' = [call EXCEPT ![t] = "done"]
    /\ UNCHANGED <<op, arg, ret>>

Take(t) ==
    /\ call[t] = "pending"
    /\ op[t] = "recv"
    /\ ~Refused(t)
    /\ arg' = [arg EXCEPT ![t] = Head(fifo)]
    /\ fifo' = Tail(fifo)
    /\ call' = [call EXCEPT ![t] = "done"]
    /\ UNCHANGED <<op, ret>>

Block(t) ==
    /\ call[t] = "pending"
    /\ Refused(t)
    /\ call' = [call EXCEPT ![t] = "blocked"]
    /\ UNCHANGED <<fifo, op, arg, ret>>

(* A waiting call is resumed, alone or with others. *)
Resume(S) ==
    /\ \A t \in S : call[t] = "blocked"
    /\ call' = [t \in Threads |-> IF t \in S THEN "pending" ELSE call[t]]
    /\ UNCHANGED <<fifo, op, arg, ret>>

GiveUp(t) ==
    /\ call[t] = "blocked"
    /\ call' = [call EXCEPT ![t] = "failed"]
    /\ UNCHANGED <<fifo, op, arg, ret>>

(* A finished call returns 1 if it took effect and 0 if it gave up; the    *)
(* waiters S it notified are resumed.                                      *)
Return(t, S) ==
    /\ call[t] \in {"done", "failed"}
    /\ \A u \in S : call[u] = "blocked"
    /\ call' = [u \in Threads |-> IF u = t THEN "idle"
                                  ELSE IF u \in S THEN "pending" ELSE call[u]]
    /\ ret' = [ret EXCEPT ![t] = IF call[t] = "done" THEN 1 ELSE 0]
    /\ UNCHANGED <<fifo, op, arg>>

Next ==
    \/ \E t \in Threads :
          \/ \E v \in Values : InvokeSend(t, v)
          \/ InvokeReceive(t)
          \/ Put(t)
          \/ Take(t)
          \/ Block(t)
          \/ GiveUp(t)
          \/ \E S \in SUBSET Threads : Return(t, S)
    \/ \E S \in SUBSET Threads : Resume(S)

Spec == Init /\ [][Next]_vars

================================================================================
