------------------------------ MODULE OsQueueProofs ------------------------------
(***************************************************************************)
(* Proofs about OsQueue, for any set of threads, any values and any size   *)
(* of the queue.                                                           *)
(***************************************************************************)
EXTENDS OsQueue, SequenceTheorems, TLAPS

(* The actions of a thread, without the quantifiers of Next. *)
LEMMA NextCases ==
    ASSUME [Next]_vars
    PROVE  \/ \E t \in Threads, v \in Values : Send(t, v)
           \/ \E t \in Threads : Receive(t) \/ Lock(t) \/ Wait(t) \/ CopyIn(t)
           \/ \E t \in Threads : CopyOut(t) \/ Unlock(t) \/ Broadcast(t)
           \/ \E t \in Threads : RelockExpired(t) \/ GiveUp(t)
           \/ \E t \in Threads : SpuriousWakeup(t) \/ Expire(t)
           \/ UNCHANGED vars
  BY DEF Next, Progress

(* A remainder is below its divisor, and a sum below twice the size wraps  *)
(* around at most once.                                                    *)
LEMMA ModRange ==
    ASSUME NEW n \in Nat \ {0}, NEW x \in Nat
    PROVE  x % n \in 0 .. n - 1
  OBVIOUS

LEMMA ModWrap == \A x \in 0 .. 2 * Size - 1 : x % Size = IF x < Size THEN x ELSE x - Size
  BY SizeAssumption

--------------------------------------------------------------------------------
(* Type correctness *)

LEMMA TypeInit == Init => TypeOK
  BY SizeAssumption DEF Init, TypeOK, Slots, Ops, Steps, QueueOk, QueueFail

LEMMA TypeNext == TypeOK /\ [Next]_vars => TypeOK'
<1> SUFFICES ASSUME TypeOK, [Next]_vars PROVE TypeOK'
  OBVIOUS
<1> USE SizeAssumption DEF TypeOK, Slots, Ops, Steps, QueueOk, QueueFail, ring,
        At, Goto, Blocked
<1>1. ASSUME NEW t \in Threads, NEW v \in Values, Send(t, v) PROVE TypeOK'
  BY <1>1 DEF Send
<1>2. ASSUME NEW t \in Threads, Receive(t) PROVE TypeOK'
  BY <1>2 DEF Receive
<1>3. ASSUME NEW t \in Threads, Lock(t) PROVE TypeOK'
  BY <1>3 DEF Lock
<1>4. ASSUME NEW t \in Threads, Wait(t) PROVE TypeOK'
  BY <1>4 DEF Wait
<1>5. ASSUME NEW t \in Threads, CopyIn(t) PROVE TypeOK'
  <2>1. (in + 1) % Size \in Slots
    BY ModRange
  <2> QED BY <1>5, <2>1 DEF CopyIn
<1>6. ASSUME NEW t \in Threads, CopyOut(t) PROVE TypeOK'
  <2>1. (out + 1) % Size \in Slots
    BY ModRange
  <2> QED BY <1>6, <2>1 DEF CopyOut
<1>7. ASSUME NEW t \in Threads, Unlock(t) PROVE TypeOK'
  BY <1>7 DEF Unlock
<1>8. ASSUME NEW t \in Threads, Broadcast(t) PROVE TypeOK'
  BY <1>8 DEF Broadcast
<1>9. ASSUME NEW t \in Threads, RelockExpired(t) PROVE TypeOK'
  BY <1>9 DEF RelockExpired
<1>10. ASSUME NEW t \in Threads, GiveUp(t) PROVE TypeOK'
  BY <1>10 DEF GiveUp
<1>11. ASSUME NEW t \in Threads, SpuriousWakeup(t) \/ Expire(t) PROVE TypeOK'
  BY <1>11 DEF SpuriousWakeup, Expire
<1>12. CASE UNCHANGED vars
  BY <1>12 DEF vars
<1> QED
  BY NextCases, <1>1, <1>2, <1>3, <1>4, <1>5, <1>6, <1>7, <1>8, <1>9, <1>10,
     <1>11, <1>12

(* pthread_queue.c: the indices stay inside the buffer and items between 0 *)
(* and size, so no copy falls outside of the allocation.                   *)
THEOREM TypeCorrect == Spec => []TypeOK
  BY TypeInit, TypeNext, PTL DEF Spec

--------------------------------------------------------------------------------
(* Mutual exclusion *)

LEMMA MutexNext == TypeOK /\ MutualExclusion /\ [Next]_vars => MutualExclusion'
<1> SUFFICES ASSUME TypeOK, MutualExclusion, [Next]_vars PROVE MutualExclusion'
  OBVIOUS
<1> USE ThreadAssumption DEF TypeOK, MutualExclusion, Critical, At, Goto
<1>1. ASSUME NEW t \in Threads, NEW v \in Values, Send(t, v) PROVE MutualExclusion'
  BY <1>1 DEF Send
<1>2. ASSUME NEW t \in Threads, Receive(t) PROVE MutualExclusion'
  BY <1>2 DEF Receive
<1>3. ASSUME NEW t \in Threads, Lock(t) PROVE MutualExclusion'
  BY <1>3 DEF Lock
<1>4. ASSUME NEW t \in Threads, Wait(t) PROVE MutualExclusion'
  BY <1>4 DEF Wait
<1>5. ASSUME NEW t \in Threads, CopyIn(t) PROVE MutualExclusion'
  BY <1>5 DEF CopyIn
<1>6. ASSUME NEW t \in Threads, CopyOut(t) PROVE MutualExclusion'
  BY <1>6 DEF CopyOut
<1>7. ASSUME NEW t \in Threads, Unlock(t) PROVE MutualExclusion'
  BY <1>7 DEF Unlock
<1>8. ASSUME NEW t \in Threads, Broadcast(t) PROVE MutualExclusion'
  BY <1>8 DEF Broadcast, OtherSideWaiters
<1>9. ASSUME NEW t \in Threads, RelockExpired(t) PROVE MutualExclusion'
  BY <1>9 DEF RelockExpired
<1>10. ASSUME NEW t \in Threads, GiveUp(t) PROVE MutualExclusion'
  BY <1>10 DEF GiveUp
<1>11. ASSUME NEW t \in Threads, SpuriousWakeup(t) \/ Expire(t) PROVE MutualExclusion'
  BY <1>11 DEF SpuriousWakeup, Expire
<1>12. CASE UNCHANGED vars
  BY <1>12 DEF vars
<1> QED
  BY NextCases, <1>1, <1>2, <1>3, <1>4, <1>5, <1>6, <1>7, <1>8, <1>9, <1>10,
     <1>11, <1>12

(* pthread_queue.c:78-91: at most one thread is between lock and unlock.   *)
THEOREM Exclusive == Spec => []MutualExclusion
<1>1. Init => MutualExclusion
  BY ThreadAssumption DEF Init, MutualExclusion, Critical
<1> QED
  BY <1>1, TypeCorrect, MutexNext, PTL DEF Spec

--------------------------------------------------------------------------------
(* No lost wakeup.  The invariant is inductive as it stands: a copy that   *)
(* ends the wait of the other side leaves its thread at the unlock, and    *)
(* that thread stays a witness until its broadcast wakes every waiter.     *)

LEMMA WakeupNext == TypeOK /\ NoLostWakeup /\ [Next]_vars => NoLostWakeup'
<1> SUFFICES ASSUME TypeOK, NoLostWakeup, [Next]_vars,
                    NEW w \in Threads, At(w, "wait")', ~Blocked(w)'
             PROVE  \E u \in Threads : op'[u] # op'[w] /\ pc'[u] \in {"unlock", "notify"}
  BY DEF NoLostWakeup
<1> DEFINE Witness(u) == op[u] # op[w] /\ pc[u] \in {"unlock", "notify"}
<1> USE SizeAssumption DEF TypeOK, Ops, At, Goto, Blocked
<1>1. ASSUME At(w, "wait"), ~Blocked(w)
      PROVE  \E u \in Threads : Witness(u)
  BY <1>1 DEF NoLostWakeup
<1>2. ASSUME NEW t \in Threads, NEW v \in Values, Send(t, v)
      PROVE  \E u \in Threads : op'[u] # op'[w] /\ pc'[u] \in {"unlock", "notify"}
  BY <1>1, <1>2 DEF Send, ring
<1>3. ASSUME NEW t \in Threads, Receive(t)
      PROVE  \E u \in Threads : op'[u] # op'[w] /\ pc'[u] \in {"unlock", "notify"}
  BY <1>1, <1>3 DEF Receive, ring
<1>4. ASSUME NEW t \in Threads, Lock(t) \/ RelockExpired(t) \/ GiveUp(t)
      PROVE  \E u \in Threads : op'[u] # op'[w] /\ pc'[u] \in {"unlock", "notify"}
  BY <1>1, <1>4 DEF Lock, RelockExpired, GiveUp, ring
<1>5. ASSUME NEW t \in Threads, Wait(t)
      PROVE  \E u \in Threads : op'[u] # op'[w] /\ pc'[u] \in {"unlock", "notify"}
  BY <1>1, <1>5 DEF Wait, ring
<1>6. ASSUME NEW t \in Threads, CopyIn(t)
      PROVE  \E u \in Threads : op'[u] # op'[w] /\ pc'[u] \in {"unlock", "notify"}
  <2>1. CASE op[w] = "recv"
    BY <1>6, <2>1 DEF CopyIn
  <2>2. CASE op[w] = "send"
    BY <1>1, <1>6, <2>2 DEF CopyIn
  <2> QED BY <2>1, <2>2
<1>7. ASSUME NEW t \in Threads, CopyOut(t)
      PROVE  \E u \in Threads : op'[u] # op'[w] /\ pc'[u] \in {"unlock", "notify"}
  <2>1. CASE op[w] = "send"
    BY <1>7, <2>1 DEF CopyOut
  <2>2. CASE op[w] = "recv"
    BY <1>1, <1>7, <2>2 DEF CopyOut
  <2> QED BY <2>1, <2>2
<1>8. ASSUME NEW t \in Threads, Unlock(t)
      PROVE  \E u \in Threads : op'[u] # op'[w] /\ pc'[u] \in {"unlock", "notify"}
  BY <1>1, <1>8 DEF Unlock, ring
<1>9. ASSUME NEW t \in Threads, Broadcast(t)
      PROVE  \E u \in Threads : op'[u] # op'[w] /\ pc'[u] \in {"unlock", "notify"}
  <2>1. PICK u \in Threads : Witness(u)
    BY <1>1, <1>9 DEF Broadcast, ring
  <2>2. u # t
    BY <1>9, <2>1 DEF Broadcast, OtherSideWaiters
  <2> QED BY <1>9, <2>1, <2>2 DEF Broadcast, OtherSideWaiters
<1>10. ASSUME NEW t \in Threads, SpuriousWakeup(t) \/ Expire(t)
      PROVE  \E u \in Threads : op'[u] # op'[w] /\ pc'[u] \in {"unlock", "notify"}
  BY <1>1, <1>10 DEF SpuriousWakeup, Expire, ring
<1>11. CASE UNCHANGED vars
  BY <1>1, <1>11 DEF vars
<1> QED
  BY NextCases, <1>2, <1>3, <1>4, <1>5, <1>6, <1>7, <1>8, <1>9, <1>10, <1>11

(* pthread_queue.c:93-94, 136-137: although the broadcast comes after the  *)
(* unlock, no thread is left waiting for what is already there.            *)
THEOREM NoWakeupLost == Spec => []NoLostWakeup
<1>1. Init => NoLostWakeup
  BY DEF Init, NoLostWakeup, At
<1> QED
  BY <1>1, TypeCorrect, WakeupNext, PTL DEF Spec

--------------------------------------------------------------------------------
(* The ring and the FIFO it implements *)

LEMMA AdvanceIn ==
    ASSUME NEW o \in 0 .. Size - 1, NEW n \in 0 .. Size - 1
    PROVE  (((o + n) % Size) + 1) % Size = (o + (n + 1)) % Size
<1>1. o + n \in 0 .. 2 * Size - 1 /\ o + (n + 1) \in 0 .. 2 * Size - 1
  BY SizeAssumption
<1>2. (o + n) % Size = IF o + n < Size THEN o + n ELSE (o + n) - Size
  BY <1>1, ModWrap
<1>3. ((o + n) % Size) + 1 \in 0 .. 2 * Size - 1
  BY <1>1, <1>2, SizeAssumption
<1>4. (((o + n) % Size) + 1) % Size
        = IF ((o + n) % Size) + 1 < Size THEN ((o + n) % Size) + 1 ELSE (((o + n) % Size) + 1) - Size
  BY <1>3, ModWrap
<1>5. (o + (n + 1)) % Size = IF o + (n + 1) < Size THEN o + (n + 1) ELSE (o + (n + 1)) - Size
  BY <1>1, ModWrap
<1> QED
  BY <1>2, <1>4, <1>5, SizeAssumption

LEMMA AdvanceOut ==
    ASSUME NEW o \in 0 .. Size - 1, NEW n \in 1 .. Size
    PROVE  (((o + 1) % Size) + (n - 1)) % Size = (o + n) % Size
<1>1. o + n \in 0 .. 2 * Size - 1 /\ o + 1 \in 0 .. 2 * Size - 1
  BY SizeAssumption
<1>2. (o + 1) % Size = IF o + 1 < Size THEN o + 1 ELSE (o + 1) - Size
  BY <1>1, ModWrap
<1>3. ((o + 1) % Size) + (n - 1) \in 0 .. 2 * Size - 1
  BY <1>1, <1>2, SizeAssumption
<1>4. (((o + 1) % Size) + (n - 1)) % Size
        = IF ((o + 1) % Size) + (n - 1) < Size THEN ((o + 1) % Size) + (n - 1)
          ELSE (((o + 1) % Size) + (n - 1)) - Size
  BY <1>3, ModWrap
<1>5. (o + n) % Size = IF o + n < Size THEN o + n ELSE (o + n) - Size
  BY <1>1, ModWrap
<1> QED
  BY <1>2, <1>4, <1>5, SizeAssumption

LEMMA RingNext == TypeOK /\ RingConsistent /\ [Next]_vars => RingConsistent'
<1> SUFFICES ASSUME TypeOK, RingConsistent, [Next]_vars PROVE RingConsistent'
  OBVIOUS
<1>0. items \in 0 .. Size /\ in \in 0 .. Size - 1 /\ out \in 0 .. Size - 1
  BY DEF TypeOK, Slots
<1>1. ASSUME NEW t \in Threads, CopyIn(t) PROVE RingConsistent'
  <2>1. items \in 0 .. Size - 1
    BY <1>0, <1>1, SizeAssumption DEF CopyIn, Blocked
  <2>2. (in + 1) % Size = (out + (items + 1)) % Size
    BY <1>0, <2>1, AdvanceIn DEF RingConsistent
  <2> QED BY <1>1, <2>2 DEF CopyIn, RingConsistent
<1>2. ASSUME NEW t \in Threads, CopyOut(t) PROVE RingConsistent'
  <2>1. items \in 1 .. Size
    BY <1>0, <1>2 DEF CopyOut, Blocked, Ops
  <2>2. (((out + 1) % Size) + (items - 1)) % Size = (out + items) % Size
    BY <1>0, <2>1, AdvanceOut
  <2> QED BY <1>2, <2>2 DEF CopyOut, RingConsistent
<1>3. ASSUME UNCHANGED ring PROVE RingConsistent'
  BY <1>3 DEF ring, RingConsistent
<1>4. ASSUME NEW t \in Threads, NEW v \in Values, Send(t, v) PROVE RingConsistent'
  BY <1>3, <1>4 DEF Send
<1>5. ASSUME NEW t \in Threads,
             Receive(t) \/ Lock(t) \/ Wait(t) \/ Unlock(t) \/ Broadcast(t)
      PROVE  RingConsistent'
  BY <1>3, <1>5 DEF Receive, Lock, Wait, Unlock, Broadcast
<1>6. ASSUME NEW t \in Threads,
             RelockExpired(t) \/ GiveUp(t) \/ SpuriousWakeup(t) \/ Expire(t)
      PROVE  RingConsistent'
  BY <1>3, <1>6 DEF RelockExpired, GiveUp, SpuriousWakeup, Expire
<1>7. CASE UNCHANGED vars
  BY <1>3, <1>7 DEF vars, ring
<1> QED
  BY NextCases, <1>1, <1>2, <1>4, <1>5, <1>6, <1>7

(* pthread_queue.c:88-90, 131-133: in, out and items always agree. *)
THEOREM RingCorrect == Spec => []RingConsistent
<1>1. Init => RingConsistent
  BY SizeAssumption, ModWrap DEF Init, RingConsistent
<1> QED
  BY <1>1, TypeCorrect, RingNext, PTL DEF Spec

(* The slots of two different queued items are different. *)
LEMMA SlotsDiffer ==
    ASSUME NEW o \in 0 .. Size - 1, NEW n \in 0 .. Size - 1, NEW j \in 1 .. n
    PROVE  (o + j - 1) % Size # (o + n) % Size
<1>1. o + n \in 0 .. 2 * Size - 1 /\ o + j - 1 \in 0 .. 2 * Size - 1
  BY SizeAssumption
<1>2. (o + j - 1) % Size = IF o + j - 1 < Size THEN o + j - 1 ELSE (o + j - 1) - Size
  BY <1>1, ModWrap
<1>3. (o + n) % Size = IF o + n < Size THEN o + n ELSE (o + n) - Size
  BY <1>1, ModWrap
<1> QED
  BY <1>2, <1>3, SizeAssumption

LEMMA ContentsShape ==
    ASSUME TypeOK
    PROVE  /\ Contents \in Seq(Values)
           /\ Len(Contents) = items
           /\ DOMAIN Contents = 1 .. items
           /\ \A j \in 1 .. items : Contents[j] = buffer[(out + j - 1) % Size]
<1>1. items \in Nat /\ out \in Nat /\ Size \in Nat \ {0}
  BY SizeAssumption DEF TypeOK, Slots
<1>2. \A j \in 1 .. items : (out + j - 1) % Size \in Slots
  BY <1>1, ModRange DEF Slots
<1>3. \A j \in 1 .. items : buffer[(out + j - 1) % Size] \in Values
  BY <1>2 DEF TypeOK
<1> QED
  BY <1>1, <1>3 DEF Contents

(* A copy into the ring appends to the contents... *)
LEMMA CopyInAppends ==
    ASSUME TypeOK, TypeOK', RingConsistent, NEW t \in Threads, CopyIn(t)
    PROVE  Contents' = Append(Contents, arg[t])
<1>0. items \in 0 .. Size - 1 /\ out \in 0 .. Size - 1 /\ in \in 0 .. Size - 1
  BY SizeAssumption DEF TypeOK, Slots, CopyIn, Blocked
<1>1. /\ buffer' = [buffer EXCEPT ![in] = arg[t]]
      /\ items' = items + 1
      /\ out' = out
  BY DEF CopyIn
<1>2. in = (out + items) % Size
  BY DEF RingConsistent
<1>3. ASSUME NEW j \in 1 .. items
      PROVE  buffer'[(out + j - 1) % Size] = Contents[j]
  <2>1. (out + j - 1) % Size # in
    BY <1>0, <1>2, SlotsDiffer
  <2>2. (out + j - 1) % Size \in Slots
    BY <1>0, SizeAssumption, ModRange DEF Slots
  <2> QED BY <1>1, <2>1, <2>2, ContentsShape DEF TypeOK
<1>4. buffer'[(out + (items + 1) - 1) % Size] = arg[t]
  <2>1. out + (items + 1) - 1 = out + items
    BY <1>0
  <2>2. buffer'[in] = arg[t]
    BY <1>1 DEF TypeOK
  <2> QED BY <1>2, <2>1, <2>2
<1>5. Contents' = [j \in 1 .. items + 1 |-> buffer'[(out + j - 1) % Size]]
  BY <1>1 DEF Contents
<1>6. Append(Contents, arg[t])
        = [j \in 1 .. items + 1 |-> IF j = items + 1 THEN arg[t] ELSE Contents[j]]
  BY ContentsShape, <1>0 DEF TypeOK
<1>7. ASSUME NEW j \in 1 .. items + 1
      PROVE  buffer'[(out + j - 1) % Size] = IF j = items + 1 THEN arg[t] ELSE Contents[j]
  BY <1>0, <1>3, <1>4
<1> QED
  BY <1>5, <1>6, <1>7

(* ... and a copy out of it takes their head. *)
LEMMA CopyOutTakes ==
    ASSUME TypeOK, TypeOK', NEW t \in Threads, CopyOut(t)
    PROVE  Contents # <<>> /\ buffer[out] = Head(Contents) /\ Contents' = Tail(Contents)
<1>0. items \in 1 .. Size /\ out \in 0 .. Size - 1
  BY SizeAssumption DEF TypeOK, Slots, CopyOut, Blocked, Ops
<1>1. /\ buffer' = buffer
      /\ items' = items - 1
      /\ out' = (out + 1) % Size
  BY DEF CopyOut
<1>2. Len(Contents) = items /\ Contents \in Seq(Values)
  BY ContentsShape
<1>3. Contents # <<>>
  BY <1>0, <1>2
<1>4. buffer[out] = Head(Contents)
  <2>1. out + 1 - 1 = out /\ out \in 0 .. 2 * Size - 1
    BY <1>0, SizeAssumption
  <2>2. out % Size = out
    BY <1>0, <2>1, ModWrap, SizeAssumption
  <2>3. Contents[1] = buffer[out]
    BY <1>0, <2>1, <2>2, ContentsShape
  <2> QED BY <1>2, <1>3, <2>3
<1>5. Contents' = [j \in 1 .. items - 1 |-> buffer[(((out + 1) % Size) + j - 1) % Size]]
  BY <1>1 DEF Contents
<1>6. /\ Tail(Contents) \in Seq(Values)
      /\ Len(Tail(Contents)) = items - 1
      /\ \A j \in 1 .. items - 1 : Tail(Contents)[j] = Contents[j + 1]
  BY <1>2, <1>3, HeadTailProperties
<1>7. ASSUME NEW j \in 1 .. items - 1
      PROVE  buffer[(((out + 1) % Size) + j - 1) % Size] = Contents[j + 1]
  <2>1. j \in 1 .. Size /\ j + 1 \in 1 .. items
    BY <1>0, SizeAssumption
  <2>2. (((out + 1) % Size) + (j - 1)) % Size = (out + j) % Size
    BY <1>0, <2>1, AdvanceOut
  <2>3. (out + 1) % Size \in Nat
    BY <1>0, SizeAssumption, ModRange
  <2>4. ((out + 1) % Size) + j - 1 = ((out + 1) % Size) + (j - 1) /\ out + (j + 1) - 1 = out + j
    BY <1>0, <2>1, <2>3
  <2> QED BY <2>1, <2>2, <2>4, ContentsShape
<1>8. /\ Contents' \in Seq(Values)
      /\ Len(Contents') = items - 1
      /\ \A j \in 1 .. items - 1 : Contents'[j] = Tail(Contents)[j]
  <2>1. \A j \in 1 .. items - 1 : Contents[j + 1] \in Values
    BY <1>0, <1>2, ElementOfSeq
  <2>2. \A j \in 1 .. items - 1 : buffer[(((out + 1) % Size) + j - 1) % Size] \in Values
    BY <1>7, <2>1
  <2> QED BY <1>0, <1>5, <1>6, <1>7, <2>2
<1>9. Contents' = Tail(Contents)
  BY <1>6, <1>8, SeqEqual
<1> QED
  BY <1>3, <1>4, <1>9

LEMMA CallOfSteps ==
    /\ CallOf("idle") = "idle"
    /\ \A c \in {"lock", "check", "woken"} : CallOf(c) = "pending"
    /\ CallOf("wait") = "blocked"
    /\ \A c \in {"expired", "giveup"} : CallOf(c) = "failed"
    /\ \A c \in {"unlock", "notify"} : CallOf(c) = "done"
  BY DEF CallOf

LEMMA FifoInit == Init => Fifo!Init
<1> SUFFICES ASSUME Init PROVE Fifo!Init
  OBVIOUS
<1>1. Contents = <<>>
  BY DEF Init, Contents
<1>2. [t \in Threads |-> CallOf(pc[t])] = [t \in Threads |-> "idle"]
  BY CallOfSteps DEF Init
<1> QED
  BY <1>1, <1>2 DEF Init, Fifo!Init, Fifo!Ops, Ops, QueueOk

(* Every step of the queue is a step of the FIFO, or changes nothing of it. *)
LEMMA FifoNext ==
    TypeOK /\ TypeOK' /\ RingConsistent /\ [Next]_vars => [Fifo!Next]_(Fifo!vars)
<1> SUFFICES ASSUME TypeOK, TypeOK', RingConsistent, [Next]_vars
             PROVE  [Fifo!Next]_(Fifo!vars)
  OBVIOUS
<1> DEFINE Call == [t \in Threads |-> CallOf(pc[t])]
<1>0. /\ pc \in [Threads -> Steps] /\ pc' \in [Threads -> Steps]
      /\ Len(Contents) = items
      /\ \A t \in Threads : Call[t] = CallOf(pc[t]) /\ Call'[t] = CallOf(pc'[t])
  BY ContentsShape DEF TypeOK
<1>1. ASSUME UNCHANGED ring PROVE Contents' = Contents
  BY <1>1 DEF ring, Contents
<1>2. ASSUME NEW t \in Threads, NEW v \in Values, Send(t, v) PROVE Fifo!InvokeSend(t, v)
  <2>1. Call' = [Call EXCEPT ![t] = "pending"] /\ Call[t] = "idle"
    BY <1>0, <1>2, CallOfSteps DEF Send, At, Goto
  <2> QED BY <1>1, <1>2, <2>1 DEF Send, Fifo!InvokeSend
<1>3. ASSUME NEW t \in Threads, Receive(t) PROVE Fifo!InvokeReceive(t)
  <2>1. Call' = [Call EXCEPT ![t] = "pending"] /\ Call[t] = "idle"
    BY <1>0, <1>3, CallOfSteps DEF Receive, At, Goto
  <2> QED BY <1>1, <1>3, <2>1 DEF Receive, Fifo!InvokeReceive
<1>4. ASSUME NEW t \in Threads, Lock(t) \/ Unlock(t) \/ RelockExpired(t)
      PROVE  UNCHANGED Fifo!vars
  <2>1. Call' = Call
    BY <1>0, <1>4, CallOfSteps DEF Lock, Unlock, RelockExpired, At, Goto
  <2> QED BY <1>1, <1>4, <2>1 DEF Lock, Unlock, RelockExpired, Fifo!vars
<1>5. ASSUME NEW t \in Threads, Wait(t) PROVE Fifo!Block(t)
  <2>1. Call' = [Call EXCEPT ![t] = "blocked"] /\ Call[t] = "pending"
    BY <1>0, <1>5, CallOfSteps DEF Wait, At, Goto
  <2> QED BY <1>0, <1>1, <1>5, <2>1 DEF Wait, Blocked, Fifo!Block, Fifo!Refused
<1>6. ASSUME NEW t \in Threads, CopyIn(t) PROVE Fifo!Put(t)
  <2>1. Call' = [Call EXCEPT ![t] = "done"] /\ Call[t] = "pending"
    BY <1>0, <1>6, CallOfSteps DEF CopyIn, At, Goto
  <2>2. Contents' = Append(Contents, arg[t])
    BY <1>6, CopyInAppends
  <2> QED BY <1>0, <1>6, <2>1, <2>2 DEF CopyIn, Blocked, Fifo!Put, Fifo!Refused
<1>7. ASSUME NEW t \in Threads, CopyOut(t) PROVE Fifo!Take(t)
  <2>1. Call' = [Call EXCEPT ![t] = "done"] /\ Call[t] = "pending"
    BY <1>0, <1>7, CallOfSteps DEF CopyOut, At, Goto
  <2>2. buffer[out] = Head(Contents) /\ Contents' = Tail(Contents)
    BY <1>7, CopyOutTakes
  <2> QED BY <1>0, <1>7, <2>1, <2>2 DEF CopyOut, Blocked, Fifo!Take, Fifo!Refused
<1>8. ASSUME NEW t \in Threads, Broadcast(t) PROVE Fifo!Return(t, OtherSideWaiters(t))
  <2>1. \A u \in OtherSideWaiters(t) : Call[u] = "blocked"
    BY <1>0, CallOfSteps DEF OtherSideWaiters, At
  <2>2. Call[t] = "done"
    BY <1>0, <1>8, CallOfSteps DEF Broadcast, At
  <2>3. Call' = [u \in Threads |-> IF u = t THEN "idle"
                                   ELSE IF u \in OtherSideWaiters(t) THEN "pending" ELSE Call[u]]
    BY <1>0, <1>8, CallOfSteps DEF Broadcast
  <2> QED BY <1>1, <1>8, <2>1, <2>2, <2>3 DEF Broadcast, Fifo!Return, QueueOk
<1>9. ASSUME NEW t \in Threads, GiveUp(t) PROVE Fifo!Return(t, {})
  <2>1. Call[t] = "failed"
    BY <1>0, <1>9, CallOfSteps DEF GiveUp, At
  <2>2. Call' = [u \in Threads |-> IF u = t THEN "idle"
                                   ELSE IF u \in {} THEN "pending" ELSE Call[u]]
    BY <1>0, <1>9, CallOfSteps DEF GiveUp, Goto
  <2> QED BY <1>1, <1>9, <2>1, <2>2 DEF GiveUp, Fifo!Return, QueueFail
<1>10. ASSUME NEW t \in Threads, SpuriousWakeup(t) PROVE Fifo!Resume({t})
  <2>1. Call' = [u \in Threads |-> IF u \in {t} THEN "pending" ELSE Call[u]] /\ Call[t] = "blocked"
    BY <1>0, <1>10, CallOfSteps DEF SpuriousWakeup, At, Goto
  <2> QED BY <1>1, <1>10, <2>1 DEF SpuriousWakeup, Fifo!Resume
<1>11. ASSUME NEW t \in Threads, Expire(t) PROVE Fifo!GiveUp(t)
  <2>1. Call' = [Call EXCEPT ![t] = "failed"] /\ Call[t] = "blocked"
    BY <1>0, <1>11, CallOfSteps DEF Expire, At, Goto
  <2> QED BY <1>1, <1>11, <2>1 DEF Expire, Fifo!GiveUp
<1>12. CASE UNCHANGED vars
  BY <1>1, <1>12 DEF vars, ring, Fifo!vars
<1>13. \A t \in Threads : OtherSideWaiters(t) \in SUBSET Threads /\ {t} \in SUBSET Threads
  BY DEF OtherSideWaiters
<1> QED
  BY NextCases, <1>2, <1>3, <1>4, <1>5, <1>6, <1>7, <1>8, <1>9, <1>10, <1>11,
     <1>12, <1>13 DEF Fifo!Next

(* pthread_queue.c:57-141: the queue of the Linux port implements the      *)
(* linearizable bounded FIFO, for any number of threads and any size.      *)
THEOREM Implements == Spec => ImplementsFifo
  BY TypeCorrect, RingCorrect, FifoInit, FifoNext, PTL DEF Spec, ImplementsFifo, Fifo!Spec

================================================================================
