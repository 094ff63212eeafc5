-------------------------------- MODULE I2cUart --------------------------------
(***************************************************************************)
(* The CSP interface that reaches the I2C bus through a controller on a    *)
(* serial line (csp_if_i2c_uart.c, i2c_usart_linux.c).  A task that sends  *)
(* takes a lock, writes a frame and waits for the "TX" of the controller,  *)
(* which the thread that reads the line turns into a semaphore.  The       *)
(* controller may answer late or never.  Frames received come in pieces.   *)
(***************************************************************************)
EXTENDS Integers, Sequences, FiniteSets

CONSTANTS Tasks,      \* tasks that send packets
          UartLen,    \* sizeof(i2c_uart_frame_t), in the unit of a read
          MaxTx,      \* bound on the frames sent by each task
          MaxRx       \* bound on the frames the controller delivers

ASSUME UartAssumption ==
    UartLen \in Nat /\ UartLen > 2 /\ MaxTx \in Nat /\ MaxRx \in Nat /\ 0 \notin Tasks

VARIABLES
    tx,        \* each task: "idle", "lock" or "answer"
    lock,      \* i2c_uart_lock: the task that has it, or 0
    ans,       \* i2c_uart_ans_lock was posted
    board,     \* frames the controller has not put on the bus: <<task, n>>
    line,      \* what the controller has sent: TX or <<frame, piece>>
    nsent,     \* frames sent by each task
    onbus,     \* history: frames the controller put on the bus
    okd,       \* history: frames csp_i2c_uart_tx returned CSP_ERR_NONE for
    late,      \* history: a task gave up waiting for its answer
    cbuf,      \* pieces read by serial_rx_thread since the sync
    passed,    \* history: the frames passed to CSP
    nrx,       \* frames received by the controller
    overran,   \* history: a read went past the end of its frame
    misread    \* history: bytes of a frame were taken for "TX" or "OK"

rxVars == <<cbuf, passed, nrx, overran, misread>>
uartVars == <<tx, lock, ans, board, line, nsent, onbus, okd, late, rxVars>>

(* What the thread looks for in two bytes that follow each other: the      *)
(* answer "TX", and "OK", with which a frame begins (piece 1).             *)
TX == <<0, 0>>
Header(u) == IF u = TX THEN "TX" ELSE IF u[2] = 1 THEN "OK" ELSE "none"

(* csp_i2c_uart_init: the lock is free, the answer is not there. *)
UartInit ==
    /\ tx = [t \in Tasks |-> "idle"] /\ lock = 0 /\ ans = FALSE
    /\ board = <<>> /\ line = <<>>
    /\ nsent = [t \in Tasks |-> 0] /\ onbus = {} /\ okd = {} /\ late = FALSE
    /\ cbuf = <<>> /\ passed = <<>> /\ nrx = 0 /\ overran = FALSE /\ misread = FALSE

--------------------------------------------------------------------------------
(* csp_i2c_uart_tx *)

TxBegin(t) ==
    /\ tx[t] = "idle" /\ nsent[t] < MaxTx
    /\ tx' = [tx EXCEPT ![t] = "lock"]
    /\ UNCHANGED <<lock, ans, board, line, nsent, onbus, okd, late, rxVars>>

(* The lock is waited for 2 s; then CSP_ERR_DRIVER. *)
TxLockTimeout(t) ==
    /\ tx[t] = "lock" /\ lock # 0
    /\ tx' = [tx EXCEPT ![t] = "idle"]
    /\ UNCHANGED <<lock, ans, board, line, nsent, onbus, okd, late, rxVars>>

(* Seeded fault: the lock is not kept until the answer. *)
TxWriteUnlocked(t) ==
    /\ tx[t] = "lock" /\ lock = 0
    /\ board' = Append(board, <<t, nsent[t] + 1>>)
    /\ nsent' = [nsent EXCEPT ![t] = @ + 1]
    /\ tx' = [tx EXCEPT ![t] = "answer"]
    /\ UNCHANGED <<lock, ans, line, onbus, okd, late, rxVars>>

(* i2c_usart_putstr writes the frame to the controller. *)
TxWrite(t) ==
    /\ tx[t] = "lock" /\ lock = 0
    /\ lock' = t
    /\ board' = Append(board, <<t, nsent[t] + 1>>)
    /\ nsent' = [nsent EXCEPT ![t] = @ + 1]
    /\ tx' = [tx EXCEPT ![t] = "answer"]
    /\ UNCHANGED <<ans, line, onbus, okd, late, rxVars>>

(* The answer came: the lock is released and the packet freed. *)
TxConfirmed(t) ==
    /\ tx[t] = "answer" /\ ans
    /\ ans' = FALSE /\ lock' = 0
    /\ okd' = okd \cup {<<t, nsent[t]>>}
    /\ tx' = [tx EXCEPT ![t] = "idle"]
    /\ UNCHANGED <<board, line, nsent, onbus, late, rxVars>>

(* 2 s without an answer: CSP_ERR_DRIVER. *)
TxAnswerTimeout(t) ==
    /\ tx[t] = "answer" /\ ~ans
    /\ lock' = 0 /\ late' = TRUE
    /\ tx' = [tx EXCEPT ![t] = "idle"]
    /\ UNCHANGED <<ans, board, line, nsent, onbus, okd, rxVars>>

--------------------------------------------------------------------------------
(* The controller *)

BoardTransmits ==
    /\ board # <<>>
    /\ board' = Tail(board) /\ onbus' = onbus \cup {Head(board)}
    /\ line' = Append(line, TX)
    /\ UNCHANGED <<tx, lock, ans, nsent, okd, late, rxVars>>

BoardLoses ==
    /\ board # <<>> /\ board' = Tail(board)
    /\ UNCHANGED <<tx, lock, ans, line, nsent, onbus, okd, late, rxVars>>

BoardReceives ==
    /\ nrx < MaxRx /\ nrx' = nrx + 1
    /\ line' = line \o [i \in 1 .. UartLen |-> <<nrx + 1, i>>]
    /\ UNCHANGED <<tx, lock, ans, board, nsent, onbus, okd, late, cbuf, passed, overran, misread>>

--------------------------------------------------------------------------------
(* serial_rx_thread *)

(* The sync: "TX" posts the semaphore, "OK" begins a frame and anything    *)
(* else is skipped.  Once the line is out of step the pieces of a frame    *)
(* are searched too, and any two bytes of theirs may be "TX" or "OK".      *)
RxSync(found) ==
    /\ cbuf = <<>> /\ line # <<>>
    /\ found = Header(Head(line)) \/ Head(line)[2] > 1
    /\ ans' = (ans \/ found = "TX")
    /\ cbuf' = IF found = "OK" THEN <<Head(line)>> ELSE <<>>
    /\ misread' = (misread \/ found # Header(Head(line)))
    /\ line' = Tail(line)
    /\ UNCHANGED <<tx, lock, board, nsent, onbus, okd, late, passed, nrx, overran>>

(* What is longer than a frame is dropped; so is a frame for which there   *)
(* is no buffer, or whose length field is out of range.                    *)
csp_i2c_uart_rx(buf) ==
    \/ UNCHANGED passed
    \/ Len(buf) <= UartLen /\ passed' = Append(passed, buf)

(* Each read takes up to a whole frame of what is there, whatever has been *)
(* read before.                                                            *)
RxRead(k) ==
    /\ cbuf # <<>> /\ k <= Len(line) /\ k <= UartLen - 1
    /\ LET buf == cbuf \o SubSeq(line, 1, k) IN
       IF Len(buf) < UartLen
       THEN cbuf' = buf /\ UNCHANGED passed
       ELSE csp_i2c_uart_rx(buf) /\ cbuf' = <<>>
    /\ overran' = (overran \/ Len(cbuf) + k > UartLen)
    /\ line' = SubSeq(line, k + 1, Len(line))
    /\ UNCHANGED <<tx, lock, ans, board, nsent, onbus, okd, late, nrx, misread>>

UartNext ==
    \/ \E t \in Tasks : \/ TxBegin(t) \/ TxLockTimeout(t) \/ TxWrite(t)
                        \/ TxConfirmed(t) \/ TxAnswerTimeout(t)
    \/ BoardTransmits \/ BoardLoses \/ BoardReceives
    \/ \E found \in {"TX", "OK", "none"} : RxSync(found)
    \/ \E k \in 1 .. UartLen - 1 : RxRead(k)

UartSpec == UartInit /\ [][UartNext]_uartVars

--------------------------------------------------------------------------------
(* The answers carry no number.  As long as no task gave up waiting and no *)
(* bytes of a frame were taken for "TX", a packet that csp_i2c_uart_tx     *)
(* reports as sent is on the bus; after that a late or a false answer      *)
(* confirms the next packet.                                               *)
ConfirmedOnBus == ~late /\ ~misread => okd \subseteq onbus

(* Frames are cut by the serial line at any place.  As long as no bytes of *)
(* a frame were taken for "OK", what is passed to CSP is one whole frame,  *)
(* in the order of the bus; a read that runs into the next frame costs     *)
(* both.                                                                   *)
RxIntact ==
    ~misread =>
        /\ \A i \in DOMAIN passed :
              /\ Len(passed[i]) = UartLen
              /\ \A j \in 1 .. UartLen : passed[i][j] = <<passed[i][1][1], j>>
        /\ \A i \in 1 .. Len(passed) - 1 : passed[i][1][1] < passed[i + 1][1][1]

(* Whatever bytes the frames hold, they are searched only after such a     *)
(* read: until then the thread looks at the answers and the first bytes of *)
(* the frames.                                                             *)
InStep == misread => overran

(* So the bus driver keeps its word in both directions. *)
BusKept == ConfirmedOnBus /\ RxIntact /\ InStep

================================================================================
