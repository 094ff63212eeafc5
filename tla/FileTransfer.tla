------------------------------ MODULE FileTransfer ------------------------------
(***************************************************************************)
(* Files sent between two nodes over CSP.  The sender cuts a file into     *)
(* frames (com_send_file) or sends the frames asked for, as parts of their *)
(* own (tm_send_file_parts).  The link keeps the order and loses frames.   *)
(* The receiver stores each frame with tm_parse_file, which remembers the  *)
(* open file in static variables, and joins the parts with tm_merge_file.  *)
(* A byte is data or the filling 0xAA.                                     *)
(***************************************************************************)
EXTENDS Integers, Sequences

CONSTANTS FrameLen,   \* COM_FRAME_MAX_LEN
          Files,      \* contents of the files that are sent
          MaxFrames,  \* frames of the longest transfer
          MaxSends,   \* bound on the transfers
          MaxCalls    \* bound on the transfers and requests for parts together

ASSUME FileAssumption ==
    /\ FrameLen \in Nat \ {0} /\ {MaxFrames, MaxSends, MaxCalls} \subseteq Nat
    /\ Files \subseteq Seq({"d", "AA"})
    /\ \A c \in Files : Len(c) \div FrameLen + 2 <= MaxFrames

VARIABLES
    link,    \* frames on the way
    disk,    \* recv_files/: for each file its bytes, transfer and whether END closed it
    recv,    \* statics of tm_parse_file: fname (<<>> is NULL), last_id, last_frame
    sent,    \* the content of each transfer, and of the file sent in parts
    answer,  \* history: what the sender's command answered for each transfer
    asked,   \* requests for parts so far
    merged,  \* the last merge: the frames it reported missing, its bytes, the parts
             \* still to join and whether it was answered with CMD_OK
    spoilt,  \* history: the link lost a frame or the receiver restarted
    repeated \* history: a transfer drew the id of an earlier one

fileVars == <<link, disk, recv, sent, answer, asked, merged, spoilt, repeated>>

PartId == MaxSends + 1
Closed == [name |-> <<>>, id |-> 0, frame |-> 0]
Plain == <<"file", 0>>
IdName(id) == <<"file", id>>
PartName(n) == <<"part", n>>
Parts == {n \in 0 .. MaxFrames : PartName(n) \in DOMAIN disk}

(* A function that has the value v at x, and is g elsewhere. *)
With(g, x, v) == [y \in DOMAIN g \cup {x} |-> IF y = x THEN v ELSE g[y]]

FileInit ==
    /\ link = <<>> /\ disk = <<>> /\ recv = Closed
    /\ sent \in [{PartId} -> Files]
    /\ answer = <<>> /\ asked = 0
    /\ merged = [bytes |-> <<>>, missing |-> {}, left |-> {}, ok |-> FALSE]
    /\ spoilt = FALSE /\ repeated = FALSE

--------------------------------------------------------------------------------
(* The sender *)

(* The frames of `bytes', the last one filled with 0xAA. *)
Frames(type, id, bytes, start, total) ==
    LET n == (Len(bytes) + FrameLen - 1) \div FrameLen
        Byte(i) == IF i <= Len(bytes) THEN bytes[i] ELSE "AA"
    IN [f \in 1 .. n |->
          [type |-> type, id |-> id, n |-> start + f - 1, total |-> total,
           data |-> [i \in 1 .. FrameLen |-> Byte((f - 1) * FrameLen + i)]]]

(* com_send_file_parts stops at the first frame it cannot send: m frames   *)
(* get through.  It answers CMD_ERROR when there was nothing to send.      *)
com_send_file_parts(frames, m) ==
    /\ m \in 0 .. Len(frames)
    /\ link' = link \o SubSeq(frames, 1, m)

(* data_frames: the frames that need no filling. *)
FullFrames(c) == Len(c) \div FrameLen

(* Seeded fault: the tail has the number of the last full frame. *)
TransferNumbers(id, c) ==
    LET k == FullFrames(c) IN
    Frames("START", id, <<"d">>, 0, k + 1)
      \o Frames("DATA", id, SubSeq(c, 1, k * FrameLen), 1, k + 1)
      \o Frames("END", id, SubSeq(c, k * FrameLen + 1, Len(c)), k, k + 1)

(* The frames of a file: the name, the full frames, the tail. *)
Transfer(id, c) ==
    LET k == FullFrames(c) IN
    Frames("START", id, <<"d">>, 0, k + 1)
      \o Frames("DATA", id, SubSeq(c, 1, k * FrameLen), 1, k + 1)
      \o Frames("END", id, SubSeq(c, k * FrameLen + 1, Len(c)), k + 1, k + 1)

(* tm_send_file reads the file and com_send_file sends it under an id      *)
(* drawn with rand(), which nothing seeds: transfer n draws an id of its   *)
(* own, here n, or that of an earlier one, as after a restart of the       *)
(* sender.  It answers CMD_ERROR also when the tail is empty: the last     *)
(* call of com_send_file_parts sends nothing.                              *)
com_send_file(c, id, m) ==
    LET n == Len(answer) + 1
        frames == Transfer(id, c)
    IN /\ n <= MaxSends /\ n + asked <= MaxCalls
       /\ id \in 1 .. n
       /\ com_send_file_parts(frames, m)
       /\ sent' = With(sent, id, c)
       /\ answer' = Append(answer, m = Len(frames) /\ Len(c) % FrameLen # 0)
       /\ repeated' = (repeated \/ id < n)
       /\ UNCHANGED <<disk, recv, asked, merged, spoilt>>

(* Seeded fault: a last part that is not full is not counted. *)
LastPartFull(c) == Len(c) \div FrameLen - 1

(* total_frames - 1 of the file: the number of its last part. *)
LastPart(c) == (Len(c) + FrameLen - 1) \div FrameLen - 1

(* tm_send_file_parts: frames start .. end - 1; end = -1 stands for the    *)
(* whole file and is refused unless start is 0.                            *)
tm_send_file_parts(start, end, m) ==
    LET c == sent[PartId]
        from == start * FrameLen
        to == IF end < 0 \/ end * FrameLen > Len(c) THEN Len(c) ELSE end * FrameLen
    IN /\ Len(answer) + asked < MaxCalls
       /\ IF end < 0 THEN start = 0 ELSE start <= end
       /\ from <= Len(c)
       /\ com_send_file_parts(Frames("PART", PartId, SubSeq(c, from + 1, to), start, LastPart(c)), m)
       /\ asked' = asked + 1
       /\ UNCHANGED <<disk, recv, sent, answer, merged, spoilt, repeated>>

--------------------------------------------------------------------------------
(* The receiver *)

(* The filling at the end of a frame is removed. *)
Strip(bytes) ==
    LET kept == {i \in DOMAIN bytes : bytes[i] # "AA"}
    IN SubSeq(bytes, 1, IF kept = {} THEN 0 ELSE CHOOSE i \in kept : \A j \in kept : j <= i)

(* START picks the name, PART a name of its own: what the statics hold     *)
(* before the frame is checked.                                            *)
Opened(fr) ==
    CASE fr.type = "START" -> [name |-> IF Plain \in DOMAIN disk THEN IdName(fr.id) ELSE Plain,
                               id |-> fr.id, frame |-> fr.n]
      [] fr.type = "PART" -> [name |-> PartName(fr.n), id |-> fr.id, frame |-> fr.n - 1]
      [] OTHER -> recv

(* Seeded fault: the frame number is not compared. *)
InSequenceAny(o, fr) == o.name # <<>> /\ o.id = fr.id

InSequence(o, fr) == o.name # <<>> /\ o.id = fr.id /\ o.frame = fr.n - 1

Content(fr) ==
    IF fr.type = "END" \/ (fr.type = "PART" /\ fr.n = fr.total) THEN Strip(fr.data) ELSE fr.data

(* tm_parse_file of one frame: DATA and END append, PART overwrites. *)
tm_parse_file(fr) ==
    LET o == Opened(fr)
        old == IF fr.type # "PART" /\ o.name \in DOMAIN disk THEN disk[o.name].bytes ELSE <<>>
        new == [id |-> fr.id, total |-> fr.total, bytes |-> old \o Content(fr), closed |-> fr.type = "END"]
    IN IF fr.type = "START"
       THEN recv' = o /\ UNCHANGED disk
       ELSE IF ~InSequence(o, fr)
       THEN recv' = o /\ UNCHANGED disk
       ELSE /\ disk' = With(disk, o.name, new)
            /\ recv' = IF fr.type = "DATA" THEN [o EXCEPT !.frame = fr.n] ELSE Closed

(* The frame reaches taskCommunications, and com_receive_file hands it to  *)
(* tm_parse_file through the command queue; the executer runs one command  *)
(* at a time.                                                              *)
com_receive_file ==
    /\ link # <<>> /\ merged.left = {}
    /\ tm_parse_file(Head(link))
    /\ link' = Tail(link)
    /\ UNCHANGED <<sent, answer, asked, merged, spoilt, repeated>>

Lose ==
    /\ link # <<>>
    /\ link' = Tail(link) /\ spoilt' = TRUE
    /\ UNCHANGED <<disk, recv, sent, answer, asked, merged, repeated>>

(* The receiver restarts: the statics are lost and a merge is cut short,   *)
(* the disk is not lost.                                                   *)
RestartReceiver ==
    /\ recv # Closed \/ merged.left # {}
    /\ recv' = Closed /\ spoilt' = TRUE
    /\ merged' = [merged EXCEPT !.left = {}]
    /\ UNCHANGED <<link, disk, sent, answer, asked, repeated>>

(* tm_merge_file reports the numbers missing between the parts and up to   *)
(* the total in their names ...                                            *)
tm_merge_file ==
    /\ Parts # {} /\ merged.left = {}
    /\ merged' = [bytes |-> <<>>, left |-> Parts, ok |-> FALSE,
                  missing |-> (UNION {0 .. disk[PartName(n)].total : n \in Parts}) \ Parts]
    /\ UNCHANGED <<link, disk, recv, sent, answer, asked, spoilt, repeated>>

(* ... then `cat' joins the parts there are, in order of their number.     *)
MergePart ==
    /\ merged.left # {}
    /\ LET n == CHOOSE n \in merged.left : \A k \in merged.left : n <= k
       IN merged' = [bytes |-> merged.bytes \o disk[PartName(n)].bytes,
                     left |-> merged.left \ {n}, ok |-> merged.left = {n},
                     missing |-> merged.missing]
    /\ UNCHANGED <<link, disk, recv, sent, answer, asked, spoilt, repeated>>

FileNext ==
    \/ \E c \in Files, id \in 1 .. MaxSends, m \in 0 .. MaxFrames : com_send_file(c, id, m)
    \/ \E start, m \in 0 .. MaxFrames - 1, end \in -1 .. MaxFrames - 1 : tm_send_file_parts(start, end, m)
    \/ com_receive_file \/ Lose \/ RestartReceiver \/ tm_merge_file \/ MergePart

FileSpec == FileInit /\ [][FileNext]_fileVars

--------------------------------------------------------------------------------
(* What is left of a file once the filling of its last frame is removed:   *)
(* the 0xAA bytes the file itself ends with go too.                        *)
Stored(c, full) == SubSeq(c, 1, full * FrameLen) \o Strip(SubSeq(c, full * FrameLen + 1, Len(c)))

(* Frames are appended to the file the statics name.  Whatever the link    *)
(* loses, a stored file holds the leading frames of the one file it is a   *)
(* copy of, and all of that file once an END frame closed it.  Files are   *)
(* told apart by the ids alone: when one is drawn again, START opens the   *)
(* file of the earlier transfer, the frames are appended to it, and this   *)
(* no longer holds.                                                        *)
FileExact ==
    ~repeated => \A f \in DOMAIN disk :
        LET c == sent[disk[f].id]
            got == disk[f].bytes
        IN f[1] = "file" =>
             IF disk[f].closed
             THEN got = Stored(c, FullFrames(c))
             ELSE \E k \in 0 .. FullFrames(c) : got = SubSeq(c, 1, k * FrameLen)

(* When neither the link nor the receiver failed and no id came twice, a   *)
(* file whose command was answered with CMD_OK is stored and closed once   *)
(* its frames have arrived.                                                *)
FileArrives ==
    ~spoilt /\ ~repeated /\ link = <<>> =>
        \A id \in 1 .. Len(answer) : answer[id] =>
            \E f \in DOMAIN disk : disk[f].id = id /\ disk[f].closed

(* Parts may be asked for again and again, in any ranges, until none is    *)
(* missing.  A merge that reports nothing missing gives the file, whatever *)
(* ids the transfers in between have drawn.                                *)
MergedExact ==
    merged.ok /\ merged.missing = {} =>
        merged.bytes = Stored(sent[PartId], (Len(sent[PartId]) - 1) \div FrameLen)

(* Files on disk are what was sent, in one transfer, if its id was fresh,  *)
(* or joined from parts.                                                   *)
FilesExact == FileExact /\ MergedExact

================================================================================
