------------------------------- MODULE Telemetry -------------------------------
(***************************************************************************)
(* Telemetry that is not a payload: the status variables, a variable, the  *)
(* flight plan, the list of commands, lines of text.  Two helpers cut an   *)
(* array of structs into frames: com_send_telemetry by structs and         *)
(* _com_send_data by bytes.  The ground shows what a frame says it holds.  *)
(* The link may lose a frame; the sender stops at a frame it cannot send.  *)
(***************************************************************************)
EXTENDS Integers, Sequences, FiniteSets

CONSTANTS FrameMax,     \* COM_FRAME_MAX_LEN
          VarSize,      \* sizeof(dat_sys_var_short_t)
          Vars,         \* numbers of status variables of a build
          Plans,        \* numbers of rows of the flight plan
          Lines,        \* lengths of lines of text
          MaxReports    \* bound on the telemetry commands

ASSUME TelemetryAssumption ==
    /\ FrameMax \in Nat \ {0} /\ VarSize \in 1 .. FrameMax
    /\ Vars \subseteq Nat \ {0} /\ Plans \subseteq Nat /\ Lines \subseteq Nat /\ MaxReports \in Nat

VARIABLES
    air,      \* frames on the way
    reports,  \* the telemetry sent so far: [type, n, size, whole]
    shown,    \* what the ground has shown: <<report, struct>>, struct 0 is garbage
    filled,   \* structs of each report that the sender wrote before it sent them
    counts,   \* frames of each report that were shown or refused
    dead      \* the process stopped on a division by zero

telemetryVars == <<air, reports, shown, filled, counts, dead>>

TelemetryInit ==
    /\ air = <<>> /\ reports = <<>> /\ shown = <<>> /\ filled = <<>> /\ counts = <<>>
    /\ dead = FALSE

--------------------------------------------------------------------------------
Smaller(a, b) == IF a < b THEN a ELSE b

(* com_send_telemetry: as many whole structs as fit. *)
TelemetryFrames(type, n, size) ==
    LET per == FrameMax \div size IN
    [f \in 1 .. (n + per - 1) \div per |->
        [report |-> Len(reports) + 1, type |-> type, size |-> size,
         ndata |-> Smaller(per, n - (f - 1) * per),
         first |-> (f - 1) * per * size, bytes |-> Smaller(per, n - (f - 1) * per) * size]]

(* _com_send_data: as many bytes as fit; each frame counts all structs. *)
DataFrames(type, n, size) ==
    [f \in 1 .. (n * size + FrameMax - 1) \div FrameMax |->
        [report |-> Len(reports) + 1, type |-> type, size |-> size, ndata |-> n,
         first |-> (f - 1) * FrameMax, bytes |-> Smaller(FrameMax, n * size - (f - 1) * FrameMax)]]

(* m of the frames are sent before csp_send or csp_buffer_get fails. *)
SendReport(frames, type, n, size) ==
    /\ ~dead /\ Len(reports) < MaxReports
    /\ \E m \in 0 .. Len(frames) :
        /\ air' = air \o SubSeq(frames, 1, m)
        /\ reports' = Append(reports, [type |-> type, n |-> n, size |-> size, whole |-> m = Len(frames)])
    /\ counts' = Append(counts, 0)
    /\ UNCHANGED <<shown, dead>>

(* The sender wrote k structs, if it lived to send them. *)
Filled(k) == filled' = IF dead' THEN filled ELSE Append(filled, k)

_com_send_data(type, n, size) == SendReport(DataFrames(type, n, size), type, n, size) /\ Filled(n)

tm_send_status == \E v \in Vars : _com_send_data("status", v, VarSize)
tm_send_var == _com_send_data("generic", 1, VarSize)

(* The names of the commands are one struct of that many bytes. *)
tm_send_cmds == \E k \in Lines : k > 0 /\ _com_send_data("help", 1, k)

(* com_send_telemetry divides by the number of structs: with none the      *)
(* processor traps, or nothing is sent.                                    *)
com_send_telemetry(type, n, size) ==
    \/ n > 0 /\ SendReport(TelemetryFrames(type, n, size), type, n, size)
    \/ n = 0 /\ SendReport(<<>>, type, n, size)
    \/ /\ n = 0 /\ ~dead
       /\ dead' = TRUE
       /\ UNCHANGED <<air, reports, shown, counts>>

(* The rows of the flight plan fill a frame each.  The array has as many   *)
(* as dat_fpl_queue counts; the entries found fill k of them, and what the *)
(* stack held is sent as the rest.                                         *)
tm_send_fp == \E n \in Plans : \E k \in 0 .. n : com_send_telemetry("fp", n, FrameMax) /\ Filled(k)

(* A line of text is an array of characters, one line per file. *)
com_send_debug == \E k \in Lines : com_send_telemetry("debug", k, 1) /\ Filled(k)
tm_list_files == com_send_debug

--------------------------------------------------------------------------------
(* What is read as the j-th struct of a frame. *)
StructAt(fr, j) ==
    IF fr.first % fr.size = 0 /\ j * fr.size <= fr.bytes THEN fr.first \div fr.size + j ELSE 0

(* Seeded fault: tm_parse_status does not check the number of structs. *)
StructsOfUnchecked(fr) ==
    CASE fr.type = "status" -> [j \in 1 .. fr.ndata |-> <<fr.report, StructAt(fr, j)>>]
      [] fr.type = "fp" -> [j \in 1 .. 1 |-> <<fr.report, StructAt(fr, j)>>]
      [] OTHER -> <<>>

(* Seeded fault: a full frame of status variables is refused. *)
StructsOfStrict(fr) ==
    CASE fr.type = "status" /\ fr.ndata < FrameMax \div VarSize ->
            [j \in 1 .. fr.ndata |-> <<fr.report, StructAt(fr, j)>>]
      [] fr.type = "fp" -> [j \in 1 .. 1 |-> <<fr.report, StructAt(fr, j)>>]
      [] OTHER -> <<>>

(* com_receive_tm chooses the command: tm_parse_status shows the structs   *)
(* counted, unless they are more than a frame holds; tm_print_fp the first *)
(* one.  Text and other types are shown as they are.                       *)
StructsOf(fr) ==
    CASE fr.type = "status" /\ fr.ndata <= FrameMax \div VarSize ->
            [j \in 1 .. fr.ndata |-> <<fr.report, StructAt(fr, j)>>]
      [] fr.type = "fp" -> [j \in 1 .. 1 |-> <<fr.report, StructAt(fr, j)>>]
      [] OTHER -> <<>>

com_receive_tm ==
    /\ air # <<>>
    /\ LET fr == Head(air) IN
       /\ shown' = shown \o StructsOf(fr)
       /\ counts' = [counts EXCEPT ![fr.report] = @ + 1]
    /\ air' = Tail(air)
    /\ UNCHANGED <<reports, filled, dead>>

LoseFrame ==
    /\ air # <<>> /\ air' = Tail(air)
    /\ UNCHANGED <<reports, shown, filled, counts, dead>>

TelemetryNext ==
    \/ tm_send_status \/ tm_send_var \/ tm_send_cmds
    \/ tm_send_fp \/ com_send_debug \/ tm_list_files
    \/ com_receive_tm \/ LoseFrame

TelemetrySpec == TelemetryInit /\ [][TelemetryNext]_telemetryVars

--------------------------------------------------------------------------------
(* The places of the structs shown of one report. *)
ShownOf(r) == {i \in DOMAIN shown : shown[i][1] = r}

(* Frames are cut in two ways and read in a third.  What the ground shows  *)
(* of a report are structs of it, each once and in order, never the bytes  *)
(* of two structs or of none; and all but rows of the flight plan were     *)
(* written before they were sent.                                          *)
ShownExact ==
    \A r \in DOMAIN reports :
        /\ \A i \in ShownOf(r) : shown[i][2] \in 1 .. reports[r].n
        /\ reports[r].type # "fp" => \A i \in ShownOf(r) : shown[i][2] <= filled[r]
        /\ \A i, j \in ShownOf(r) : i < j => shown[i][2] < shown[j][2]

(* A report of structs that was sent whole and received whole is shown     *)
(* whole.  Status variables that do not fit into one frame are refused.    *)
ShownWhole ==
    \A r \in DOMAIN reports :
        LET p == reports[r]
            frames == IF p.type = "status" THEN (p.n * p.size + FrameMax - 1) \div FrameMax ELSE p.n
        IN /\ p.type = "fp" \/ (p.type = "status" /\ p.n * p.size <= FrameMax)
           /\ p.whole /\ counts[r] = frames
           => {shown[i][2] : i \in ShownOf(r)} = 1 .. p.n

(* What is shown is part of the report, and all of it when all arrived.    *)
TelemetryShown == ShownExact /\ ShownWhole

================================================================================
