--------------------------------- MODULE Payload ---------------------------------
(***************************************************************************)
(* The samples of the payloads and the commands that send them.  A sample  *)
(* goes to the place its payload and index give in the memory of the build *)
(* (RAM sections, flash pages or an SQLite table); the next index and the  *)
(* acknowledged one are status variables, written after it.  All of this   *)
(* runs in the executer, one command after the other; the satellite may    *)
(* restart between two writes.                                             *)
(***************************************************************************)
EXTENDS Integers, Sequences

CONSTANTS Payloads,     \* number of payloads, last_sensor
          SampleSize,   \* data_map[p].size
          PageSize,     \* ST_PAGE_SIZE
          SectionSize,  \* SCH_SIZE_PER_SECTION
          Sections,     \* SCH_SECTIONS_PER_PAYLOAD
          FrameBytes,   \* COM_FRAME_MAX_LEN
          MaxSamples    \* bound on the samples taken

ASSUME PayloadAssumption ==
    /\ Payloads \in Nat \ {0} /\ Sections \in Nat \ {0} /\ MaxSamples \in Nat
    /\ SampleSize \in [0 .. Payloads - 1 -> Nat \ {0}]
    /\ {PageSize, SectionSize, FrameBytes} \subseteq Nat \ {0}
    /\ \A p \in 0 .. Payloads - 1 : SampleSize[p] <= PageSize /\ SampleSize[p] <= FrameBytes
    /\ SectionSize % PageSize = 0

VARIABLES
    build,    \* "ram", "flash" or "sqlite"
    mem,      \* samples in memory: [at, size, v]
    idx,      \* sys_index of each payload
    ack,      \* sys_ack of each payload
    op,       \* the command in progress
    taken,    \* samples taken so far; numbers them
    good,     \* history: the sample added under each index, 0 if none was
    doubt,    \* history: indices whose sample is not sure, -1: the acknowledge
    over,     \* history: a sample was stored in the sections of another payload
    sent      \* history: the telemetry of the command that just ended, `per' samples a frame

payloadVars == <<build, mem, idx, ack, op, taken, good, doubt, over, sent>>

P == 0 .. Payloads - 1
Ready == [pc |-> "ready", p |-> 0, left |-> 0]
Nothing == [asked |-> <<>>, frames |-> <<>>, per |-> 1]

PayloadInit ==
    /\ build \in {"ram", "flash", "sqlite"}
    /\ mem = {}
    /\ idx = [p \in P |-> 0] /\ ack = [p \in P |-> 0]
    /\ op = Ready /\ taken = 0
    /\ good = [p \in P |-> <<>>] /\ doubt = {} /\ over = FALSE
    /\ sent = Nothing

--------------------------------------------------------------------------------
(* storage_table_payload_init: the sections follow each other. *)
SectionAddress(n) == n * SectionSize

(* _get_sample_address of storage_ram.c: -1 is an error.  The section      *)
(* behind the last, which has no address, is taken to follow it.           *)
RamSection(p, i) == i \div (SectionSize \div SampleSize[p])
RamAddress(p, i) ==
    IF RamSection(p, i) > Sections THEN -1
    ELSE SectionAddress(p * Sections + RamSection(p, i))
           + (i % (SectionSize \div SampleSize[p])) * SampleSize[p]

(* _get_sample_address of storage_flash.c.  The page is counted from the   *)
(* start of the payload and added to the start of the section.             *)
PerPage(p) == PageSize \div SampleSize[p]
FlashSection(p, i) == i \div (PerPage(p) * (SectionSize \div PageSize))
FlashAddress(p, i) ==
    IF FlashSection(p, i) > Sections THEN -1
    ELSE SectionAddress(p * Sections + FlashSection(p, i))
           + (i \div PerPage(p)) * PageSize + (i % PerPage(p)) * SampleSize[p]

(* check_address_alignment refuses a sample that ends with its page too. *)
Aligned(a, size) == (a + size) \div PageSize <= a \div PageSize

(* The addresses of a payload count from its first section.  The flash     *)
(* checks them against a limit that counts from the flight plan, which is  *)
(* st_flightplan_sections before them.                                     *)
st_flightplan_sections == 1
Limit == Payloads * Sections * SectionSize
FlashLimit == Limit - st_flightplan_sections * SectionSize

(* Where a sample goes, or -1.  In a table it is the row (id, payload). *)
Address(p, i) ==
    CASE build = "ram" -> IF RamAddress(p, i) <= Limit THEN RamAddress(p, i) ELSE -1
      [] build = "flash" -> LET a == FlashAddress(p, i) IN
                            IF a <= FlashLimit /\ Aligned(a, SampleSize[p]) THEN a ELSE -1
      [] OTHER -> i * Payloads + p

Apart(c, a, size) == c.at + c.size <= a \/ a + size <= c.at

(* storage_payload_set_data.  RAM is overwritten; flash that is not erased *)
(* ends with the bits of both, which is not a sample; a table gets a row.  *)
Overwritten(p, a) == {c \in mem : Apart(c, a, SampleSize[p])}
StoreRam(p, a, v) == Overwritten(p, a) \cup {[at |-> a, size |-> SampleSize[p], v |-> v]}
StoreFlash(p, a, v) ==
    Overwritten(p, a)
      \cup {[at |-> a, size |-> SampleSize[p], v |-> IF Overwritten(p, a) = mem THEN v ELSE 0]}
StoreRow(p, a, v) == mem \cup {[at |-> a, size |-> 1, v |-> v]}
Store(p, a, v) ==
    CASE build = "ram" -> StoreRam(p, a, v)
      [] build = "flash" -> StoreFlash(p, a, v)
      [] OTHER -> StoreRow(p, a, v)

(* storage_payload_get_data: what is at the address, or the oldest row,    *)
(* which has the least number; 0 is not a sample.                          *)
Found(p, i) == {c \in mem : c.at = Address(p, i)}
Oldest(cells) == CHOOSE c \in cells : \A d \in cells : c.v <= d.v
FetchRam(p, i) == IF Address(p, i) = -1 \/ Found(p, i) = {} THEN 0 ELSE Oldest(Found(p, i)).v
FetchFlash(p, i) == IF Address(p, i) = -1 \/ Found(p, i) = {} THEN 0 ELSE Oldest(Found(p, i)).v
FetchRow(p, i) == IF Found(p, i) = {} THEN 0 ELSE Oldest(Found(p, i)).v
Fetch(p, i) ==
    CASE build = "ram" -> FetchRam(p, i)
      [] build = "flash" -> FetchFlash(p, i)
      [] OTHER -> FetchRow(p, i)

--------------------------------------------------------------------------------
(* The commands that add samples: one, or on the ground the n of a frame. *)
tm_parse_payload(p, n) ==
    /\ op = Ready /\ taken < MaxSamples
    /\ op' = [pc |-> "add", p |-> p, left |-> n]
    /\ sent' = Nothing
    /\ UNCHANGED <<build, mem, idx, ack, taken, good, doubt, over>>

take_sample(p) == tm_parse_payload(p, 1)
obc_get_sensors == tm_parse_payload(0, 1)

Added == IF op.left = 1 THEN Ready ELSE [pc |-> "add", p |-> op.p, left |-> op.left - 1]

(* Seeded fault: the sample is stored under the next index. *)
dat_add_payload_sample_next ==
    /\ op.pc = "add"
    /\ LET p == op.p
           a == Address(p, idx[p] + 1)
       IN IF a = -1
          THEN op' = Added /\ UNCHANGED <<mem, over>>
          ELSE /\ mem' = Store(p, a, taken + 1)
               /\ op' = [op EXCEPT !.pc = "index"]
               /\ over' = (over \/ (build # "sqlite" /\ a \div (Sections * SectionSize) # p))
    /\ taken' = taken + 1
    /\ UNCHANGED <<build, idx, ack, good, doubt, sent>>

(* dat_add_payload_sample: the sample is stored under the index; when that *)
(* fails the index stays.                                                  *)
dat_add_payload_sample ==
    /\ op.pc = "add"
    /\ LET p == op.p
           a == Address(p, idx[p])
       IN IF a = -1
          THEN op' = Added /\ UNCHANGED <<mem, over>>
          ELSE /\ mem' = Store(p, a, taken + 1)
               /\ op' = [op EXCEPT !.pc = "index"]
               /\ over' = (over \/ (build # "sqlite" /\ a \div (Sections * SectionSize) # p))
    /\ taken' = taken + 1
    /\ UNCHANGED <<build, idx, ack, good, doubt, sent>>

(* ... and the index grows. *)
AddIndex ==
    /\ op.pc = "index"
    /\ idx' = [idx EXCEPT ![op.p] = @ + 1]
    /\ good' = [good EXCEPT ![op.p] = Append(@, taken)]
    /\ op' = Added
    /\ UNCHANGED <<build, mem, ack, taken, doubt, over, sent>>

(* storage_payload_reset_table: RAM is set to zero, flash erased section   *)
(* by section, a table emptied.                                            *)
KeptRam(c, p) == c.at \div (Sections * SectionSize) # p
KeptFlash(c, p) == \A i \in 0 .. Sections - 1 : c.at \div SectionSize # i + p * Sections
KeptRow(c, p) == c.at % Payloads # p
Kept(c, p) ==
    CASE build = "ram" -> KeptRam(c, p)
      [] build = "flash" -> KeptFlash(c, p)
      [] OTHER -> KeptRow(c, p)

(* storage_payload_reset: all of the RAM or of the database goes, in flash *)
(* the sections of each payload.                                           *)
AllErased ==
    IF build = "flash" THEN {c \in mem : \A p \in P : KeptFlash(c, p)} ELSE {}

Places(p, from, to) == {<<p, i>> : i \in from .. to - 1}

(* dat_delete_payload: the samples, then the index, then the acknowledge.  *)
dat_delete_payload(p) ==
    /\ op = Ready
    /\ mem' = {c \in mem : Kept(c, p)}
    /\ doubt' = doubt \cup Places(p, 0, idx[p])
    /\ op' = [pc |-> "zeroIndex", p |-> p, left |-> 0]
    /\ sent' = Nothing
    /\ UNCHANGED <<build, idx, ack, taken, good, over>>

(* drp_reset_payload, given its magic number. *)
drp_reset_payload(p) == p < Payloads /\ dat_delete_payload(p)

ZeroIndex ==
    /\ op.pc = "zeroIndex"
    /\ idx' = [idx EXCEPT ![op.p] = 0]
    /\ good' = [good EXCEPT ![op.p] = <<>>]
    /\ doubt' = {t \in doubt : t[1] # op.p} \cup {<<op.p, -1>>}
    /\ op' = [op EXCEPT !.pc = "zeroAck"]
    /\ UNCHANGED <<build, mem, ack, taken, over, sent>>

Least(a, b) == IF a < b THEN a ELSE b
Greatest(a, b) == IF a < b THEN b ELSE a

(* An acknowledge is written as it is. *)
WriteAck(p, k) ==
    /\ ack' = [ack EXCEPT ![p] = k]
    /\ doubt' = IF k <= idx[p] THEN doubt \ {<<p, -1>>} ELSE doubt \cup {<<p, -1>>}

(* An index that is written leaves old samples in the places it uncovers,  *)
(* or covers places without one; and an acknowledge may lie above it.      *)
WriteIndex(p, k) ==
    /\ idx' = [idx EXCEPT ![p] = k]
    /\ good' = [good EXCEPT ![p] = [i \in 1 .. k |-> IF i <= idx[p] THEN good[p][i] ELSE 0]]
    /\ doubt' = doubt \cup Places(p, Least(k, idx[p]), Greatest(k, idx[p]))
                      \cup (IF k < ack[p] THEN {<<p, -1>>} ELSE {})

ZeroAck ==
    /\ op.pc = "zeroAck"
    /\ WriteAck(op.p, 0)
    /\ op' = Ready
    /\ UNCHANGED <<build, mem, idx, taken, good, over, sent>>

(* dat_reset_status_vars goes through the status variables one by one, the *)
(* indices before the acknowledges.  drp_reset_status ends there; drp_ebf  *)
(* (left = 1) erases all payloads then.                                    *)
ResetVars(ebf) ==
    /\ op = Ready
    /\ op' = [pc |-> "resetIndex", p |-> 0, left |-> ebf]
    /\ sent' = Nothing
    /\ UNCHANGED <<build, mem, idx, ack, taken, good, doubt, over>>

\* Bound: it starts while nothing is in doubt.
drp_reset_status == doubt = {} /\ ResetVars(0)
drp_execute_before_flight == ResetVars(1)

IsLast(p) == p + 1 = Payloads

ResetIndex ==
    /\ op.pc = "resetIndex"
    /\ WriteIndex(op.p, 0)
    /\ op' = IF IsLast(op.p) THEN [pc |-> "resetAck", p |-> 0, left |-> op.left]
             ELSE [pc |-> "resetIndex", p |-> op.p + 1, left |-> op.left]
    /\ UNCHANGED <<build, mem, ack, taken, over, sent>>

ResetAck ==
    /\ op.pc = "resetAck"
    /\ WriteAck(op.p, 0)
    /\ op' = IF ~IsLast(op.p) THEN [pc |-> "resetAck", p |-> op.p + 1, left |-> op.left]
             ELSE IF op.left = 1 THEN [pc |-> "erase", p |-> op.p, left |-> 1]
             ELSE Ready
    /\ UNCHANGED <<build, mem, idx, taken, good, over, sent>>

(* The indices, zero by now, are written as zero once more. *)
dat_delete_memory_sections ==
    /\ op.pc = "erase"
    /\ mem' = AllErased /\ doubt' = {t \in doubt : t[2] = -1} /\ over' = FALSE
    /\ idx' = [p \in P |-> 0]
    /\ op' = Ready
    /\ UNCHANGED <<build, ack, taken, good, sent>>

(* drp_set_var and drp_set_var_name write any status variable.  Bounds:    *)
(* the numbers 0 and 2, and while nothing is in doubt.                    *)
drp_update_sys_var_idx(p, k) ==
    /\ op = Ready /\ doubt = {}
    /\ \/ WriteIndex(p, k) /\ UNCHANGED ack
       \/ WriteAck(p, k) /\ UNCHANGED <<idx, good>>
    /\ sent' = Nothing
    /\ UNCHANGED <<build, mem, op, taken, over>>

(* Seeded fault: more samples can be acknowledged than there are. *)
tm_set_ack_any(p, k) ==
    /\ op = Ready /\ k >= 1 /\ ack[p] <= k
    /\ ack' = [ack EXCEPT ![p] = k]
    /\ sent' = Nothing
    /\ UNCHANGED <<build, mem, idx, op, taken, good, doubt, over>>

(* tm_set_ack: the acknowledge goes up, to the index at most. *)
tm_set_ack(p, k) ==
    /\ op = Ready /\ k >= 1 /\ ack[p] <= k
    /\ ack' = [ack EXCEPT ![p] = IF k > idx[p] THEN idx[p] ELSE k]
    /\ sent' = Nothing
    /\ UNCHANGED <<build, mem, idx, op, taken, good, doubt, over>>

--------------------------------------------------------------------------------
(* Telemetry *)

PerFrame(p) == FrameBytes \div SampleSize[p]

(* dat_get_recent_payload_sample: counted back from the newest. *)
Recent(p, offset) == IF idx[p] - 1 - offset >= 0 THEN Fetch(p, idx[p] - 1 - offset) ELSE 0

(* Seeded fault: the offset of the samples is one too small. *)
FramesFromToOff(start, end, p) ==
    LET n == end - start
        Sample(k) == Recent(p, n + (idx[p] - end) - k)
    IN [f \in 1 .. (n + PerFrame(p) - 1) \div PerFrame(p) |->
          [j \in 1 .. (IF n - (f - 1) * PerFrame(p) < PerFrame(p)
                       THEN n - (f - 1) * PerFrame(p) ELSE PerFrame(p))
             |-> Sample((f - 1) * PerFrame(p) + j - 1)]]

(* tm_send_tel_from_to: the frames of the samples start .. end - 1.        *)
FramesFromTo(start, end, p) ==
    LET n == end - start
        Sample(k) == Recent(p, n + (idx[p] - end) - (k + 1))
    IN [f \in 1 .. (n + PerFrame(p) - 1) \div PerFrame(p) |->
          [j \in 1 .. (IF n - (f - 1) * PerFrame(p) < PerFrame(p)
                       THEN n - (f - 1) * PerFrame(p) ELSE PerFrame(p))
             |-> Sample((f - 1) * PerFrame(p) + j - 1)]]

(* The samples asked for, unless there are none or a restart or an overrun *)
(* spoiled them.                                                           *)
Asked(p, start, end) ==
    IF over \/ end > Len(good[p]) \/ \E t \in doubt : t[1] = p
    THEN <<>> ELSE SubSeq(good[p], start + 1, end)

(* What telemetry nobody can check holds is not followed. *)
Sent(frames, asked, per) ==
    sent' = IF asked = <<>> THEN Nothing ELSE [frames |-> frames, asked |-> asked, per |-> per]

(* A frame that cannot be sent ends the command: n frames go out. *)
tm_send_tel_from_to(start, end, p) ==
    /\ op = Ready
    /\ \E n \in 0 .. Len(FramesFromTo(start, end, p)) :
          Sent(SubSeq(FramesFromTo(start, end, p), 1, n), Asked(p, start, end), PerFrame(p))
    /\ UNCHANGED <<build, mem, idx, ack, op, taken, good, doubt, over>>

tm_send_last(p) ==
    /\ idx[p] >= 1
    /\ tm_send_tel_from_to(idx[p] - Least(PerFrame(p), idx[p]), idx[p], p)

tm_send_all(p) == tm_send_tel_from_to(ack[p], idx[p], p)

tm_send_from(p, k) == k >= 1 /\ tm_send_tel_from_to(ack[p], Least(ack[p] + k, idx[p]), p)

(* The commands that print samples on the console or to a file. *)
Printed(samples, asked) ==
    /\ op = Ready
    /\ Sent(samples, asked, 1)
    /\ UNCHANGED <<build, mem, idx, ack, op, taken, good, doubt, over>>

tm_get_single(p, i) == Printed(<<<<Fetch(p, i)>>>>, Asked(p, i, i + 1))

tm_get_last(p) ==
    idx[p] >= 1 /\ Printed(<<<<Recent(p, 0)>>>>, Asked(p, idx[p] - 1, idx[p]))

(* A sample that cannot be read is skipped. *)
CanRead(p, i) == IF build = "sqlite" THEN Found(p, i) # {} ELSE Address(p, i) # -1
tm_dump(p) ==
    Printed([k \in 1 .. idx[p] |-> IF CanRead(p, k - 1) THEN <<Fetch(p, k - 1)>> ELSE <<>>],
            Asked(p, 0, idx[p]))

--------------------------------------------------------------------------------
(* A restart of a build that keeps its memory.  The sample under an index  *)
(* that was not written is stored again over the old one.                  *)
RestartPayload ==
    /\ op # Ready /\ build # "ram"
    /\ op.pc = "index" => doubt = {}   \* bound
    /\ op' = Ready
    /\ doubt' = doubt \cup (IF op.pc = "index" THEN {<<op.p, idx[op.p]>>} ELSE {})
    /\ UNCHANGED <<build, mem, idx, ack, taken, good, over, sent>>

PayloadNext ==
    \/ \E p \in P : \/ take_sample(p) \/ tm_parse_payload(p, 2) \/ drp_reset_payload(p)
                    \/ tm_send_last(p) \/ tm_send_all(p) \/ tm_send_from(p, 1)
                    \/ tm_get_single(p, 0) \/ tm_get_last(p) \/ tm_dump(p)
    \/ \E p \in P, k \in 1 .. 2 : tm_set_ack(p, k)
    \/ \E p \in P, k \in {0, 2} : drp_update_sys_var_idx(p, k)
    \/ drp_reset_status \/ ResetIndex \/ ResetAck
    \/ obc_get_sensors \/ dat_add_payload_sample \/ AddIndex \/ ZeroIndex \/ ZeroAck
    \/ drp_execute_before_flight \/ dat_delete_memory_sections \/ RestartPayload

PayloadSpec == PayloadInit /\ [][PayloadNext]_payloadVars

--------------------------------------------------------------------------------
(* Every sample added is read back under its index, whatever is added to   *)
(* or deleted from the other payloads, until one is stored outside the     *)
(* sections of its payload (the last index in RAM, half of the sections in *)
(* flash, where the offset of a section is added twice).  In doubt are the *)
(* index a restart left unwritten, the samples being deleted, and what an  *)
(* index that is reset or set from the ground uncovers or covers.          *)
SamplesKept ==
    ~over => \A p \in P : \A i \in 0 .. idx[p] - 1 :
        <<p, i>> \in doubt \/ Fetch(p, i) = good[p][i + 1]

(* Telemetry asks for samples by their distance from the newest, frame by  *)
(* frame.  The frames hold the samples from the acknowledged one on, each  *)
(* once and in order, as far as the link takes them: every frame but the   *)
(* last is full, and a sample is where the frames before it leave off.     *)
SentInOrder ==
    sent.asked # <<>> => \A f \in DOMAIN sent.frames :
        /\ f < Len(sent.frames) => Len(sent.frames[f]) = sent.per
        /\ \A j \in DOMAIN sent.frames[f] :
              LET k == (f - 1) * sent.per + j IN
              k \in DOMAIN sent.asked /\ sent.frames[f][j] = sent.asked[k]

(* The samples acknowledged are samples there are, so that tm_send_all     *)
(* sends the rest; only while the index is zero and the acknowledge is not *)
(* yet, which a restart may make last, or after the ground wrote a number  *)
(* that does not fit the other, is this not so.                            *)
AckBehind == \A p \in P : ack[p] <= idx[p] \/ <<p, -1>> \in doubt

(* So the samples stay what they were, and telemetry sends those that are  *)
(* not acknowledged yet, whole and in order.                               *)
SamplesSent == SamplesKept /\ SentInOrder /\ AckBehind

================================================================================
