-------------------------------- MODULE FlashPlan --------------------------------
(***************************************************************************)
(* The flight plan in NOR flash (storage_flash.c).  Rows are written one   *)
(* page after the other and never in place.  The TLB, in RAM with a copy   *)
(* in FRAM, has for each slot the time and page of its row, and the number *)
(* of pages used.  When the section is full its rows are read, the section *)
(* is erased and the rows are written again.  The satellite may restart    *)
(* between any two writes, and each access to FRAM or flash may fail.      *)
(* Slots < PerSection, so st_flightplan_sections is 1.                     *)
(***************************************************************************)
EXTENDS Integers, FiniteSets

CONSTANTS Slots,        \* SCH_FP_MAX_ENTRIES
          PerSection,   \* commands_per_section
          Times,        \* times of the rows
          MaxPuts       \* bound on the rows put

ASSUME FlashAssumption ==
    /\ Slots \in Nat \ {0} /\ PerSection \in Nat /\ Slots < PerSection
    /\ Times \subseteq Nat /\ MaxPuts \in Nat

VARIABLES
    tlb,      \* st_flightplan_tlb in RAM: the slots and the pages used
    fram,     \* its copy in FRAM
    flash,    \* the pages of the section, and what lies elsewhere
    work,     \* the operation in progress
    puts,     \* rows put so far; numbers the rows
    spoilt,   \* history: a fault that may lose rows or bring them back
    torn,     \* history: a restart fell between a slot and the count in FRAM
    doomed    \* history: the rows the last step was to delete

flashVars == <<tlb, fram, flash, work, puts, spoilt, torn, doomed>>

Slot == 0 .. Slots - 1
Elsewhere == PerSection            \* an address outside the section
Page == 0 .. PerSection
Free == [time |-> -1, page |-> -1]
Erased == [time |-> -1, id |-> 0]
Garbage == [time |-> -1, id |-> -1]
NoRows == [slot |-> [s \in Slot |-> Free], used |-> 0]
Idle == [pc |-> "idle", slot |-> 0, row |-> Erased, copy |-> <<>>]

(* The state storage_flight_plan_reset leaves.  Nobody knows what lies     *)
(* elsewhere.                                                              *)
FlashInit ==
    /\ tlb = NoRows /\ fram = NoRows
    /\ \E e \in {Erased, Garbage} : flash = [p \in Page |-> IF p = Elsewhere THEN e ELSE Erased]
    /\ work = Idle /\ puts = 0
    /\ spoilt = FALSE /\ torn = FALSE /\ doomed = {}

--------------------------------------------------------------------------------
(* The lowest slot with a time: storage_flightplan_find_index_tlb. *)
SlotsAt(t) == {s \in Slot : tlb.slot[s].time = t}
FindIndex(t) == CHOOSE s \in SlotsAt(t) : \A q \in SlotsAt(t) : s <= q

(* Seeded fault: the slot gets the page before. *)
UpdateTlbLast(s, t, p) ==
    [slot |-> [tlb.slot EXCEPT ![s] = [time |-> t, page |-> IF p = 0 THEN 0 ELSE p - 1]],
     used |-> tlb.used + 1]

(* storage_flightplan_update_tlb, in RAM. *)
UpdateTlb(s, t, p) ==
    [slot |-> [tlb.slot EXCEPT ![s] = [time |-> t, page |-> p]], used |-> tlb.used + 1]

(* storage_flightplan_dump_tlb of one slot, of the count and of all; when  *)
(* a write to FRAM fails the copy is stale.                                *)
DumpSlot(s, ok) == fram' = IF ok THEN [fram EXCEPT !.slot[s] = tlb'.slot[s]] ELSE fram
DumpCount(ok) == fram' = IF ok THEN [fram EXCEPT !.used = tlb.used] ELSE fram
DumpAll(ok) == fram' = IF ok THEN tlb' ELSE fram

Fails(ok) == spoilt' = (spoilt \/ ~ok)

Full == tlb.used > PerSection

(* The page of the next row.  Only the address of the first section is     *)
(* known: st_flightplan_addr[1] is read behind the end of the array, and   *)
(* the row may go anywhere.                                                *)
NextPages == IF tlb.used < PerSection THEN {tlb.used} ELSE Page

(* The row behind the last page is safe when it falls on a blank place     *)
(* outside the section.                                                    *)
SafePage(p) == \/ tlb.used < PerSection
               \/ tlb.used = PerSection /\ p = Elsewhere /\ flash[Elsewhere] = Erased

(* storage_flight_plan_set_st: the TLB in RAM, then its slot in FRAM.  A   *)
(* full section is rebuilt first, but when there is no memory for that the *)
(* row is put all the same.  A slot not saved ends the operation.          *)
SetSlot(t, p, ok) ==
    /\ work.pc \in {"idle", "put"}
    /\ puts < MaxPuts /\ SlotsAt(-1) # {} /\ p \in NextPages
    /\ LET s == FindIndex(-1) IN
       /\ tlb' = UpdateTlb(s, t, p)
       /\ DumpSlot(s, ok)
       /\ work' = IF ok THEN [pc |-> "setCount", slot |-> s, row |-> [time |-> t, id |-> puts + 1], copy |-> <<>>]
                        ELSE Idle
    /\ puts' = puts + 1
    /\ Fails(ok /\ SafePage(p))
    /\ UNCHANGED <<flash, torn>>

(* After a rebuild there may be no slot for the row. *)
SetNoSlot ==
    /\ work.pc = "put" /\ SlotsAt(-1) = {}
    /\ work' = Idle
    /\ UNCHANGED <<tlb, fram, flash, puts, spoilt, torn>>

(* ... then the number of pages used, in FRAM. *)
SetCount(ok) ==
    /\ work.pc = "setCount"
    /\ DumpCount(ok) /\ Fails(ok)
    /\ work' = IF ok THEN [work EXCEPT !.pc = "setRow"] ELSE Idle
    /\ UNCHANGED <<tlb, flash, puts, torn>>

(* A page that was not erased takes no row: bits only go from 1 to 0. *)
Written(p, row) == [flash EXCEPT ![p] = IF @ \in {Erased, row} THEN row ELSE Garbage]

(* ... then the row in flash.  When that fails the slot stays taken. *)
SetRow(ok) ==
    /\ work.pc = "setRow"
    /\ flash' = IF ok THEN Written(tlb.slot[work.slot].page, work.row) ELSE flash
    /\ work' = Idle
    /\ UNCHANGED <<tlb, fram, puts, spoilt, torn>>

(* The section as an erase leaves it. *)
EraseSection == [p \in Page |-> IF p < PerSection THEN Erased ELSE flash[p]]

(* flight_plan_rebuild_tlb: the section is read and erased, and neither    *)
(* failure stops it.  A page elsewhere lies outside the copy, and what is  *)
(* found there, or when nothing was read, is not a row.                    *)
Rebuild(read, erased) ==
    /\ work = Idle /\ Full /\ puts < MaxPuts
    /\ work' = [Idle EXCEPT !.pc = "next",
                    !.copy = [p \in Page |-> IF read /\ p < PerSection THEN flash[p] ELSE Garbage]]
    /\ flash' = IF erased THEN EraseSection ELSE flash
    /\ tlb' = [tlb EXCEPT !.used = 0]
    /\ Fails(read /\ erased /\ \A s \in Slot : tlb.slot[s].page # Elsewhere)
    /\ UNCHANGED <<fram, puts, torn>>

(* Seeded fault: rows in the first slot are not written again. *)
RebuildNextSkips(ok) ==
    /\ work.pc = "next" /\ work.slot < Slots
    /\ LET e == tlb.slot[work.slot] IN
       IF e = Free \/ work.slot = 0
       THEN /\ work' = [work EXCEPT !.slot = @ + 1]
            /\ UNCHANGED <<tlb, fram, spoilt>>
       ELSE /\ tlb' = UpdateTlb(work.slot, e.time, tlb.used)
            /\ DumpSlot(work.slot, ok) /\ Fails(ok)
            /\ work' = [work EXCEPT !.pc = IF ok THEN "nextCount" ELSE "nextRow", !.row = work.copy[e.page]]
    /\ UNCHANGED <<flash, puts, torn>>

(* Each slot in use gets a new page, in RAM and in FRAM; a slot not saved  *)
(* leaves the count unsaved too.                                           *)
RebuildNext(ok) ==
    /\ work.pc = "next" /\ work.slot < Slots
    /\ LET e == tlb.slot[work.slot] IN
       IF e = Free
       THEN /\ work' = [work EXCEPT !.slot = @ + 1]
            /\ UNCHANGED <<tlb, fram, spoilt>>
       ELSE /\ tlb' = UpdateTlb(work.slot, e.time, tlb.used)
            /\ DumpSlot(work.slot, ok) /\ Fails(ok)
            /\ work' = [work EXCEPT !.pc = IF ok THEN "nextCount" ELSE "nextRow", !.row = work.copy[e.page]]
    /\ UNCHANGED <<flash, puts, torn>>

RebuildCount(ok) ==
    /\ work.pc = "nextCount"
    /\ DumpCount(ok) /\ Fails(ok)
    /\ work' = [work EXCEPT !.pc = "nextRow"]
    /\ UNCHANGED <<tlb, flash, puts, torn>>

RebuildRow(ok) ==
    /\ work.pc = "nextRow"
    /\ flash' = IF ok THEN Written(tlb.slot[work.slot].page, work.row) ELSE flash
    /\ Fails(ok)
    /\ work' = [work EXCEPT !.pc = "next", !.slot = @ + 1]
    /\ UNCHANGED <<tlb, fram, puts, torn>>

(* The whole TLB is copied, and the row is put. *)
RebuildDone(ok) ==
    /\ work.pc = "next" /\ work.slot = Slots
    /\ UNCHANGED tlb
    /\ DumpAll(ok) /\ Fails(ok)
    /\ work' = [Idle EXCEPT !.pc = "put"]
    /\ UNCHANGED <<flash, puts, torn>>

(* storage_flight_plan_delete_row and _idx clear a slot and its copy; the  *)
(* page is left as it is.                                                  *)
DeleteIdx(s, ok) ==
    /\ work = Idle
    /\ tlb' = [tlb EXCEPT !.slot[s] = Free]
    /\ DumpSlot(s, ok) /\ Fails(ok)
    /\ UNCHANGED <<flash, work, puts, torn>>

DeleteRow(t, ok) ==
    /\ SlotsAt(t) # {}
    /\ DeleteIdx(FindIndex(t), ok)

(* storage_flight_plan_reset erases the section, then clears the TLB. *)
ResetErase(ok) ==
    /\ work = Idle
    /\ flash' = IF ok THEN EraseSection ELSE flash
    /\ Fails(ok)
    /\ work' = [Idle EXCEPT !.pc = "reset"]
    /\ UNCHANGED <<tlb, fram, puts, torn>>

ResetTlb(ok) ==
    /\ work.pc = "reset"
    /\ tlb' = NoRows
    /\ DumpAll(ok) /\ Fails(ok)
    /\ work' = Idle
    /\ UNCHANGED <<flash, puts, torn>>

(* A restart: storage_table_flight_plan_init loads the TLB from FRAM.  A   *)
(* rebuild or a reset it cuts short loses the rows that are only in RAM.   *)
Restart ==
    /\ tlb' = fram /\ work' = Idle
    /\ Fails(work.pc \in {"idle", "put", "setCount", "setRow"})
    /\ torn' = (torn \/ work.pc = "setCount")
    /\ UNCHANGED <<fram, flash, puts>>

(* What a read of a slot finds (storage_flight_plan_get_idx looks only at  *)
(* its address): while the section is rebuilt the row may still be in RAM. *)
RowAt(s) ==
    IF work.pc \in {"nextCount", "nextRow"} /\ s = work.slot THEN work.row
    ELSE IF work.pc \in {"next", "nextCount", "nextRow"} /\ s >= work.slot /\ tlb.slot[s] # Free
    THEN work.copy[tlb.slot[s].page]
    ELSE IF tlb.slot[s] = Free THEN Erased
    ELSE flash[tlb.slot[s].page]

(* The slots that show a row that was put, and not a blank or spoilt page. *)
Shown == {s \in Slot : tlb.slot[s] # Free /\ RowAt(s).id > 0}
Readable == {RowAt(s) : s \in Shown}

(* Every row goes with a reset, the row of the slot with a delete. *)
FlashNext ==
    \E ok \in BOOLEAN :
        \/ \E t \in Times : DeleteRow(t, ok) /\ doomed' = {RowAt(FindIndex(t))}
        \/ \E s \in Slot : DeleteIdx(s, ok) /\ doomed' = {RowAt(s)}
        \/ ResetErase(ok) /\ doomed' = {RowAt(s) : s \in {q \in Slot : tlb.slot[q].page < PerSection}}
        \/ ResetTlb(ok) /\ doomed' = Readable
        \/ /\ \/ \E t \in Times, p \in Page : SetSlot(t, p, ok)
              \/ \E erased \in BOOLEAN : Rebuild(ok, erased)
              \/ SetCount(ok) \/ SetRow(ok) \/ SetNoSlot
              \/ RebuildNext(ok) \/ RebuildCount(ok) \/ RebuildRow(ok) \/ RebuildDone(ok)
              \/ Restart
           /\ doomed' = {}

FlashSpec == FlashInit /\ [][FlashNext]_flashVars

--------------------------------------------------------------------------------
Table == INSTANCE FpTable WITH
    rows <- Readable, asked <- doomed, spoilt <- spoilt, twice <- torn,
    Rows <- [time : Times, id : 1 .. MaxPuts]

(* The flash keeps the promise of the table through rebuilds and restarts: *)
(* a row is readable from the write of its page until it is deleted, and   *)
(* rows are lost, or come back, only when a restart falls into a rebuild   *)
(* or a reset, an access fails, or a row was put outside the section.      *)
FlashIsTable == Table!TableSpec

(* Two slots never show one row, so no command runs twice, unless one of   *)
(* those faults happened, or a restart fell between the writes of a slot   *)
(* and of the count to FRAM.                                               *)
RowsOnce ==
    ~spoilt /\ ~torn => \A s, q \in Slot :
        s # q /\ tlb.slot[s] # Free /\ tlb.slot[q] # Free /\ RowAt(s).id > 0
            => RowAt(s).id # RowAt(q).id

(* The comment of flight_plan_rebuild_tlb: up to 512 rows are put before   *)
(* the section is rebuilt, so that all of them lie in it.                  *)
InSection == tlb.used <= PerSection

================================================================================
