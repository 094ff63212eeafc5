---------------------------- MODULE FlightPlanProofs ----------------------------
(***************************************************************************)
(* Proofs about FlightPlan: for a table of any size, any number of         *)
(* entries, any requests and any interleaving of the task with the ground  *)
(* commands.                                                               *)
(***************************************************************************)
EXTENDS FlightPlan, FiniteSetTheorems, WellFoundedInduction, TLAPS

(* The first slot of a non-empty set is one of its slots. *)
LEMMA FirstIsIn == ASSUME NEW S \in SUBSET Nat, S # {} PROVE First(S) \in S
<1>1. IsWellFoundedOn(OpToRel(<, Nat), Nat)
  BY NatLessThanWellFounded
<1>2. \E x \in S : \A y \in S : ~(<<y, x>> \in OpToRel(<, Nat))
  BY <1>1, WFMin, Zenon
<1>3. PICK x \in S : \A y \in S : ~(<<y, x>> \in OpToRel(<, Nat))
  BY <1>2
<1>4. \A y \in S : ~(y < x)
  BY <1>3 DEF OpToRel
<1>5. \A y \in S : x <= y
  BY <1>4
<1>6. \E z \in S : \A y \in S : z <= y
  BY <1>5
<1> QED
  BY <1>6, Zenon DEF First

LEMMA SlotFound == \A t : SlotsAt(t) # {} => First(SlotsAt(t)) \in SlotsAt(t)
  BY FirstIsIn, FlightPlanAssumption DEF SlotsAt, Index

(* The actions, without the quantifiers of Next. *)
LEMMA NextCases ==
    ASSUME [Next]_vars
    PROVE  \/ \E p \in Procs : SetRead(p) \/ SetStore(p) \/ SetCount(p)
           \/ \E p \in Procs : TakeRead(p) \/ TakeDelete(p) \/ TakeCount(p)
           \/ TaskWake \/ TakeEntry \/ TaskAgain \/ TaskSend
           \/ \E d \in Ids, r \in Requests : FpSet(d, r)
           \/ \E t \in Deletes : FpDelete(t)
           \/ FpReset \/ ResetCount \/ FpPurge \/ PurgeRead \/ PurgeDelete \/ PurgeCount
           \/ Tick
           \/ UNCHANGED vars
  BY DEF Next, Step

--------------------------------------------------------------------------------
(* Type correctness *)

(* What the locals of a function satisfy where they are used. *)
LocalInv ==
    /\ pc["fp"] = "again" => row["fp"].executions > 1 /\ row["fp"].periodical > 0
    /\ pc["cmd"] = "purge_delete" => i < Slots
    /\ fp_entries <= i

TypeInv == TypeOK /\ LocalInv

LEMMA ClearIsEntry == Clear \in Entry
  BY DEF Clear, Entry, ST_FP_NULL

LEMMA EntryFields ==
    \A e \in Entry : /\ e.id \in Ids \cup {NoId}
                     /\ e.executions \in Nat
                     /\ e.periodical \in Nat
  BY DEF Entry

(* The records that the actions build are entries. *)
LEMMA EntryForms ==
    /\ \A t \in Nat : [Clear EXCEPT !.unixtime = t] \in Entry
    /\ \A e \in Entry, t \in Nat : [e EXCEPT !.since = t] \in Entry
    /\ \A d \in Ids, t \in Nat, n \in Nat, m \in Nat :
          [id |-> d, unixtime |-> t, executions |-> n, periodical |-> m, since |-> 0] \in Entry
  BY DEF Clear, Entry

LEMMA TypeInit == Init => TypeInv
<1> SUFFICES ASSUME Init PROVE TypeInv
  OBVIOUS
<1>1. db \in [Index -> Entry] /\ asked \in [Ids -> Entry] /\ row \in [Procs -> Entry]
  BY ClearIsEntry DEF Init
<1>2. pc \in [Procs -> Steps] /\ entries \in [Procs -> Int] /\ runs \in [Ids -> Seq(Nat)]
  BY DEF Init, Steps
<1>3. pc["fp"] = "idle" /\ pc["cmd"] = "idle"
  BY DEF Init, Procs
<1>4. served \in BOOLEAN /\ removed \subseteq Ids \cup {NoId}
      /\ seen \subseteq {"overlap", "missed", "reset"}
  BY DEF Init
<1> QED
  BY <1>1, <1>2, <1>3, <1>4, FlightPlanAssumption DEF Init, TypeInv, TypeOK, LocalInv

LEMMA TypeNext == TypeInv /\ [Next]_vars => TypeInv'
<1> SUFFICES ASSUME TypeInv, [Next]_vars PROVE TypeInv'
  OBVIOUS
<1> USE FlightPlanAssumption, ClearIsEntry
    DEF TypeInv, TypeOK, LocalInv, Procs, Steps, Goto, ReturnTo, AfterSet, AfterTake,
        status, purge, history
<1>1. ASSUME NEW p \in Procs, SetRead(p) PROVE TypeInv'
  BY <1>1 DEF SetRead
<1>2. ASSUME NEW p \in Procs, SetStore(p) PROVE TypeInv'
  <2>1. [row[p] EXCEPT !.since = now] \in Entry
    BY EntryForms
  <2>2. db' \in [Index -> Entry]
    BY ZenonT(60), <1>2, <2>1 DEF SetStore
  <2>3. asked' \in [Ids -> Entry]
    <3>1. asked' = asked \/ asked' = [asked EXCEPT ![row[p].id] = row[p]]
      BY <1>2, Zenon DEF SetStore
    <3> QED
      BY <3>1
  <2>4. pc' \in [Procs -> Steps] /\ entries' \in [Procs -> Int] /\ row' \in [Procs -> Entry]
        /\ sec' \in Nat
    BY SMTT(60), <1>2 DEF SetStore
  <2>5. LocalInv'
    BY SMTT(60), <1>2 DEF SetStore
  <2> QED
    BY <1>2, <2>2, <2>3, <2>4, <2>5 DEF SetStore
<1>3. ASSUME NEW p \in Procs, SetCount(p) PROVE TypeInv'
  BY <1>3 DEF SetCount
<1>4. ASSUME NEW p \in Procs, TakeRead(p) PROVE TypeInv'
  BY <1>4 DEF TakeRead
<1>5. ASSUME NEW p \in Procs, TakeDelete(p) PROVE TypeInv'
  <2>1. SlotsAt(row[p].unixtime) # {} => First(SlotsAt(row[p].unixtime)) \in Index
    BY ZenonT(60), SlotFound DEF SlotsAt
  <2>2. db' \in [Index -> Entry]
    BY SMTT(60), <1>5 DEF TakeDelete, DeleteRow
  <2>3. row' \in [Procs -> Entry]
    BY SMTT(60), <1>5 DEF TakeDelete
  <2>4. removed' \subseteq Ids \cup {NoId}
    <3>1. \A e \in Entry : e.id \in Ids \cup {NoId}
      BY DEF Entry
    <3> QED
      BY SMTT(60), <1>5, <2>1, <3>1 DEF TakeDelete
  <2>5. pc' \in [Procs -> Steps] /\ entries' \in [Procs -> Int] /\ sec' \in Nat
    BY <1>5 DEF TakeDelete
  <2>6. LocalInv'
    BY <1>5 DEF TakeDelete
  <2> QED
    BY <1>5, <2>2, <2>3, <2>4, <2>5, <2>6 DEF TakeDelete
<1>20. CASE TakeEntry
  <2>1. SlotsAt(row["fp"].unixtime) # {} => First(SlotsAt(row["fp"].unixtime)) \in Index
    BY ZenonT(60), SlotFound DEF SlotsAt
  <2>2. row' \in [Procs -> Entry]
    BY SMTT(60), <1>20, <2>1 DEF TakeEntry
  <2>3. pc' \in [Procs -> Steps] /\ entries' \in [Procs -> Int] /\ sec' \in Nat
    BY <1>20 DEF TakeEntry
  <2>4. LocalInv'
    BY <1>20 DEF TakeEntry
  <2> QED
    BY <1>20, <2>2, <2>3, <2>4 DEF TakeEntry
<1>6. ASSUME NEW p \in Procs, TakeCount(p) PROVE TypeInv'
  BY <1>6 DEF TakeCount
<1>7. CASE TaskWake
  BY <1>7 DEF TaskWake, Overlap, Clear, Entry
<1>8. CASE TaskAgain
  <2>1. row["fp"].executions - 1 \in Nat /\ NextTime \in Nat
    <3>1. row["fp"] \in Entry /\ row["fp"].executions > 1
      BY <1>8 DEF TaskAgain
    <3> QED
      BY <3>1, EntryFields DEF NextTime
  <2>2. [[row["fp"] EXCEPT !.unixtime = NextTime] EXCEPT !.executions = @ - 1] \in Entry
    BY ZenonT(60), <2>1 DEF Entry
  <2>3. row' \in [Procs -> Entry]
    BY ZenonT(60), <1>8, <2>1, <2>2 DEF TaskAgain, Entry
  <2> QED
    BY <1>8, <2>3 DEF TaskAgain
<1>9. CASE TaskSend
  <2>1. runs' \in [Ids -> Seq(Nat)]
    <3>1. runs' = [runs EXCEPT ![row["fp"].id] = Append(runs[row["fp"].id], sec)]
      BY <1>9, Zenon DEF TaskSend
    <3>2. row["fp"].id \in Ids => Append(runs[row["fp"].id], sec) \in Seq(Nat)
      OBVIOUS
    <3> QED
      BY <3>1, <3>2
  <2> QED
    BY <1>9, <2>1 DEF TaskSend
<1>10. ASSUME NEW d \in Ids, NEW r \in Requests, FpSet(d, r) PROVE TypeInv'
  <2>1. r.wait \in Nat /\ r.executions \in Nat /\ r.periodical \in Nat
    OBVIOUS
  <2>2. row' \in [Procs -> Entry]
    <3> DEFINE e == [id |-> d, unixtime |-> now + r.wait, executions |-> r.executions,
                     periodical |-> r.periodical, since |-> 0]
    <3>0. now + r.wait \in Nat
      BY <2>1
    <3>1. e \in Entry
      BY <2>1, <3>0, EntryForms, Zenon
    <3>2. row' = [row EXCEPT !["cmd"] = e]
      BY <1>10, Zenon DEF FpSet
    <3> HIDE DEF e
    <3> QED
      BY <3>1, <3>2
  <2>3. pc' \in [Procs -> Steps] /\ seen' \subseteq {"overlap", "missed", "reset"}
    BY <1>10 DEF FpSet, Overlap
  <2> QED
    BY <1>10, <2>2, <2>3 DEF FpSet, CmdIdle
<1>11. ASSUME NEW t \in Deletes, FpDelete(t) PROVE TypeInv'
  BY <1>11 DEF FpDelete, CmdIdle, Overlap, Clear, Entry
<1>12. CASE FpReset
  <2>1. db' \in [Index -> Entry] /\ db[0].id \in Ids \cup {NoId}
    <3>1. 0 \in Index /\ db' = [db EXCEPT ![0] = Clear]
      BY <1>12 DEF FpReset, ResetTable, DeleteRow, Index
    <3> QED
      BY <3>1, EntryFields
  <2>2. removed' \subseteq Ids \cup {NoId} /\ seen' \subseteq {"overlap", "missed", "reset"}
    BY <1>12, <2>1 DEF FpReset, Overlap
  <2> QED
    BY <1>12, <2>1, <2>2 DEF FpReset, CmdIdle
<1>13. CASE ResetCount
  BY <1>13 DEF ResetCount
<1>14. CASE FpPurge
  BY <1>14 DEF FpPurge, CmdIdle, Overlap
<1>15. CASE PurgeRead
  BY <1>15 DEF PurgeRead, Future
<1>16. CASE PurgeDelete
  <2>1. db' \in [Index -> Entry] /\ db[i].id \in Ids \cup {NoId}
    <3>1. i \in Index /\ db' = [db EXCEPT ![i] = Clear]
      BY <1>16 DEF PurgeDelete, DeleteRow, Index
    <3> QED
      BY <3>1, EntryFields
  <2>2. removed' \subseteq Ids \cup {NoId}
    BY <1>16, <2>1 DEF PurgeDelete
  <2> QED
    BY <1>16, <2>1, <2>2 DEF PurgeDelete
<1>17. CASE PurgeCount
  BY <1>17 DEF PurgeCount
<1>18. CASE Tick
  <2>0. seen' = seen \/ seen' = seen \cup {"missed"}
    BY <1>18, Zenon DEF Tick
  <2>1. seen' \subseteq {"overlap", "missed", "reset"} /\ served' = FALSE /\ now' \in Nat
    BY <1>18, <2>0 DEF Tick
  <2> QED
    BY <1>18, <2>1 DEF Tick
<1>19. CASE UNCHANGED vars
  BY <1>19 DEF vars
<1> QED
  BY <1>1, <1>2, <1>3, <1>4, <1>5, <1>6, <1>7, <1>8, <1>9, <1>10, <1>11, <1>12, <1>13, <1>14, <1>15, <1>16, <1>17, <1>18, <1>19, <1>20, NextCases

--------------------------------------------------------------------------------
(* No entry is sent more often than asked *)

(* An entry is in one slot at most. *)
Unique == \A d \in Ids : \A s, r \in Holding(d) : s = r

(* What was sent and what may still be is within what was asked. *)
Bounded == \A d \in Ids : Len(runs[d]) + TableLeft(d) + HandLeft(d) <= AskedFor(d)

(* The entry in the hands of the task is out of the table until it is put  *)
(* back.                                                                   *)
OutOfTable ==
    row["fp"].id \in Ids /\ pc["fp"] \in {"take_count", "again", "set_read", "set_store"} =>
        Holding(row["fp"].id) = {}

(* fp_set stores an entry that was not stored before. *)
Fresh ==
    pc["cmd"] \in {"set_read", "set_store"} =>
        row["cmd"].id \in Ids /\ asked[row["cmd"].id] = Clear

(* The entry that the task has read is still the first of its second, or   *)
(* the purge has cleared its slot.                                         *)
ReadInv ==
    /\ pc["fp"] \in {"take_read", "take_entry", "take_delete"} => row["fp"].unixtime \in Nat
    /\ pc["fp"] = "take_delete" /\ row["fp"].id \in Ids =>
          \A s \in Holding(row["fp"].id) :
              db[s] = row["fp"] /\ s = First(SlotsAt(row["fp"].unixtime))

AskedInv == Unique /\ Bounded /\ OutOfTable /\ Fresh /\ ReadInv

(* Left and its sums are natural numbers. *)
LEMMA LeftType == \A e \in Entry : Left(e) \in Nat /\ Left(e) >= 1
  BY EntryFields DEF Left

LEMMA TableLeftIs ==
    ASSUME TypeInv, Unique, NEW d \in Ids
    PROVE  /\ \A s \in Holding(d) : TableLeft(d) = Left(db[s]) /\ TableLeft(d) >= 1
           /\ Holding(d) = {} => TableLeft(d) = 0
           /\ TableLeft(d) \in Nat
<1>1. ASSUME NEW s \in Holding(d)
      PROVE  TableLeft(d) = Left(db[s]) /\ TableLeft(d) \in Nat /\ TableLeft(d) >= 1
  <2>1. s \in Index /\ Holding(d) \in SUBSET Nat /\ db[s] \in Entry
    BY FlightPlanAssumption DEF Holding, Index, TypeInv, TypeOK
  <2>2. First(Holding(d)) = s
    BY <2>1, FirstIsIn DEF Unique
  <2> QED
    BY <2>1, <2>2, LeftType DEF TableLeft
<1>2. Holding(d) = {} => TableLeft(d) = 0
  BY DEF TableLeft
<1> QED
  BY <1>1, <1>2

LEMMA HandLeftType == ASSUME TypeInv, NEW d \in Ids PROVE HandLeft(d) \in Nat
<1>1. row["fp"] \in Entry
  BY DEF TypeInv, TypeOK, Procs
<1> QED
  BY <1>1, LeftType DEF HandLeft

LEMMA HandLeftNext == ASSUME TypeInv', NEW d \in Ids PROVE HandLeft(d)' \in Nat
<1>1. row'["fp"] \in Entry
  BY DEF TypeInv, TypeOK, Procs
<1> QED
  BY <1>1, LeftType DEF HandLeft

LEMMA HandHeld ==
    ASSUME TypeInv, pc["fp"] \in {"take_count", "again", "set_read", "set_store"}
    PROVE  HandLeft(row["fp"].id) >= 1
<1>1. row["fp"] \in Entry
  BY DEF TypeInv, TypeOK, Procs
<1>2. Left(row["fp"]) \in Nat /\ Left(row["fp"]) >= 1
  BY <1>1, LeftType
<1> QED
  BY <1>2 DEF HandLeft

(* A slot is cleared. *)
LEMMA TableDelete ==
    ASSUME TypeInv, TypeInv', Unique, NEW s \in Index, db' = [db EXCEPT ![s] = Clear]
    PROVE  /\ Unique'
           /\ \A d \in Ids : Holding(d)' = Holding(d) \ {s}
           /\ \A d \in Ids : TableLeft(d)' = IF db[s].id = d THEN 0 ELSE TableLeft(d)
<1>1. ASSUME NEW d \in Ids PROVE Holding(d)' = Holding(d) \ {s}
  BY FlightPlanAssumption DEF Holding, Clear, TypeInv, TypeOK
<1>2. Unique'
  BY <1>1 DEF Unique
<1>3. ASSUME NEW d \in Ids PROVE TableLeft(d)' = IF db[s].id = d THEN 0 ELSE TableLeft(d)
  <2>1. CASE db[s].id = d
    <3>1. s \in Holding(d)
      BY <2>1 DEF Holding
    <3>2. Holding(d)' = {}
      BY <1>1, <3>1 DEF Unique
    <3> QED
      BY <2>1, <3>2 DEF TableLeft
  <2>2. CASE db[s].id # d
    <3>1. Holding(d)' = Holding(d)
      BY <1>1, <2>2 DEF Holding
    <3>2. ASSUME NEW q \in Holding(d) PROVE db'[q] = db[q]
      BY <2>2, <3>2 DEF Holding, TypeInv, TypeOK
    <3>3. CASE Holding(d) = {}
      BY <2>2, <3>1, <3>3 DEF TableLeft
    <3>4. CASE Holding(d) # {}
      <4>1. PICK q \in Holding(d) : TRUE
        BY <3>4
      <4>2. Holding(d) = {q} /\ Holding(d)' = {q} /\ q \in Nat
        BY <3>1, <4>1, FlightPlanAssumption DEF Unique, Holding, Index
      <4>3. First({q}) = q
        BY <4>2, FirstIsIn
      <4>4. TableLeft(d)' = TableLeft(d)
        BY <3>2, <4>1, <4>2, <4>3 DEF TableLeft
      <4> QED
        BY <2>2, <4>4
    <3> QED
      BY <3>3, <3>4
  <2> QED
    BY <2>1, <2>2
<1> QED
  BY <1>1, <1>2, <1>3

(* An entry that is in no slot is stored in one. *)
LEMMA TableStore ==
    ASSUME TypeInv, TypeInv', Unique, NEW s \in Index, NEW e \in Entry, NEW c \in Ids,
           db' = [db EXCEPT ![s] = e], e.id = c, Holding(c) = {}
    PROVE  /\ Unique'
           /\ Holding(c)' = {s}
           /\ TableLeft(c)' = Left(e)
           /\ \A d \in Ids \ {c} : Holding(d)' = Holding(d) \ {s}
           /\ \A d \in Ids \ {c} : TableLeft(d)' \in Nat /\ TableLeft(d)' <= TableLeft(d)
<1>1. Holding(c)' = {s}
  BY DEF Holding, TypeInv, TypeOK
<1>2. ASSUME NEW d \in Ids \ {c} PROVE Holding(d)' = Holding(d) \ {s}
  BY DEF Holding, TypeInv, TypeOK
<1>3. Unique'
  BY <1>1, <1>2 DEF Unique
<1>4. TableLeft(c)' = Left(e)
  <2>1. First({s}) = s
    BY FirstIsIn, FlightPlanAssumption DEF Index
  <2> QED
    BY <1>1, <2>1 DEF TableLeft, TypeInv, TypeOK
<1>5. ASSUME NEW d \in Ids \ {c} PROVE TableLeft(d)' \in Nat /\ TableLeft(d)' <= TableLeft(d)
  <2>1. CASE Holding(d)' = {}
    BY <2>1, TableLeftIs DEF TableLeft
  <2>2. CASE Holding(d)' # {}
    <3>1. PICK q \in Holding(d)' : TRUE
      BY <2>2
    <3>2. q \in Holding(d) /\ q # s /\ q \in Index
      BY <1>2, <3>1 DEF Holding
    <3>3. db'[q] = db[q]
      BY <3>2
    <3>4. Holding(d)' = Holding(d) /\ Holding(d) = {q}
      BY <1>2, <3>2 DEF Unique
    <3>5. First({q}) = q
      BY <3>2, FirstIsIn, FlightPlanAssumption DEF Index
    <3>6. TableLeft(d)' = TableLeft(d)
      BY <3>3, <3>4, <3>5 DEF TableLeft
    <3> QED
      BY <3>6, TableLeftIs
  <2> QED
    BY <2>1, <2>2
<1> QED
  BY <1>1, <1>2, <1>3, <1>4, <1>5

(* The table is left alone. *)
LEMMA TableSame ==
    ASSUME UNCHANGED db
    PROVE  /\ Unique => Unique'
           /\ \A d : Holding(d)' = Holding(d) /\ TableLeft(d)' = TableLeft(d)
<1>1. \A d : Holding(d)' = Holding(d)
  BY DEF Holding
<1>2. \A d : TableLeft(d)' = TableLeft(d)
  BY <1>1 DEF TableLeft
<1> QED
  BY <1>1, <1>2 DEF Unique

(* So are the sums, if what the task holds does not grow. *)
LEMMA BoundedSame ==
    ASSUME TypeInv, TypeInv', Unique, Bounded, UNCHANGED <<db, runs, asked>>,
           \A d \in Ids : HandLeft(d)' <= HandLeft(d)
    PROVE  Bounded'
<1> SUFFICES ASSUME NEW d \in Ids
             PROVE  Len(runs'[d]) + TableLeft(d)' + HandLeft(d)' <= AskedFor(d)'
  BY DEF Bounded
<1>1. TableLeft(d)' = TableLeft(d) /\ AskedFor(d)' = AskedFor(d)
  BY TableSame DEF AskedFor
<1>2. TableLeft(d) \in Nat /\ HandLeft(d) \in Nat /\ Len(runs[d]) \in Nat
  BY SMTT(60), TableLeftIs, HandLeftType DEF TypeInv, TypeOK
<1>3. HandLeft(d)' \in Nat
  <2>1. row'["fp"] \in Entry
    BY DEF TypeInv, TypeOK, Procs
  <2> QED
    BY <2>1, LeftType DEF HandLeft
<1>4. AskedFor(d) \in Nat /\ Len(runs[d]) + TableLeft(d) + HandLeft(d) <= AskedFor(d)
  BY LeftType DEF AskedFor, Bounded, TypeInv, TypeOK
<1>5. HandLeft(d)' <= HandLeft(d) /\ runs' = runs
  OBVIOUS
<1> QED
  BY <1>1, <1>2, <1>3, <1>4, <1>5

(* The numbers that a sum is made of. *)
LEMMA Sums ==
    ASSUME TypeInv, Unique, Bounded, NEW d \in Ids
    PROVE  /\ Len(runs[d]) \in Nat /\ TableLeft(d) \in Nat /\ HandLeft(d) \in Nat
           /\ AskedFor(d) \in Nat
           /\ Len(runs[d]) + TableLeft(d) + HandLeft(d) <= AskedFor(d)
<1>1. Len(runs[d]) \in Nat
  BY DEF TypeInv, TypeOK
<1>2. AskedFor(d) \in Nat
  BY LeftType DEF AskedFor, TypeInv, TypeOK
<1> QED
  BY <1>1, <1>2, TableLeftIs, HandLeftType DEF Bounded

(* Steps of the task or of a command that leave the table and the history  *)
(* alone.                                                                  *)
LEMMA QuietStep ==
    ASSUME TypeInv, TypeInv', AskedInv, UNCHANGED <<db, runs, asked>>,
           \A d \in Ids : HandLeft(d)' <= HandLeft(d),
           OutOfTable', Fresh', ReadInv'
    PROVE  AskedInv'
  BY BoundedSame, TableSame DEF AskedInv

(* The task does not move. *)
TaskStays == pc'["fp"] = pc["fp"] /\ row'["fp"] = row["fp"]

LEMMA HandSame ==
    ASSUME TypeInv, TaskStays, NEW d \in Ids, pc["fp"] # "take_delete" \/ UNCHANGED db
    PROVE  HandLeft(d)' = HandLeft(d)
<1>1. CASE pc["fp"] # "take_delete"
  BY <1>1 DEF TaskStays, HandLeft
<1>2. CASE UNCHANGED db
  <2>1. Holding(d)' = Holding(d)
    BY <1>2 DEF Holding
  <2> QED
    BY <2>1 DEF TaskStays, HandLeft
<1> QED
  BY <1>1, <1>2

LEMMA CommandQuiet ==
    ASSUME TypeInv, TypeInv', AskedInv, UNCHANGED <<db, runs, asked>>, TaskStays, Fresh'
    PROVE  AskedInv'
<1>1. \A d \in Ids : HandLeft(d)' <= HandLeft(d)
  BY HandSame, HandLeftType
<1>2. OutOfTable'
  BY TableSame DEF TaskStays, OutOfTable, AskedInv
<1>3. ReadInv'
  BY DEF TaskStays, ReadInv, AskedInv, Holding, SlotsAt
<1> QED
  BY <1>1, <1>2, <1>3, QuietStep

(* The first slot stays the first when another one leaves. *)
LEMMA FirstStays ==
    ASSUME NEW S \in SUBSET Nat, NEW r \in S, r # First(S)
    PROVE  First(S \ {r}) = First(S)
<1>1. IsWellFoundedOn(OpToRel(<, Nat), Nat)
  BY NatLessThanWellFounded
<1>2. \E x \in S : \A y \in S : ~(<<y, x>> \in OpToRel(<, Nat))
  BY <1>1, WFMin, Zenon
<1>3. PICK x \in S : \A y \in S : ~(<<y, x>> \in OpToRel(<, Nat))
  BY <1>2
<1>9. \A y \in S : ~(y < x)
  BY <1>3 DEF OpToRel
<1>4. \A y \in S : x <= y
  BY <1>9
<1>5. First(S) \in S /\ \A y \in S : First(S) <= y
  BY <1>4, Zenon DEF First
<1>6. First(S) \in S \ {r} /\ \A y \in S \ {r} : First(S) <= y
  BY <1>5
<1>7. First(S \ {r}) \in S \ {r} /\ \A y \in S \ {r} : First(S \ {r}) <= y
  BY <1>6, Zenon DEF First
<1>8. First(S) <= First(S \ {r}) /\ First(S \ {r}) <= First(S)
  BY <1>6, <1>7
<1>10. \A m, n \in Nat : m <= n /\ n <= m => m = n
  OBVIOUS
<1>11. First(S) \in Nat /\ First(S \ {r}) \in Nat
  BY <1>5, <1>7
<1> QED
  BY <1>8, <1>10, <1>11

(* A command clears a slot: what the task has read of it is in its hands. *)
LEMMA HandCleared ==
    ASSUME TypeInv, TypeInv', AskedInv, NEW s \in Index, db' = [db EXCEPT ![s] = Clear],
           TaskStays, NEW d \in Ids
    PROVE  TableLeft(d)' + HandLeft(d)' <= TableLeft(d) + HandLeft(d)
<1> USE DEF AskedInv
<1>1. /\ Holding(d)' = Holding(d) \ {s}
      /\ TableLeft(d)' = IF db[s].id = d THEN 0 ELSE TableLeft(d)
      /\ TableLeft(d) \in Nat /\ HandLeft(d) \in Nat
      /\ row["fp"] \in Entry /\ Left(row["fp"]) \in Nat
  BY TableDelete, Sums, LeftType DEF TypeInv, TypeOK, Procs
<1>2. CASE pc["fp"] # "take_delete"
  BY <1>1, <1>2, HandSame
<1>3. CASE pc["fp"] = "take_delete" /\ row["fp"].id # d
  BY <1>1, <1>3 DEF HandLeft, TaskStays
<1>4. CASE pc["fp"] = "take_delete" /\ row["fp"].id = d /\ s \in Holding(d)
  <2>1. db[s] = row["fp"] /\ TableLeft(d) = Left(row["fp"])
    BY <1>4, TableLeftIs DEF ReadInv
  <2>2. Holding(d)' = {} /\ TableLeft(d)' = 0
    BY <1>1, <1>4 DEF Unique, Holding
  <2>3. HandLeft(d)' = Left(row["fp"])
    BY <1>4, <2>2 DEF HandLeft, TaskStays
  <2> QED
    BY <1>1, <2>1, <2>2, <2>3
<1>5. CASE pc["fp"] = "take_delete" /\ row["fp"].id = d /\ s \notin Holding(d)
  <2>1. Holding(d)' = Holding(d)
    BY <1>1, <1>5
  <2>2. HandLeft(d)' = HandLeft(d)
    BY <1>5, <2>1 DEF HandLeft, TaskStays
  <2> QED
    BY <1>1, <2>2
<1> QED
  BY <1>2, <1>3, <1>4, <1>5

LEMMA CommandDeletes ==
    ASSUME TypeInv, TypeInv', AskedInv, NEW s \in Index, db' = [db EXCEPT ![s] = Clear],
           UNCHANGED <<runs, asked>>, TaskStays, Fresh'
    PROVE  AskedInv'
<1> USE DEF AskedInv
<1>1. Unique'
  BY TableDelete
<1>2. ASSUME NEW d \in Ids
      PROVE  Len(runs'[d]) + TableLeft(d)' + HandLeft(d)' <= AskedFor(d)'
  <2>1. TableLeft(d)' + HandLeft(d)' <= TableLeft(d) + HandLeft(d)
    BY HandCleared
  <2>2. AskedFor(d)' = AskedFor(d) /\ runs' = runs
    BY DEF AskedFor
  <2>3. TableLeft(d)' \in Nat /\ HandLeft(d)' \in Nat
    <3>1. TableLeft(d)' = 0 \/ TableLeft(d)' = TableLeft(d)
      BY TableDelete
    <3> QED
      BY <3>1, Sums, HandLeftNext
  <2>4. /\ Len(runs[d]) \in Nat /\ TableLeft(d) \in Nat /\ HandLeft(d) \in Nat
        /\ AskedFor(d) \in Nat
        /\ Len(runs[d]) + TableLeft(d) + HandLeft(d) <= AskedFor(d)
    BY Sums
  <2> QED
    BY SMTT(60), <2>1, <2>2, <2>3, <2>4
<1>3. OutOfTable'
  BY TableDelete DEF TaskStays, OutOfTable
<1>4. ReadInv'
  <2>1. /\ row' \in [Procs -> Entry] /\ row'["fp"] = row["fp"] /\ pc'["fp"] = pc["fp"]
    BY DEF TaskStays, TypeInv, TypeOK
  <2>2. ASSUME pc["fp"] = "take_delete", row["fp"].id \in Ids, NEW r \in Holding(row["fp"].id)'
        PROVE  db'[r] = row["fp"] /\ r = First(SlotsAt(row["fp"].unixtime))'
    <3>1. r \in Holding(row["fp"].id) /\ r # s
      BY ZenonT(60), <2>1, <2>2, TableDelete
    <3>2. db'[r] = db[r] /\ db[r] = row["fp"] /\ r = First(SlotsAt(row["fp"].unixtime))
      BY <2>2, <3>1 DEF ReadInv, Holding, TypeInv, TypeOK
    <3>3. row["fp"].unixtime \in Nat
      BY <2>2 DEF ReadInv
    <3>4. SlotsAt(row["fp"].unixtime)' = SlotsAt(row["fp"].unixtime) \ {s}
      BY SMTT(60), <2>1, <3>3 DEF SlotsAt, Clear, ST_FP_NULL, TypeInv, TypeOK
    <3>5. SlotsAt(row["fp"].unixtime) \in SUBSET Nat
      BY FlightPlanAssumption DEF SlotsAt, Index
    <3>6. First(SlotsAt(row["fp"].unixtime) \ {s}) = First(SlotsAt(row["fp"].unixtime))
      <4>1. CASE s \in SlotsAt(row["fp"].unixtime)
        BY <3>1, <3>2, <3>5, <4>1, FirstStays
      <4>2. CASE s \notin SlotsAt(row["fp"].unixtime)
        <5>1. SlotsAt(row["fp"].unixtime) \ {s} = SlotsAt(row["fp"].unixtime)
          BY <4>2
        <5> QED
          BY <5>1
      <4> QED
        BY <4>1, <4>2
    <3> QED
      BY <3>2, <3>4, <3>6
  <2> QED
    BY <2>1, <2>2 DEF ReadInv
<1> QED
  BY <1>1, <1>2, <1>3, <1>4 DEF Bounded

LEMMA AskedInit == Init => AskedInv
<1> SUFFICES ASSUME Init PROVE AskedInv
  OBVIOUS
<1>1. \A d \in Ids : Holding(d) = {}
  BY FlightPlanAssumption DEF Init, Holding, Clear
<1>2. pc["fp"] = "idle" /\ pc["cmd"] = "idle" /\ row["fp"].id = NoId
  BY DEF Init, Procs, Clear
<1>3. \A d \in Ids : TableLeft(d) = 0 /\ HandLeft(d) = 0 /\ Len(runs[d]) = 0
  BY <1>1, <1>2, FlightPlanAssumption DEF TableLeft, HandLeft, Init
<1>4. \A d \in Ids : AskedFor(d) = 0
  BY DEF AskedFor, Init
<1> QED
  BY <1>1, <1>2, <1>3, <1>4 DEF AskedInv, Unique, Bounded, OutOfTable, Fresh, ReadInv

(* The command stores its entry. *)
LEMMA CommandStores ==
    ASSUME TypeInv, TypeInv', AskedInv, SetStore("cmd") PROVE AskedInv'
<1> USE FlightPlanAssumption DEF AskedInv, TypeInv, TypeOK, Procs
<1>0. pc["fp"] # "take_delete"
  BY DEF SetStore, SemFree
<1>1. CASE SlotsAt(ST_FP_NULL) = {}
  <2>1. UNCHANGED <<db, runs, asked>>
    BY <1>1 DEF SetStore
  <2>2. TaskStays
    BY SMTT(60), <1>1 DEF SetStore, AfterSet, ReturnTo, Goto, TaskStays
  <2>3. Fresh'
    BY <1>1 DEF SetStore, AfterSet, ReturnTo, Goto, Fresh
  <2> QED
    BY <2>1, <2>2, <2>3, CommandQuiet
<1>2. CASE SlotsAt(ST_FP_NULL) # {}
  <2> DEFINE s == First(SlotsAt(ST_FP_NULL))
             e == [row["cmd"] EXCEPT !.since = now]
             d == row["cmd"].id
  <2>1. s \in Index
    BY <1>2, SlotFound DEF SlotsAt
  <2>2. d \in Ids /\ asked[d] = Clear
    BY DEF SetStore, Fresh
  <2>3. e \in Entry /\ e.id = d /\ Left(e) = Left(row["cmd"])
    BY ZenonT(60), EntryForms DEF Left, Entry
  <2>4. /\ db' = [db EXCEPT ![s] = e]
        /\ asked' = [asked EXCEPT ![d] = row["cmd"]]
        /\ pc' = [pc EXCEPT !["cmd"] = "set_count"]
        /\ UNCHANGED <<row, runs>>
    BY <1>2 DEF SetStore, Goto
  <2> HIDE DEF s, e
  <2>5. TaskStays
    BY <2>4 DEF TaskStays
  <2>6. Len(runs[d]) = 0 /\ TableLeft(d) = 0 /\ HandLeft(d) = 0 /\ Holding(d) = {}
    <3>1. AskedFor(d) = 0
      BY <2>2 DEF AskedFor
    <3>2. Len(runs[d]) = 0 /\ TableLeft(d) = 0 /\ HandLeft(d) = 0
      BY <2>2, <3>1, Sums, SMTT(60)
    <3> QED
      BY SMTT(60), <2>2, <3>2, TableLeftIs
  <2>7. /\ Unique'
        /\ Holding(d)' = {s}
        /\ TableLeft(d)' = Left(e)
        /\ \A c \in Ids \ {d} : Holding(c)' = Holding(c) \ {s}
        /\ \A c \in Ids \ {d} : TableLeft(c)' \in Nat /\ TableLeft(c)' <= TableLeft(c)
    BY ZenonT(60), <2>1, <2>2, <2>3, <2>4, <2>6, TableStore
  <2>8. ASSUME NEW c \in Ids PROVE Len(runs'[c]) + TableLeft(c)' + HandLeft(c)' <= AskedFor(c)'
    <3>1. HandLeft(c)' = HandLeft(c)
      BY <1>0, <2>5, HandSame
    <3>2. CASE c = d
      <4>1. AskedFor(c)' = Left(row["cmd"])
        <5>1. asked'[d] = row["cmd"] /\ row["cmd"] # Clear
          BY SMTT(60), <2>2, <2>4 DEF Clear
        <5> QED
          BY <3>2, <5>1 DEF AskedFor
      <4>2. Left(row["cmd"]) \in Nat
        BY LeftType
      <4> QED
        BY SMTT(60), <2>3, <2>4, <2>6, <2>7, <3>1, <3>2, <4>1, <4>2
    <3>3. CASE c # d
      <4>1. AskedFor(c)' = AskedFor(c)
        BY <2>4, <3>3 DEF AskedFor
      <4>2. TableLeft(c)' \in Nat /\ TableLeft(c)' <= TableLeft(c) /\ runs' = runs
        BY <2>4, <2>7, <3>3
      <4> QED
        <5>1. /\ Len(runs[c]) \in Nat /\ TableLeft(c) \in Nat /\ HandLeft(c) \in Nat
              /\ AskedFor(c) \in Nat
              /\ Len(runs[c]) + TableLeft(c) + HandLeft(c) <= AskedFor(c)
          BY Sums
        <5> HIDE DEF TypeInv, AskedInv
        <5> QED
          BY SMTT(60), <3>1, <4>1, <4>2, <5>1
    <3> QED
      BY <3>2, <3>3
  <2>9. OutOfTable'
    <3> SUFFICES ASSUME row["fp"].id \in Ids,
                        pc["fp"] \in {"take_count", "again", "set_read", "set_store"}
                 PROVE  \A c : c = row["fp"].id => Holding(c)' = {}
      BY <2>5 DEF OutOfTable, TaskStays
    <3>1. Holding(row["fp"].id) = {} /\ HandLeft(row["fp"].id) >= 1
      BY HandHeld DEF OutOfTable
    <3>2. row["fp"].id # d
      BY <2>6, <3>1
    <3> QED
      BY SMTT(60), <2>7, <3>1, <3>2
  <2>10. Fresh'
    BY <2>4 DEF Fresh
  <2>11. ReadInv'
    BY <1>0, <2>5 DEF ReadInv, TaskStays
  <2> QED
    BY <2>7, <2>8, <2>9, <2>10, <2>11 DEF Bounded
<1> QED
  BY <1>1, <1>2

(* The task puts a periodic entry back. *)
LEMMA TaskStores ==
    ASSUME TypeInv, TypeInv', AskedInv, SetStore("fp") PROVE AskedInv'
<1> PICK d : d = row["fp"].id
  OBVIOUS
<1>0. /\ row["fp"] \in Entry /\ Left(row["fp"]) \in Nat /\ d \in Ids \cup {NoId}
      /\ pc["fp"] = "set_store"
  BY LeftType, EntryFields DEF TypeInv, TypeOK, Procs, SetStore
<1>1. pc'["cmd"] = pc["cmd"] /\ row'["cmd"] = row["cmd"] /\ UNCHANGED <<asked, runs>>
  BY DEF SetStore, ReturnTo, Goto, AfterSet, TypeInv, TypeOK, Procs
<1>2. Fresh'
  BY <1>1 DEF Fresh, AskedInv
<1>5. ReadInv'
  BY DEF SetStore, ReturnTo, Goto, AfterSet, TypeInv, TypeOK, Procs, ReadInv
<1>3. CASE SlotsAt(ST_FP_NULL) = {}
  <2>1. UNCHANGED db /\ pc'["fp"] = "send" /\ row'["fp"] = row["fp"]
    BY <1>3 DEF SetStore, ReturnTo, Goto, AfterSet, TypeInv, TypeOK, Procs
  <2>2. \A c \in Ids : HandLeft(c)' <= HandLeft(c)
    BY <1>0, <2>1 DEF HandLeft
  <2>3. OutOfTable'
    BY <2>1 DEF OutOfTable
  <2> QED
    BY <1>1, <1>2, <1>5, <2>1, <2>2, <2>3, QuietStep
<1>4. CASE SlotsAt(ST_FP_NULL) # {}
  <2> DEFINE s == First(SlotsAt(ST_FP_NULL))
             e == [row["fp"] EXCEPT !.since = now]
  <2>1. s \in Index
    BY <1>4, SlotFound DEF SlotsAt
  <2>2. e \in Entry /\ e.id = d /\ Left(e) = Left(row["fp"])
    BY ZenonT(60), EntryForms DEF Left, Entry, TypeInv, TypeOK, Procs
  <2>3. db' = [db EXCEPT ![s] = e] /\ pc'["fp"] = "set_count" /\ row' = row
    BY <1>4 DEF SetStore, Goto, TypeInv, TypeOK, Procs
  <2> HIDE DEF s, e
  <2>4. OutOfTable'
    BY <2>3 DEF OutOfTable
  <2>5. \A c \in Ids \ {d} : HandLeft(c) = 0 /\ HandLeft(c)' = 0
    BY <1>0, <2>3 DEF HandLeft
  <2>6. CASE d \in Ids
    <3>1. Holding(d) = {} /\ TableLeft(d) = 0
      BY <1>0, <2>6, TableLeftIs DEF OutOfTable, AskedInv
    <3>2. /\ Unique'
          /\ TableLeft(d)' = Left(e)
          /\ \A c \in Ids \ {d} : TableLeft(c)' \in Nat /\ TableLeft(c)' <= TableLeft(c)
      BY <2>1, <2>2, <2>3, <2>6, <3>1, TableStore DEF AskedInv
    <3>3. HandLeft(d) = 1 + Left(row["fp"]) /\ HandLeft(d)' = 1
      BY <1>0, <2>3, <2>6 DEF HandLeft
    <3>4. ASSUME NEW c \in Ids PROVE Len(runs'[c]) + TableLeft(c)' + HandLeft(c)' <= AskedFor(c)'
      <4>1. /\ Len(runs[c]) \in Nat /\ TableLeft(c) \in Nat /\ HandLeft(c) \in Nat
            /\ AskedFor(c) \in Nat
            /\ Len(runs[c]) + TableLeft(c) + HandLeft(c) <= AskedFor(c)
        BY Sums DEF AskedInv
      <4>2. runs' = runs /\ AskedFor(c)' = AskedFor(c)
        BY <1>1 DEF AskedFor
      <4>3. CASE c = d
        BY SMTT(60), <1>0, <2>2, <3>1, <3>2, <3>3, <4>1, <4>2, <4>3
      <4>4. CASE c # d
        BY <2>5, <3>2, <4>1, <4>2, <4>4
      <4> QED
        BY <4>3, <4>4
    <3> QED
      BY <1>2, <1>5, <2>4, <3>2, <3>4 DEF AskedInv, Bounded
  <2>7. CASE d \notin Ids
    <3>1. \A c \in Ids : Holding(c)' = Holding(c) \ {s}
      BY <2>1, <2>2, <2>3, <2>7 DEF Holding, TypeInv, TypeOK
    <3>2. Unique'
      BY <3>1 DEF Unique, AskedInv
    <3>3. ASSUME NEW c \in Ids PROVE Len(runs'[c]) + TableLeft(c)' + HandLeft(c)' <= AskedFor(c)'
      <4>1. /\ Len(runs[c]) \in Nat /\ TableLeft(c) \in Nat /\ HandLeft(c) \in Nat
            /\ AskedFor(c) \in Nat
            /\ Len(runs[c]) + TableLeft(c) + HandLeft(c) <= AskedFor(c)
        BY Sums DEF AskedInv
      <4>2. runs' = runs /\ AskedFor(c)' = AskedFor(c) /\ HandLeft(c)' = 0
        BY <1>1, <2>5, <2>7 DEF AskedFor
      <4>3. TableLeft(c)' = 0 \/ TableLeft(c)' = TableLeft(c)
        <5>1. CASE Holding(c)' = {}
          BY <5>1 DEF TableLeft
        <5>2. CASE Holding(c)' # {}
          <6>1. PICK q \in Holding(c)' : TRUE
            BY <5>2
          <6>2. q \in Holding(c) /\ q # s /\ q \in Index /\ q \in Nat
            BY <3>1, <6>1, FlightPlanAssumption DEF Holding, Index
          <6>3. db'[q] = db[q]
            BY <2>3, <6>2 DEF TypeInv, TypeOK
          <6>4. Holding(c)' = {q} /\ Holding(c) = {q}
            <7>1. \A r \in Holding(c) : r = q
              BY <6>2 DEF Unique, AskedInv
            <7>2. Holding(c) = {q}
              BY <6>2, <7>1
            <7> QED
              BY <3>1, <6>2, <7>2
          <6>5. First({q}) = q
            BY <6>2, FirstIsIn
          <6>6. TableLeft(c) = Left(db[q])
            BY <6>4, <6>5 DEF TableLeft
          <6>7. TableLeft(c)' = Left(db'[q])
            BY <6>4, <6>5 DEF TableLeft
          <6> QED
            BY <6>3, <6>6, <6>7
        <5> QED
          BY <5>1, <5>2
      <4> QED
        BY <4>1, <4>2, <4>3
    <3> QED
      BY <1>2, <1>5, <2>4, <3>2, <3>3 DEF AskedInv, Bounded
  <2> QED
    BY <2>6, <2>7
<1> QED
  BY <1>3, <1>4

(* The task reads the entry of its second. *)
LEMMA TaskReads ==
    ASSUME TypeInv, TypeInv', AskedInv, TakeEntry PROVE AskedInv'
<1>0. pc["fp"] = "take_entry" /\ \A c \in Ids : HandLeft(c) = 0
  BY DEF TakeEntry, HandLeft
<1>1. pc'["cmd"] = pc["cmd"] /\ row'["cmd"] = row["cmd"] /\ UNCHANGED <<db, asked, runs>>
  BY SMTT(60) DEF TakeEntry, ReturnTo, Goto, TypeInv, TypeOK, Procs, history
<1>2. Fresh'
  BY <1>1 DEF Fresh, AskedInv
<1> DEFINE hits == SlotsAt(row["fp"].unixtime)
<1>3. CASE hits = {}
  <2>1. pc'["fp"] = "idle"
    BY <1>3 DEF TakeEntry, ReturnTo, Goto, TypeInv, TypeOK, Procs
  <2>2. \A c \in Ids : HandLeft(c)' = 0
    BY <2>1 DEF HandLeft
  <2>3. OutOfTable' /\ ReadInv'
    BY <2>1 DEF OutOfTable, ReadInv
  <2> QED
    BY <1>0, <1>1, <1>2, <2>1, <2>2, <2>3, QuietStep
<1>4. CASE hits # {}
  <2>1. PICK s : s = First(hits) /\ s \in hits
    BY <1>4, SlotFound
  <2>2. PICK e : e = db[s] /\ e \in Entry /\ e.unixtime = row["fp"].unixtime /\ s \in Index
    BY <2>1 DEF SlotsAt, TypeInv, TypeOK
  <2>3. row'["fp"] = e /\ pc'["fp"] = "take_delete"
    BY <1>4, <2>1, <2>2 DEF TakeEntry, Goto, TypeInv, TypeOK, Procs
  <2>4. s \in Holding(e.id)
    BY <2>2 DEF Holding
  <2>5. \A c \in Ids : HandLeft(c)' = 0
    <3> SUFFICES ASSUME NEW c \in Ids PROVE HandLeft(c)' = 0
      OBVIOUS
    <3>1. CASE c = e.id
      <4>1. Holding(c)' # {}
        BY <1>1, <2>4, <3>1, TableSame
      <4> QED
        BY <2>3, <3>1, <4>1 DEF HandLeft
    <3>2. CASE c # e.id
      BY <2>3, <3>2 DEF HandLeft
    <3> QED
      BY <3>1, <3>2
  <2>6. OutOfTable'
    BY <2>3 DEF OutOfTable
  <2>7. ReadInv'
    <3>1. e.unixtime \in Nat
      BY <1>0, <2>2 DEF AskedInv, ReadInv
    <3>2. SlotsAt(e.unixtime)' = hits
      BY <1>1, <2>2 DEF SlotsAt
    <3>3. ASSUME e.id \in Ids, NEW r \in Holding(e.id)' PROVE db'[r] = e /\ r = First(hits)
      <4>1. r \in Holding(e.id)
        BY <1>1, <3>3, TableSame
      <4>2. r = s
        BY <2>4, <3>3, <4>1 DEF AskedInv, Unique
      <4> QED
        BY <1>1, <2>1, <2>2, <4>2
    <3> QED
      BY <2>3, <3>1, <3>2, <3>3 DEF ReadInv
  <2> QED
    BY <1>0, <1>1, <1>2, <2>5, <2>6, <2>7, QuietStep
<1> QED
  BY <1>3, <1>4

(* The task deletes the entry it has read, or another one of its second.   *)
LEMMA TaskTakes ==
    ASSUME TypeInv, TypeInv', AskedInv, TakeDelete("fp") PROVE AskedInv'
<1>0. PICK e : e = row["fp"] /\ e \in Entry /\ Left(e) \in Nat
  BY LeftType DEF TypeInv, TypeOK, Procs
<1>1. /\ pc["fp"] = "take_delete" /\ pc'["cmd"] = pc["cmd"] /\ row'["cmd"] = row["cmd"]
      /\ UNCHANGED <<asked, runs>>
  BY SMTT(60) DEF TakeDelete, ReturnTo, Goto, TypeInv, TypeOK, Procs
<1>2. Fresh'
  BY <1>1 DEF Fresh, AskedInv
<1> DEFINE hits == SlotsAt(row["fp"].unixtime)
<1>3. CASE hits = {}
  <2>1. UNCHANGED db /\ pc'["fp"] = "idle"
    BY <1>3 DEF TakeDelete, ReturnTo, Goto, TypeInv, TypeOK, Procs
  <2>2. \A c \in Ids : HandLeft(c)' = 0
    BY <2>1 DEF HandLeft
  <2>3. OutOfTable' /\ ReadInv'
    BY <2>1 DEF OutOfTable, ReadInv
  <2>4. \A c \in Ids : HandLeft(c)' <= HandLeft(c)
    BY <2>2, HandLeftType
  <2> QED
    BY <1>1, <1>2, <2>1, <2>3, <2>4, QuietStep
<1>4. CASE hits # {}
  <2>1. PICK s : s = First(hits) /\ s \in Index
    BY <1>4, SlotFound DEF SlotsAt
  <2>2. db' = [db EXCEPT ![s] = Clear] /\ row'["fp"] = e /\ pc'["fp"] = "take_count"
    BY <1>0, <1>4, <2>1 DEF TakeDelete, DeleteRow, Goto, TypeInv, TypeOK, Procs
  <2>3. /\ Unique'
        /\ \A c \in Ids : Holding(c)' = Holding(c) \ {s}
        /\ \A c \in Ids : TableLeft(c)' = IF db[s].id = c THEN 0 ELSE TableLeft(c)
    BY <2>1, <2>2, TableDelete DEF AskedInv
  <2>4. ASSUME NEW c \in Ids PROVE Len(runs'[c]) + TableLeft(c)' + HandLeft(c)' <= AskedFor(c)'
    <3>1. /\ Len(runs[c]) \in Nat /\ TableLeft(c) \in Nat /\ AskedFor(c) \in Nat
          /\ HandLeft(c) \in Nat
          /\ Len(runs[c]) + TableLeft(c) + HandLeft(c) <= AskedFor(c)
      BY Sums DEF AskedInv
    <3>2. runs' = runs /\ AskedFor(c)' = AskedFor(c)
      BY <1>1 DEF AskedFor
    <3>3. TableLeft(c)' = 0 \/ TableLeft(c)' = TableLeft(c)
      BY <2>3
    <3>4. CASE c = e.id /\ Holding(c) = {}
      <4>1. HandLeft(c) = Left(e) /\ HandLeft(c)' = Left(e)
        BY <1>0, <1>1, <2>2, <3>4 DEF HandLeft
      <4> QED
        BY <1>0, <3>1, <3>2, <3>3, <4>1
    <3>5. CASE c = e.id /\ Holding(c) # {}
      <4>1. s \in Holding(c) /\ db[s] = e
        BY <1>0, <1>1, <2>1, <3>5 DEF AskedInv, ReadInv
      <4>2. TableLeft(c) = Left(e) /\ TableLeft(c)' = 0
        BY <2>3, <3>5, <4>1, TableLeftIs DEF AskedInv
      <4>3. HandLeft(c) = 0 /\ HandLeft(c)' = Left(e)
        BY <1>0, <1>1, <2>2, <3>5 DEF HandLeft
      <4> QED
        BY <1>0, <3>1, <3>2, <4>2, <4>3
    <3>6. CASE c # e.id
      <4>1. HandLeft(c)' = 0
        BY <2>2, <3>6 DEF HandLeft
      <4> QED
        BY <3>1, <3>2, <3>3, <4>1
    <3> QED
      BY <3>4, <3>5, <3>6
  <2>5. OutOfTable'
    <3>1. ASSUME NEW c \in Ids, c = e.id PROVE Holding(c)' = {}
      <4>1. \A r \in Holding(c) : r = s
        BY <1>0, <1>1, <2>1, <3>1 DEF AskedInv, ReadInv
      <4> QED
        BY <2>3, <4>1
    <3> QED
      BY <2>2, <3>1 DEF OutOfTable
  <2>6. ReadInv'
    BY <2>2 DEF ReadInv
  <2> QED
    BY <1>2, <2>3, <2>4, <2>5, <2>6 DEF AskedInv, Bounded
<1> QED
  BY <1>3, <1>4

(* The task reckons the next execution. *)
LEMMA TaskReckons ==
    ASSUME TypeInv, TypeInv', AskedInv, TaskAgain PROVE AskedInv'
<1>1. PICK e : e = row["fp"] /\ e \in Entry
  BY DEF TypeInv, TypeOK, Procs
<1>2. e.executions > 1 /\ e.periodical > 0 /\ e.executions \in Nat /\ e.periodical \in Nat
      /\ pc["fp"] = "again"
  BY <1>1, EntryFields DEF TypeInv, LocalInv, TaskAgain
<1>3. PICK f : f = row'["fp"]
  OBVIOUS
<1>4. f.id = e.id /\ f.executions = e.executions - 1 /\ f.periodical = e.periodical
  BY <1>1, <1>3 DEF TaskAgain, TypeInv, TypeOK, Procs, Entry
<1>5. /\ pc'["fp"] = "set_read" /\ pc'["cmd"] = pc["cmd"] /\ row'["cmd"] = row["cmd"]
      /\ UNCHANGED <<db, asked, runs>>
  BY DEF TaskAgain, Goto, TypeInv, TypeOK, Procs, history
<1>6. Left(e) = e.executions /\ Left(f) = e.executions - 1
  BY <1>2, <1>4 DEF Left
<1>7. ASSUME NEW c \in Ids PROVE HandLeft(c)' <= HandLeft(c)
  <2>1. CASE c = e.id
    <3>1. HandLeft(c) = Left(e)
      BY <1>1, <1>2, <2>1 DEF HandLeft
    <3>2. HandLeft(c)' = 1 + Left(f)
      BY <1>3, <1>4, <1>5, <2>1 DEF HandLeft
    <3> QED
      BY <1>2, <1>6, <3>1, <3>2
  <2>2. CASE c # e.id
    BY <1>1, <1>3, <1>4, <2>2 DEF HandLeft
  <2> QED
    BY <2>1, <2>2
<1>8. OutOfTable'
  <2>1. e.id \in Ids => Holding(e.id) = {}
    BY <1>1, <1>2 DEF OutOfTable, AskedInv
  <2>2. ASSUME NEW c \in Ids, c = e.id PROVE Holding(c)' = {}
    BY <1>5, <2>1, <2>2, TableSame
  <2> QED
    BY <1>3, <1>4, <2>2 DEF OutOfTable
<1>9. Fresh'
  BY <1>5 DEF Fresh, AskedInv
<1>10. ReadInv'
  BY <1>5 DEF ReadInv
<1> QED
  BY <1>5, <1>7, <1>8, <1>9, <1>10, QuietStep

(* The task sends the command. *)
LEMMA TaskSends ==
    ASSUME TypeInv, TypeInv', AskedInv, TaskSend PROVE AskedInv'
<1>1. PICK d : d = row["fp"].id
  OBVIOUS
<1>2. /\ pc["fp"] = "send" /\ pc'["fp"] = "idle" /\ pc'["cmd"] = pc["cmd"]
      /\ row'["cmd"] = row["cmd"] /\ UNCHANGED <<db, asked>>
      /\ runs' = [runs EXCEPT ![d] = Append(runs[d], sec)]
  BY <1>1 DEF TaskSend, ReturnTo, Goto, TypeInv, TypeOK, Procs
<1>3. ASSUME NEW c \in Ids PROVE Len(runs'[c]) + TableLeft(c)' + HandLeft(c)' <= AskedFor(c)'
  <2>1. /\ Len(runs[c]) \in Nat /\ TableLeft(c) \in Nat /\ HandLeft(c) \in Nat
        /\ AskedFor(c) \in Nat
        /\ Len(runs[c]) + TableLeft(c) + HandLeft(c) <= AskedFor(c)
    BY Sums DEF AskedInv
  <2>2. AskedFor(c)' = AskedFor(c) /\ TableLeft(c)' = TableLeft(c) /\ HandLeft(c)' = 0
    BY <1>2, TableSame DEF AskedFor, HandLeft
  <2>3. CASE c = d
    <3>1. HandLeft(c) = 1
      BY <1>1, <1>2, <2>3 DEF HandLeft
    <3>2. Len(runs'[c]) = Len(runs[c]) + 1
      BY <1>2, <2>3 DEF TypeInv, TypeOK
    <3> QED
      BY <2>1, <2>2, <3>1, <3>2
  <2>4. CASE c # d
    <3>1. Len(runs'[c]) = Len(runs[c])
      BY <1>2, <2>4 DEF TypeInv, TypeOK
    <3> QED
      BY <2>1, <2>2, <3>1
  <2> QED
    BY <2>3, <2>4
<1>4. Unique' /\ OutOfTable' /\ Fresh' /\ ReadInv'
  BY <1>2, TableSame DEF OutOfTable, Fresh, ReadInv, AskedInv
<1> QED
  BY <1>3, <1>4 DEF AskedInv, Bounded

(* The other steps of a repository function called by the task, *)
LEMMA TaskCounts ==
    ASSUME TypeInv, TypeInv', AskedInv,
           \/ SetRead("fp") \/ SetCount("fp") \/ TakeRead("fp") \/ TakeCount("fp") \/ TaskWake
    PROVE  AskedInv'
<1>0. PICK e : e = row["fp"] /\ e \in Entry /\ Left(e) \in Nat /\ Left(e) >= 1
  BY LeftType DEF TypeInv, TypeOK, Procs
<1> USE DEF Goto, ReturnTo, AfterSet, AfterTake, TypeInv, TypeOK, Procs, history
<1>1. /\ pc'["cmd"] = pc["cmd"] /\ row'["cmd"] = row["cmd"] /\ UNCHANGED <<db, asked, runs>>
  BY DEF SetRead, SetCount, TakeRead, TakeCount, TaskWake
<1>2. \/ pc'["fp"] \in {"idle", "take_read", "take_entry"}
      \/ row'["fp"] = e /\ pc["fp"] = "set_read" /\ pc'["fp"] = "set_store"
      \/ row'["fp"] = e /\ pc["fp"] = "set_count" /\ pc'["fp"] = "send"
      \/ row'["fp"] = e /\ pc["fp"] = "take_count" /\ pc'["fp"] \in {"again", "send"}
  BY <1>0 DEF SetRead, SetCount, TakeRead, TakeCount, TaskWake
<1>6. ReadInv'
  <2>1. pc'["fp"] # "take_delete"
    BY <1>2
  <2>2. pc'["fp"] \in {"take_read", "take_entry"} =>
            (row'["fp"] = row["fp"] /\ pc["fp"] = "take_read") \/ row'["fp"].unixtime \in Nat
    BY SMTT(60) DEF SetRead, SetCount, TakeRead, TakeCount, TaskWake, Clear
  <2> QED
    BY <2>1, <2>2 DEF ReadInv, AskedInv
<1> HIDE DEF TypeInv
<1>3. ASSUME NEW c \in Ids PROVE HandLeft(c)' <= HandLeft(c)
  <2>1. CASE pc'["fp"] \in {"idle", "take_read", "take_entry"}
    BY <2>1, HandLeftType DEF HandLeft
  <2>2. CASE row'["fp"] = e /\ pc["fp"] = "set_read" /\ pc'["fp"] = "set_store"
    BY <1>0, <2>2 DEF HandLeft
  <2>3. CASE row'["fp"] = e /\ pc["fp"] = "set_count" /\ pc'["fp"] = "send"
    BY <1>0, <2>3 DEF HandLeft
  <2>4. CASE row'["fp"] = e /\ pc["fp"] = "take_count" /\ pc'["fp"] \in {"again", "send"}
    BY <1>0, <2>4 DEF HandLeft
  <2> QED
    BY <1>2, <2>1, <2>2, <2>3, <2>4
<1>4. OutOfTable'
  <2>1. \A c : Holding(c)' = Holding(c)
    BY <1>1, TableSame
  <2> QED
    BY <1>0, <1>2, <2>1 DEF OutOfTable, AskedInv
<1>5. Fresh'
  BY <1>1 DEF Fresh, AskedInv
<1> QED
  BY <1>1, <1>3, <1>4, <1>5, <1>6, QuietStep

(* ... and by a command, with the steps that begin and end a command. *)
LEMMA CommandCounts ==
    ASSUME TypeInv, TypeInv', AskedInv,
           \/ SetRead("cmd") \/ SetCount("cmd") \/ TakeRead("cmd") \/ TakeCount("cmd")
           \/ ResetCount \/ FpPurge \/ PurgeRead \/ PurgeCount \/ Tick \/ UNCHANGED vars
           \/ \E t \in Deletes : FpDelete(t)
           \/ \E d \in Ids, r \in Requests : FpSet(d, r)
    PROVE  AskedInv'
<1> USE DEF Goto, ReturnTo, AfterSet, AfterTake, TypeInv, TypeOK, Procs, history
<1>1. UNCHANGED <<db, asked, runs>>
  BY DEF SetRead, SetCount, TakeRead, TakeCount, ResetCount, FpPurge, PurgeRead, PurgeCount,
         Tick, vars, FpDelete, FpSet
<1>2. TaskStays
  BY ZenonT(60) DEF SetRead, SetCount, TakeRead, TakeCount, ResetCount, FpPurge, PurgeRead, PurgeCount,
         Tick, vars, FpDelete, FpSet, TaskStays
<1>3. Fresh'
  <2>1. \/ pc'["cmd"] \notin {"set_read", "set_store"}
        \/ pc["cmd"] \in {"set_read", "set_store"} /\ row'["cmd"] = row["cmd"]
        \/ row'["cmd"].id \in Ids /\ asked[row'["cmd"].id] = Clear
    BY SMTT(60) DEF SetRead, SetCount, TakeRead, TakeCount, ResetCount, FpPurge, PurgeRead, PurgeCount,
           Tick, vars, FpDelete, FpSet
  <2> QED
    BY <1>1, <2>1 DEF Fresh, AskedInv
<1> HIDE DEF TypeInv
<1> QED
  BY <1>1, <1>2, <1>3, CommandQuiet

(* A command takes an entry, resets the table or purges a slot. *)
LEMMA CommandClears ==
    ASSUME TypeInv, TypeInv', AskedInv,
           \/ TakeDelete("cmd") \/ FpReset \/ PurgeDelete
    PROVE  AskedInv'
<1> USE DEF Goto, ReturnTo, TypeInv, TypeOK, Procs, history
<1>1. TaskStays /\ UNCHANGED <<asked, runs>>
  BY ZenonT(60) DEF TakeDelete, FpReset, PurgeDelete, TaskStays
<1>2. Fresh'
  BY DEF TakeDelete, FpReset, PurgeDelete, Fresh
<1>3. UNCHANGED db \/ \E s \in Index : db' = [db EXCEPT ![s] = Clear]
  <2>1. CASE TakeDelete("cmd")
    <3>1. CASE SlotsAt(row["cmd"].unixtime) = {}
      BY <2>1, <3>1 DEF TakeDelete
    <3>2. CASE SlotsAt(row["cmd"].unixtime) # {}
      <4>1. First(SlotsAt(row["cmd"].unixtime)) \in Index
        BY ZenonT(60), <3>2, SlotFound DEF SlotsAt
      <4> QED
        BY <2>1, <3>2, <4>1 DEF TakeDelete, DeleteRow
    <3> QED
      BY <3>1, <3>2
  <2>2. CASE FpReset
    BY <2>2, FlightPlanAssumption DEF FpReset, ResetTable, DeleteRow, Index
  <2>3. CASE PurgeDelete
    BY <2>3, FlightPlanAssumption DEF PurgeDelete, DeleteRow, LocalInv, Index
  <2> QED
    BY <2>1, <2>2, <2>3
<1> HIDE DEF TypeInv
<1> QED
  BY <1>1, <1>2, <1>3, CommandQuiet, CommandDeletes

LEMMA AskedNext == TypeInv /\ TypeInv' /\ AskedInv /\ [Next]_vars => AskedInv'
<1> SUFFICES ASSUME TypeInv, TypeInv', AskedInv, [Next]_vars PROVE AskedInv'
  OBVIOUS
<1>1. ASSUME NEW p \in Procs, SetRead(p) \/ SetCount(p) \/ TakeRead(p) \/ TakeCount(p)
      PROVE  AskedInv'
  BY <1>1, TaskCounts, CommandCounts DEF Procs
<1>2. ASSUME NEW p \in Procs, SetStore(p) PROVE AskedInv'
  BY <1>2, TaskStores, CommandStores DEF Procs
<1>3. ASSUME NEW p \in Procs, TakeDelete(p) PROVE AskedInv'
  BY <1>3, TaskTakes, CommandClears DEF Procs
<1> QED
  BY <1>1, <1>2, <1>3, NextCases, TaskCounts, TaskReads, TaskReckons, TaskSends, CommandCounts,
     CommandClears

--------------------------------------------------------------------------------
(* What each slot holds, and what the two processes do to it *)

Hand == {"take_count", "again", "set_read", "set_store", "set_count", "send"}
Stored(p) == [row[p] EXCEPT !.since = now]

(* A slot is occupied by an entry that ground sent, or is free; the row of *)
(* a function is such an entry once it was taken or is to be stored.       *)
SlotInv ==
    /\ \A s \in Index : db[s].id \in Ids <=> db[s].unixtime # ST_FP_NULL
    /\ pc["fp"] \in Hand \cup {"take_delete"} => row["fp"].id \in Ids
    /\ pc["fp"] \in {"take_read", "take_entry", "take_delete"} => row["fp"].unixtime = sec
    /\ pc["fp"] \in {"set_read", "set_store"} =>
          row["fp"].unixtime = sec + row["fp"].periodical /\ row["fp"].periodical > 0
    /\ pc["cmd"] \in {"set_read", "set_store", "take_read", "take_delete"} =>
          row["cmd"].unixtime \in Nat

LEMMA StoredFields ==
    ASSUME TypeInv, NEW p \in Procs
    PROVE  /\ Stored(p) \in Entry
           /\ Stored(p).id = row[p].id
           /\ Stored(p).unixtime = row[p].unixtime
           /\ Stored(p).periodical = row[p].periodical
           /\ Stored(p).executions = row[p].executions
           /\ Stored(p).since = now
<1>1. row[p] \in Entry /\ now \in Nat
  BY DEF TypeInv, TypeOK
<1> QED
  BY <1>1 DEF Stored, Entry

(* A step leaves a slot, clears it, or stores a row in a free one. *)
LEMMA SlotStep ==
    ASSUME TypeInv, [Next]_vars, NEW s \in Index
    PROVE  \/ db'[s] = db[s]
           \/ db'[s] = Clear
           \/ \E p \in Procs : /\ SetStore(p)
                               /\ db[s].unixtime = ST_FP_NULL
                               /\ db'[s] = Stored(p)
<1>1. ASSUME NEW p \in Procs, SetStore(p), SlotsAt(ST_FP_NULL) # {}
      PROVE  db'[s] = db[s] \/ (db[s].unixtime = ST_FP_NULL /\ db'[s] = Stored(p))
  <2>1. First(SlotsAt(ST_FP_NULL)) \in SlotsAt(ST_FP_NULL)
    BY <1>1, SlotFound
  <2>2. db' = [db EXCEPT ![First(SlotsAt(ST_FP_NULL))] = Stored(p)]
    BY <1>1 DEF SetStore, Stored
  <2> QED
    BY <2>1, <2>2 DEF SlotsAt, TypeInv, TypeOK
<1>2. ASSUME \E r : db' = [db EXCEPT ![r] = Clear]
      PROVE  db'[s] = db[s] \/ db'[s] = Clear
  BY <1>2 DEF TypeInv, TypeOK
<1>3. ASSUME UNCHANGED db PROVE db'[s] = db[s]
  BY <1>3
<1>4. ASSUME NEW p \in Procs, SetStore(p), SlotsAt(ST_FP_NULL) = {} PROVE UNCHANGED db
  BY <1>4 DEF SetStore
<1>5. ASSUME NEW p \in Procs, TakeDelete(p)
      PROVE  UNCHANGED db \/ \E r : db' = [db EXCEPT ![r] = Clear]
  BY <1>5 DEF TakeDelete, DeleteRow
<1>6. ASSUME \/ \E p \in Procs : SetRead(p) \/ SetCount(p) \/ TakeRead(p) \/ TakeCount(p)
             \/ TaskWake \/ TakeEntry \/ TaskAgain \/ TaskSend
             \/ \E d \in Ids, r \in Requests : FpSet(d, r)
             \/ \E t \in Deletes : FpDelete(t)
             \/ ResetCount \/ FpPurge \/ PurgeRead \/ PurgeCount \/ Tick \/ UNCHANGED vars
      PROVE  UNCHANGED db
  BY <1>6 DEF SetRead, SetCount, TakeRead, TakeEntry, TakeCount, TaskWake, TaskAgain, TaskSend, FpSet,
              FpDelete, ResetCount, FpPurge, PurgeRead, PurgeCount, Tick, vars
<1>7. ASSUME FpReset \/ PurgeDelete PROVE \E r : db' = [db EXCEPT ![r] = Clear]
  BY <1>7 DEF FpReset, ResetTable, PurgeDelete, DeleteRow
<1> QED
  BY <1>1, <1>2, <1>3, <1>4, <1>5, <1>6, <1>7, NextCases

(* A step of the executer, or of the clock. *)
CommandStep ==
    /\ TaskStays
    /\ UNCHANGED <<sec, runs>>

LEMMA TaskCases ==
    ASSUME TypeInv, [Next]_vars
    PROVE  \/ CommandStep
           \/ TaskWake \/ TakeRead("fp") \/ TakeEntry \/ TakeDelete("fp") \/ TakeCount("fp")
           \/ TaskAgain \/ SetRead("fp") \/ SetStore("fp") \/ SetCount("fp") \/ TaskSend
<1> USE DEF CommandStep, TaskStays, Goto, ReturnTo, TypeInv, TypeOK, Procs, history
<1>1. ASSUME \/ SetRead("cmd") \/ SetCount("cmd") \/ TakeRead("cmd") \/ TakeCount("cmd")
      PROVE  CommandStep
  BY <1>1 DEF SetRead, SetCount, TakeRead, TakeCount, AfterSet, AfterTake
<1>2. ASSUME SetStore("cmd") \/ TakeDelete("cmd") PROVE CommandStep
  BY <1>2 DEF SetStore, TakeDelete, AfterSet
<1>3. ASSUME \/ \E d \in Ids, r \in Requests : FpSet(d, r)
             \/ \E t \in Deletes : FpDelete(t)
             \/ FpReset \/ ResetCount \/ FpPurge \/ PurgeRead \/ PurgeDelete \/ PurgeCount
             \/ Tick \/ UNCHANGED vars
      PROVE  CommandStep
  BY <1>3 DEF FpSet, FpDelete, FpReset, ResetCount, FpPurge, PurgeRead, PurgeDelete,
              PurgeCount, Tick, vars
<1> HIDE DEF CommandStep
<1> QED
  BY <1>1, <1>2, <1>3, NextCases DEF Procs

LEMMA SlotInit == Init => SlotInv
  BY FlightPlanAssumption DEF Init, SlotInv, Clear, Procs, Hand

(* What the row of the task is after one of its steps. *)
LEMMA TaskRow ==
    ASSUME TypeInv, SlotInv, [Next]_vars
    PROVE  /\ pc'["fp"] \in Hand \cup {"take_delete"} => row'["fp"].id \in Ids
           /\ pc'["fp"] \in {"take_read", "take_entry", "take_delete"} =>
                 row'["fp"].unixtime = sec'
           /\ pc'["fp"] \in {"set_read", "set_store"} =>
                 row'["fp"].unixtime = sec' + row'["fp"].periodical /\ row'["fp"].periodical > 0
<1> USE DEF Hand, Goto, ReturnTo, Procs
<1>0. /\ pc \in [Procs -> Steps] /\ row \in [Procs -> Entry] /\ sec \in Nat /\ now \in Nat
      /\ row["fp"] \in Entry
  BY DEF TypeInv, TypeOK
<1>1. CASE CommandStep
  BY <1>1 DEF SlotInv, CommandStep, TaskStays
<1>2. CASE TaskWake
  BY <1>0, <1>2 DEF TaskWake, Clear
<1>3. CASE TakeRead("fp")
  BY <1>0, <1>3 DEF TakeRead, SlotInv
<1>4. CASE TakeEntry
  <2>1. CASE SlotsAt(row["fp"].unixtime) = {}
    BY <1>0, <1>4, <2>1 DEF TakeEntry
  <2>2. CASE SlotsAt(row["fp"].unixtime) # {}
    <3>1. PICK s : s = First(SlotsAt(row["fp"].unixtime)) /\ s \in SlotsAt(row["fp"].unixtime)
      BY <2>2, SlotFound
    <3>2. s \in Index /\ db[s].unixtime = sec
      BY <1>4, <3>1 DEF SlotsAt, SlotInv, TakeEntry
    <3>3. row'["fp"] = db[s] /\ pc'["fp"] = "take_delete"
      BY <1>0, <1>4, <2>2, <3>1 DEF TakeEntry
    <3>4. sec' = sec
      BY <1>4, <2>2 DEF TakeEntry
    <3> QED
      BY <1>0, <3>2, <3>3, <3>4 DEF SlotInv, ST_FP_NULL
  <2> QED
    BY <2>1, <2>2
<1>11. CASE TakeDelete("fp")
  BY <1>0, <1>11 DEF TakeDelete, SlotInv
<1>5. CASE TakeCount("fp")
  BY <1>0, <1>5 DEF TakeCount, AfterTake, SlotInv
<1>6. CASE TaskAgain
  <2>1. /\ pc["fp"] = "again" /\ pc'["fp"] = "set_read" /\ sec' = sec
        /\ row["fp"].periodical > 0 /\ row["fp"].id \in Ids
    BY <1>0, <1>6 DEF TaskAgain, TypeInv, LocalInv, SlotInv
  <2>2. /\ row'["fp"].id = row["fp"].id /\ row'["fp"].periodical = row["fp"].periodical
        /\ row'["fp"].unixtime = sec + row["fp"].periodical
    BY <1>0, <1>6 DEF TaskAgain, NextTime, Entry
  <2> QED
    BY <2>1, <2>2
<1>7. CASE SetRead("fp")
  BY <1>0, <1>7 DEF SetRead, SlotInv
<1>8. CASE SetStore("fp")
  BY <1>0, <1>8 DEF SetStore, AfterSet, SlotInv
<1>9. CASE SetCount("fp")
  BY <1>0, <1>9 DEF SetCount, AfterSet, SlotInv
<1>10. CASE TaskSend
  BY <1>0, <1>10 DEF TaskSend
<1> QED
  BY <1>1, <1>2, <1>3, <1>4, <1>5, <1>6, <1>7, <1>8, <1>9, <1>10, <1>11, TaskCases

(* ... and that of a command. *)
LEMMA CommandRow ==
    ASSUME TypeInv, SlotInv, [Next]_vars,
           pc'["cmd"] \in {"set_read", "set_store", "take_read", "take_delete"}
    PROVE  row'["cmd"].unixtime \in Nat
<1> USE FlightPlanAssumption DEF Goto, ReturnTo, Procs
<1>0. /\ pc \in [Procs -> Steps] /\ row \in [Procs -> Entry] /\ sec \in Nat /\ now \in Nat
      /\ row["cmd"] \in Entry
  BY DEF TypeInv, TypeOK
<1>1. ASSUME NEW p \in Procs, SetRead(p) \/ SetCount(p) \/ TakeRead(p) \/ TakeCount(p)
      PROVE  row'["cmd"].unixtime \in Nat
  BY <1>0, <1>1 DEF SetRead, SetCount, TakeRead, TakeCount, AfterSet, AfterTake, SlotInv
<1>2. ASSUME NEW p \in Procs, SetStore(p) \/ TakeDelete(p)
      PROVE  row'["cmd"].unixtime \in Nat
  BY <1>0, <1>2 DEF SetStore, TakeDelete, AfterSet, SlotInv
<1>3. ASSUME \/ TaskWake \/ TakeEntry \/ TaskAgain \/ TaskSend
             \/ FpReset \/ ResetCount \/ FpPurge \/ PurgeRead \/ PurgeDelete \/ PurgeCount
             \/ Tick \/ UNCHANGED vars
      PROVE  row'["cmd"].unixtime \in Nat
  BY <1>0, <1>3 DEF TaskWake, TakeEntry, TaskAgain, TaskSend, FpReset, ResetCount, FpPurge, PurgeRead,
                    PurgeDelete, PurgeCount, Tick, vars, SlotInv
<1>4. ASSUME NEW d \in Ids, NEW r \in Requests, FpSet(d, r)
      PROVE  row'["cmd"].unixtime \in Nat
  BY <1>0, <1>4 DEF FpSet
<1>5. ASSUME NEW t \in Deletes, FpDelete(t)
      PROVE  row'["cmd"].unixtime \in Nat
  BY <1>0, <1>5 DEF FpDelete, Clear
<1> QED
  BY <1>1, <1>2, <1>3, <1>4, <1>5, NextCases

LEMMA SlotNext == TypeInv /\ AskedInv /\ SlotInv /\ [Next]_vars => SlotInv'
<1> SUFFICES ASSUME TypeInv, AskedInv, SlotInv, [Next]_vars PROVE SlotInv'
  OBVIOUS
<1>1. ASSUME NEW s \in Index PROVE db'[s].id \in Ids <=> db'[s].unixtime # ST_FP_NULL
  <2>1. CASE db'[s] = db[s]
    BY <2>1 DEF SlotInv
  <2>2. CASE db'[s] = Clear
    BY <2>2, FlightPlanAssumption DEF Clear
  <2>3. ASSUME NEW p \in Procs, SetStore(p), db'[s] = Stored(p)
        PROVE  db'[s].id \in Ids <=> db'[s].unixtime # ST_FP_NULL
    <3>1. pc[p] = "set_store" /\ row[p] \in Entry /\ sec \in Nat
      BY <2>3 DEF SetStore, TypeInv, TypeOK
    <3>2. row[p].periodical \in Nat
      BY <3>1, EntryFields
    <3>3. row[p].id \in Ids /\ row[p].unixtime \in Nat
      BY <3>1, <3>2 DEF SlotInv, AskedInv, Fresh, Hand, Procs
    <3> QED
      BY <2>3, <3>3, StoredFields DEF ST_FP_NULL
  <2> QED
    BY <2>1, <2>2, <2>3, SlotStep
<1> QED
  BY <1>1, TaskRow, CommandRow DEF SlotInv

--------------------------------------------------------------------------------
(* An entry is sent in its own seconds *)

(* The second of the execution of a after k others. *)
When(a, k) == a.unixtime + k * a.periodical

InHand(d) == row["fp"].id = d /\ pc["fp"] \in Hand

(* The task has read the entry of its second. *)
ReadTimes ==
    \A d \in Ids : row["fp"].id = d /\ pc["fp"] = "take_delete" =>
        /\ sec = When(asked[d], Len(runs[d]))
        /\ row["fp"].periodical = asked[d].periodical

(* The task holds the entry of its second; the table holds the one after   *)
(* those that were sent or are about to be.                                *)
TimesInv ==
    /\ \A d \in Ids : InHand(d) =>
          /\ sec = When(asked[d], Len(runs[d]))
          /\ row["fp"].periodical = asked[d].periodical
    /\ \A d \in Ids : \A s \in Holding(d) :
          /\ db[s].periodical = asked[d].periodical
          /\ ~InHand(d) => db[s].unixtime = When(asked[d], Len(runs[d]))
          /\ InHand(d) => /\ db[s].unixtime = When(asked[d], Len(runs[d]) + 1)
                          /\ db[s].unixtime > sec
    /\ ExactTimes
    /\ ReadTimes

LEMMA WhenNext ==
    ASSUME NEW a \in Entry, NEW k \in Nat
    PROVE  /\ When(a, 0) = a.unixtime
           /\ When(a, k + 1) = When(a, k) + a.periodical
           /\ When(a, k) \in Int
<1>1. a.unixtime \in Int /\ a.periodical \in Int
  BY DEF Entry, ST_FP_NULL
<1> QED
  BY <1>1 DEF When

LEMMA TimesInit == Init => TimesInv
  BY FlightPlanAssumption DEF Init, TimesInv, ExactTimes, ReadTimes, InHand, Hand, Holding, Clear, Procs

(* Before its entry is stored, an identifier appears nowhere. *)
LEMMA NotStored ==
    ASSUME TypeInv, AskedInv, NEW d \in Ids, asked[d] = Clear
    PROVE  Len(runs[d]) = 0 /\ Holding(d) = {} /\ ~InHand(d)
<1>1. AskedFor(d) = 0
  BY DEF AskedFor
<1>2. Len(runs[d]) = 0 /\ TableLeft(d) = 0 /\ HandLeft(d) = 0
  BY <1>1, Sums DEF AskedInv
<1>3. Holding(d) = {}
  BY <1>2, TableLeftIs DEF AskedInv
<1>4. ~InHand(d)
  <2>1. row["fp"] \in Entry
    BY DEF TypeInv, TypeOK, Procs
  <2> QED
    BY <1>2, <2>1, LeftType DEF InHand, HandLeft, Hand
<1> QED
  BY <1>2, <1>3, <1>4

(* Who changes what ground asked for. *)
LEMMA AskedStep ==
    ASSUME TypeInv, AskedInv, [Next]_vars
    PROVE  \/ asked' = asked
           \/ /\ SetStore("cmd")
              /\ row["cmd"].id \in Ids /\ asked[row["cmd"].id] = Clear
              /\ asked' = [asked EXCEPT ![row["cmd"].id] = row["cmd"]]
<1>1. ASSUME NEW p \in Procs, SetStore(p)
      PROVE  \/ asked' = asked
             \/ p = "cmd" /\ pc[p] = "set_store"
                /\ asked' = [asked EXCEPT ![row["cmd"].id] = row["cmd"]]
  BY <1>1 DEF SetStore
<1>2. ASSUME NEW p \in Procs, TakeDelete(p) PROVE asked' = asked
  BY <1>2 DEF TakeDelete
<1> QED
  BY <1>1, <1>2, NextCases
  DEF SetRead, SetCount, TakeRead, TakeEntry, TakeCount, TaskWake, TaskAgain, TaskSend, FpSet,
      FpDelete, FpReset, ResetCount, FpPurge, PurgeRead, PurgeDelete, PurgeCount, Tick, vars,
      history, AskedInv, Fresh

(* The steps that end in the same hands, with the same history. *)
LEMMA TimesSame ==
    ASSUME TypeInv, TypeInv', AskedInv, TimesInv, UNCHANGED <<asked, runs>>,
           \A d \in Ids : InHand(d)' <=> InHand(d),
           \A d \in Ids : InHand(d) => sec' = sec /\ row'["fp"].periodical = row["fp"].periodical,
           \A s \in Index : db'[s] = db[s] \/ db'[s] = Clear,
           ReadTimes'
    PROVE  TimesInv'
<1>1. \A d \in Ids : InHand(d)' =>
          /\ sec' = When(asked'[d], Len(runs'[d]))
          /\ row'["fp"].periodical = asked'[d].periodical
  BY DEF TimesInv
<1>2. \A d \in Ids : \A s \in Holding(d)' : s \in Holding(d) /\ db'[s] = db[s]
  BY FlightPlanAssumption DEF Holding, Clear
<1>3. \A d \in Ids : \A s \in Holding(d)' :
          /\ db'[s].periodical = asked'[d].periodical
          /\ ~InHand(d)' => db'[s].unixtime = When(asked'[d], Len(runs'[d]))
          /\ InHand(d)' => /\ db'[s].unixtime = When(asked'[d], Len(runs'[d]) + 1)
                           /\ db'[s].unixtime > sec'
  BY <1>2 DEF TimesInv
<1>4. ExactTimes'
  BY DEF TimesInv, ExactTimes
<1> QED
  BY <1>1, <1>3, <1>4 DEF TimesInv

(* A command stores its entry. *)
LEMMA TimesCommandStores ==
    ASSUME TypeInv, TypeInv', AskedInv, SlotInv, TimesInv, SetStore("cmd"), [Next]_vars
    PROVE  TimesInv'
<1> DEFINE c == row["cmd"].id
<1>0. CommandStep
  BY ZenonT(60) DEF CommandStep, TaskStays, SetStore, AfterSet, Goto, ReturnTo, TypeInv, TypeOK, Procs
<1>1. \A d \in Ids : InHand(d)' <=> InHand(d)
  BY <1>0 DEF CommandStep, TaskStays, InHand
<1>4. ReadTimes'
  BY <1>0 DEF SetStore, SemFree, CommandStep, TaskStays, ReadTimes
<1>2. CASE SlotsAt(ST_FP_NULL) = {}
  <2>1. UNCHANGED <<db, asked, runs>>
    BY <1>2 DEF SetStore
  <2> QED
    BY <1>0, <1>1, <1>4, <2>1, TimesSame DEF CommandStep, TaskStays
<1>3. CASE SlotsAt(ST_FP_NULL) # {}
  <2>1. c \in Ids /\ asked[c] = Clear /\ row["cmd"] \in Entry
    BY DEF SetStore, AskedInv, Fresh, TypeInv, TypeOK, Procs
  <2>2. asked' = [asked EXCEPT ![c] = row["cmd"]]
    BY <1>3 DEF SetStore
  <2>3. Len(runs[c]) = 0 /\ Holding(c) = {} /\ ~InHand(c)
    BY <2>1, NotStored
  <2>4. asked'[c] = row["cmd"] /\ \A d \in Ids : d # c => asked'[d] = asked[d]
    BY <2>1, <2>2 DEF TypeInv, TypeOK
  <2>5. PICK r \in Index : db' = [db EXCEPT ![r] = Stored("cmd")] /\ r \in SlotsAt(ST_FP_NULL)
    BY <1>3, SlotFound DEF SetStore, Stored, SlotsAt
  <2>6. \A s \in Index : s # r => db'[s] = db[s]
    BY <2>5 DEF TypeInv, TypeOK
  <2>7. db'[r].id = c /\ db'[r].periodical = row["cmd"].periodical
        /\ db'[r].unixtime = row["cmd"].unixtime
    BY <2>5, StoredFields DEF TypeInv, TypeOK, Procs
  <2>8. UNCHANGED <<runs, sec>> /\ row'["fp"] = row["fp"]
    BY <1>0 DEF CommandStep, TaskStays
  <2>9. ASSUME NEW d \in Ids, InHand(d)'
        PROVE  /\ sec' = When(asked'[d], Len(runs'[d]))
               /\ row'["fp"].periodical = asked'[d].periodical
    BY <1>1, <2>3, <2>4, <2>8, <2>9 DEF TimesInv
  <2>10. ASSUME NEW d \in Ids, NEW s \in Holding(d)'
         PROVE  /\ db'[s].periodical = asked'[d].periodical
                /\ ~InHand(d)' => db'[s].unixtime = When(asked'[d], Len(runs'[d]))
                /\ InHand(d)' => /\ db'[s].unixtime = When(asked'[d], Len(runs'[d]) + 1)
                                 /\ db'[s].unixtime > sec'
    <3>0. s \in Index /\ db'[s].id = d
      BY DEF Holding
    <3>1. CASE s = r
      <4>1. d = c
        BY <2>7, <3>0, <3>1
      <4> QED
        BY <1>1, <2>1, <2>3, <2>4, <2>7, <2>8, <3>1, <4>1, WhenNext
    <3>2. CASE s # r
      <4>1. s \in Holding(d) /\ db'[s] = db[s]
        BY <2>6, <3>0, <3>2 DEF Holding
      <4>2. d # c
        BY <2>3, <4>1
      <4> QED
        BY <1>1, <2>4, <2>8, <4>1, <4>2 DEF TimesInv
    <3> QED
      BY <3>1, <3>2
  <2>11. ExactTimes'
    <3> SUFFICES ASSUME NEW d \in Ids, NEW k \in 1 .. Len(runs[d])
                 PROVE  runs[d][k] = asked'[d].unixtime + (k - 1) * asked'[d].periodical
      BY <2>8 DEF ExactTimes
    <3>1. d # c
      BY <2>3
    <3> QED
      BY <2>4, <3>1 DEF TimesInv, ExactTimes
  <2> QED
    BY <1>4, <2>9, <2>10, <2>11 DEF TimesInv
<1> QED
  BY <1>2, <1>3

(* The task reads the entry of its second. *)
LEMMA TimesTaskReads ==
    ASSUME TypeInv, TypeInv', AskedInv, SlotInv, TimesInv, TakeEntry
    PROVE  TimesInv'
<1>1. pc["fp"] = "take_entry" /\ UNCHANGED <<db, asked, runs>> /\ row["fp"].unixtime = sec
  BY DEF TakeEntry, SlotInv, history
<1>2. \A d \in Ids : ~InHand(d) /\ ~InHand(d)'
  BY <1>1 DEF TakeEntry, ReturnTo, Goto, TypeInv, TypeOK, Procs, InHand, Hand
<1>3. ReadTimes'
  <2>1. CASE SlotsAt(row["fp"].unixtime) = {}
    BY <2>1 DEF TakeEntry, ReturnTo, Goto, TypeInv, TypeOK, Procs, ReadTimes
  <2>2. CASE SlotsAt(row["fp"].unixtime) # {}
    <3>1. PICK r : r = First(SlotsAt(row["fp"].unixtime)) /\ r \in SlotsAt(row["fp"].unixtime)
      BY <2>2, SlotFound
    <3>2. r \in Index /\ db[r].unixtime = sec
      BY <1>1, <3>1 DEF SlotsAt
    <3>3. row'["fp"] = db[r] /\ sec' = sec
      BY <2>2, <3>1 DEF TakeEntry, TypeInv, TypeOK, Procs
    <3>4. \A d \in Ids : db[r].id = d => r \in Holding(d)
      BY <3>2 DEF Holding
    <3> QED
      BY <1>1, <1>2, <3>2, <3>3, <3>4 DEF ReadTimes, TimesInv
  <2> QED
    BY <2>1, <2>2
<1> QED
  BY <1>1, <1>2, <1>3, TimesSame

(* The task deletes an entry of its second. *)
LEMMA TimesTaskTakes ==
    ASSUME TypeInv, TypeInv', AskedInv, SlotInv, TimesInv, TakeDelete("fp"),
           SlotsAt(row["fp"].unixtime) # {}
    PROVE  TimesInv'
<1>1. PICK r : r = First(SlotsAt(row["fp"].unixtime)) /\ r \in SlotsAt(row["fp"].unixtime)
  BY SlotFound
<1>2. PICK c : c = row["fp"].id /\ c \in Ids /\ pc["fp"] = "take_delete"
  BY DEF TakeDelete, SlotInv
<1>3. r \in Index
  BY <1>1 DEF SlotsAt
<1>4. /\ pc'["fp"] = "take_count" /\ row'["fp"] = row["fp"] /\ UNCHANGED <<sec, asked, runs>>
      /\ db' = [db EXCEPT ![r] = Clear]
  BY <1>1 DEF TakeDelete, DeleteRow, Goto, TypeInv, TypeOK, Procs
<1>5. \A d \in Ids : ~InHand(d) /\ (InHand(d)' <=> d = c)
  BY <1>2, <1>4 DEF InHand, Hand
<1>6. \A s \in Index : db'[s] = IF s = r THEN Clear ELSE db[s]
  BY <1>4 DEF TypeInv, TypeOK
<1>7. ASSUME NEW d \in Ids, InHand(d)'
      PROVE  /\ sec' = When(asked'[d], Len(runs'[d]))
             /\ row'["fp"].periodical = asked'[d].periodical
  BY <1>2, <1>4, <1>5, <1>7 DEF TimesInv, ReadTimes
<1>8. ASSUME NEW d \in Ids, NEW s \in Holding(d)'
      PROVE  /\ db'[s].periodical = asked'[d].periodical
             /\ ~InHand(d)' => db'[s].unixtime = When(asked'[d], Len(runs'[d]))
             /\ InHand(d)' => /\ db'[s].unixtime = When(asked'[d], Len(runs'[d]) + 1)
                              /\ db'[s].unixtime > sec'
  <2>1. s # r /\ s \in Holding(d) /\ db'[s] = db[s]
    BY <1>6, <1>8, FlightPlanAssumption DEF Holding, Clear
  <2>2. d # c
    BY <1>1, <1>2, <2>1 DEF AskedInv, ReadInv
  <2> QED
    BY <1>4, <1>5, <2>1, <2>2 DEF TimesInv
<1>9. ExactTimes'
  BY <1>4 DEF TimesInv, ExactTimes
<1>10. ReadTimes'
  BY <1>4 DEF ReadTimes
<1> QED
  BY <1>7, <1>8, <1>9, <1>10 DEF TimesInv

(* The task puts the entry back, for one period later. *)
LEMMA TimesTaskStores ==
    ASSUME TypeInv, TypeInv', AskedInv, SlotInv, TimesInv, SetStore("fp"),
           SlotsAt(ST_FP_NULL) # {}
    PROVE  TimesInv'
<1>1. PICK c : c = row["fp"].id
  OBVIOUS
<1>2. /\ pc["fp"] = "set_store" /\ c \in Ids /\ row["fp"].periodical \in Nat
      /\ row["fp"].unixtime = sec + row["fp"].periodical /\ row["fp"].periodical > 0
      /\ sec \in Nat
  BY <1>1, EntryFields DEF SetStore, SlotInv, Hand, TypeInv, TypeOK, Procs
<1>3. PICK r \in Index : db' = [db EXCEPT ![r] = Stored("fp")] /\ r \in SlotsAt(ST_FP_NULL)
  BY SlotFound DEF SetStore, Stored, SlotsAt
<1>4. pc'["fp"] = "set_count" /\ UNCHANGED <<row, sec, asked, runs>>
  BY DEF SetStore, Goto, TypeInv, TypeOK, Procs
<1>5. \A s \in Index : s # r => db'[s] = db[s]
  BY <1>3 DEF TypeInv, TypeOK
<1>6. /\ db'[r].id = c /\ db'[r].periodical = row["fp"].periodical
      /\ db'[r].unixtime = row["fp"].unixtime
  BY <1>1, <1>3, StoredFields DEF TypeInv, TypeOK, Procs
<1>7. \A d \in Ids : (InHand(d)' <=> d = c) /\ (InHand(d) <=> d = c)
  BY <1>1, <1>2, <1>4 DEF InHand, Hand
<1>8. sec = When(asked[c], Len(runs[c])) /\ row["fp"].periodical = asked[c].periodical
      /\ asked[c] \in Entry /\ Len(runs[c]) \in Nat
  BY SMTT(60), <1>2, <1>7 DEF TimesInv, TypeInv, TypeOK
<1>9. Holding(c) = {}
  BY <1>1, <1>2 DEF AskedInv, OutOfTable
<1>10. ASSUME NEW d \in Ids, InHand(d)'
       PROVE  /\ sec' = When(asked'[d], Len(runs'[d]))
              /\ row'["fp"].periodical = asked'[d].periodical
  BY <1>4, <1>7, <1>8, <1>10
<1>11. ASSUME NEW d \in Ids, NEW s \in Holding(d)'
       PROVE  /\ db'[s].periodical = asked'[d].periodical
              /\ ~InHand(d)' => db'[s].unixtime = When(asked'[d], Len(runs'[d]))
              /\ InHand(d)' => /\ db'[s].unixtime = When(asked'[d], Len(runs'[d]) + 1)
                               /\ db'[s].unixtime > sec'
  <2>0. s \in Index /\ db'[s].id = d
    BY <1>11 DEF Holding
  <2>1. CASE s = r
    <3>1. d = c
      BY <1>6, <2>0, <2>1
    <3>2. When(asked[c], Len(runs[c]) + 1) = sec + asked[c].periodical
      BY <1>8, WhenNext
    <3> QED
      BY <1>2, <1>4, <1>6, <1>7, <1>8, <2>1, <3>1, <3>2
  <2>2. CASE s # r
    <3>1. s \in Holding(d) /\ db'[s] = db[s]
      BY <1>5, <2>0, <2>2 DEF Holding
    <3>2. d # c
      BY <1>9, <3>1
    <3> QED
      BY <1>4, <1>7, <3>1, <3>2 DEF TimesInv
  <2> QED
    BY <2>1, <2>2
<1>12. ExactTimes'
  BY <1>4 DEF TimesInv, ExactTimes
<1>13. ReadTimes'
  BY <1>4 DEF ReadTimes
<1> QED
  BY <1>10, <1>11, <1>12, <1>13 DEF TimesInv

(* The task sends the command of its second. *)
LEMMA TimesTaskSends ==
    ASSUME TypeInv, TypeInv', AskedInv, SlotInv, TimesInv, TaskSend
    PROVE  TimesInv'
<1>1. PICK c : c = row["fp"].id
  OBVIOUS
<1>2. pc["fp"] = "send" /\ c \in Ids
  BY <1>1 DEF TaskSend, SlotInv, Hand
<1>3. /\ pc'["fp"] = "idle" /\ UNCHANGED <<db, asked>>
      /\ runs' = [runs EXCEPT ![c] = Append(runs[c], sec)]
  BY <1>1 DEF TaskSend, ReturnTo, Goto, TypeInv, TypeOK, Procs
<1>4. /\ runs[c] \in Seq(Nat) /\ sec \in Nat /\ asked[c] \in Entry /\ Len(runs[c]) \in Nat
      /\ runs'[c] = Append(runs[c], sec)
      /\ \A d \in Ids : d # c => runs'[d] = runs[d]
  BY SMTT(60), <1>2, <1>3 DEF TypeInv, TypeOK
<1>5. /\ Len(runs'[c]) = Len(runs[c]) + 1 /\ runs'[c][Len(runs[c]) + 1] = sec
      /\ \A k \in 1 .. Len(runs[c]) : runs'[c][k] = runs[c][k]
  BY <1>4
<1>6. \A d \in Ids : ~InHand(d)' /\ (InHand(d) <=> d = c)
  BY <1>1, <1>2, <1>3 DEF InHand, Hand
<1>7. ASSUME NEW d \in Ids, NEW s \in Holding(d)'
      PROVE  /\ db'[s].periodical = asked'[d].periodical
             /\ ~InHand(d)' => db'[s].unixtime = When(asked'[d], Len(runs'[d]))
             /\ InHand(d)' => /\ db'[s].unixtime = When(asked'[d], Len(runs'[d]) + 1)
                              /\ db'[s].unixtime > sec'
  <2>1. s \in Holding(d)
    BY <1>3, <1>7 DEF Holding
  <2> QED
    BY <1>3, <1>4, <1>5, <1>6, <2>1 DEF TimesInv
<1>8. ExactTimes'
  <2> SUFFICES ASSUME NEW d \in Ids, NEW k \in 1 .. Len(runs'[d])
               PROVE  runs'[d][k] = asked[d].unixtime + (k - 1) * asked[d].periodical
    BY <1>3 DEF ExactTimes
  <2>1. CASE d # c
    BY SMTT(60), <1>4, <2>1 DEF TimesInv, ExactTimes
  <2>2. CASE d = c /\ k = Len(runs[c]) + 1
    <3>1. sec = When(asked[c], Len(runs[c]))
      BY <1>2, <1>6 DEF TimesInv
    <3>2. k - 1 = Len(runs[c])
      BY <1>4, <2>2
    <3> QED
      BY <1>5, <2>2, <3>1, <3>2 DEF When
  <2>3. CASE d = c /\ k \in 1 .. Len(runs[c])
    BY <1>5, <2>3 DEF TimesInv, ExactTimes
  <2> QED
    BY <1>4, <1>5, <2>1, <2>2, <2>3
<1>9. ReadTimes'
  BY <1>3 DEF ReadTimes
<1> QED
  BY <1>6, <1>7, <1>8, <1>9 DEF TimesInv

LEMMA TimesNext ==
    TypeInv /\ TypeInv' /\ AskedInv /\ SlotInv /\ TimesInv /\ [Next]_vars => TimesInv'
<1> SUFFICES ASSUME TypeInv, TypeInv', AskedInv, SlotInv, TimesInv, [Next]_vars PROVE TimesInv'
  OBVIOUS
<1>1. CASE CommandStep
  <2>1. CASE SetStore("cmd")
    BY <2>1, TimesCommandStores
  <2>2. CASE SetStore("fp")
    <3>1. pc["fp"] = "set_store" /\ pc'["fp"] # "set_store"
      BY <2>2 DEF SetStore, AfterSet, Goto, ReturnTo, TypeInv, TypeOK, Procs
    <3> QED
      BY <1>1, <3>1 DEF CommandStep, TaskStays
  <2>3. CASE \A p \in Procs : ~SetStore(p)
    <3>1. \A s \in Index : db'[s] = db[s] \/ db'[s] = Clear
      BY <2>3, SlotStep
    <3>2. asked' = asked
      BY <2>3, AskedStep DEF Procs
    <3>3. \A d \in Ids : InHand(d)' <=> InHand(d)
      BY <1>1 DEF CommandStep, TaskStays, InHand
    <3>4. ReadTimes'
      BY <1>1, <3>2 DEF CommandStep, TaskStays, ReadTimes, TimesInv
    <3> QED
      BY <1>1, <3>1, <3>2, <3>3, <3>4, TimesSame DEF CommandStep, TaskStays
  <2> QED
    BY <2>1, <2>2, <2>3 DEF Procs
<1> USE DEF Goto, ReturnTo, AfterSet, AfterTake, Procs, history, InHand, Hand, ReadTimes
<1>0. /\ pc \in [Procs -> Steps] /\ row \in [Procs -> Entry] /\ row["fp"] \in Entry
  BY DEF TypeInv, TypeOK
<1>2. CASE TaskWake \/ TakeRead("fp")
  BY <1>0, <1>2, TimesSame DEF TaskWake, TakeRead
<1>3. CASE TakeDelete("fp")
  <2>1. CASE SlotsAt(row["fp"].unixtime) = {}
    BY <1>0, <1>3, <2>1, TimesSame DEF TakeDelete
  <2> QED
    BY <1>3, <2>1, TimesTaskTakes
<1>8. CASE TakeEntry
  BY <1>8, TimesTaskReads
<1>4. CASE TakeCount("fp") \/ SetRead("fp") \/ SetCount("fp")
  BY <1>0, <1>4, TimesSame DEF TakeCount, SetRead, SetCount
<1>5. CASE TaskAgain
  <2>1. row'["fp"].id = row["fp"].id /\ row'["fp"].periodical = row["fp"].periodical
    BY <1>0, <1>5 DEF TaskAgain, Entry
  <2> QED
    BY <1>0, <1>5, <2>1, TimesSame DEF TaskAgain
<1>6. CASE SetStore("fp")
  <2>1. CASE SlotsAt(ST_FP_NULL) = {}
    BY <1>0, <1>6, <2>1, TimesSame DEF SetStore
  <2> QED
    BY <1>6, <2>1, TimesTaskStores
<1>7. CASE TaskSend
  BY <1>7, TimesTaskSends
<1> QED
  BY <1>1, <1>2, <1>3, <1>4, <1>5, <1>6, <1>7, <1>8, TaskCases

--------------------------------------------------------------------------------
(* ... and in each of them that the task did not miss *)

(* The last second whose entries the task has looked for. *)
Due == IF served /\ pc["fp"] = "idle" THEN now ELSE now - 1

SentBy(c, t) == \E k \in 1 .. Len(runs[c]) : runs[c][k] = t

Excused(s) ==
    \/ db[s].since >= db[s].unixtime
    \/ \E d \in Ids \ {db[s].id} : SentBy(d, db[s].unixtime)

OnTimeInv ==
    "missed" \notin seen =>
        /\ pc["fp"] # "idle" => sec = now
        /\ \A s \in Index : db[s].unixtime \in 0 .. Due => Excused(s)

LEMMA OnTimeInit == Init => OnTimeInv
  BY DEF Init, OnTimeInv, Clear, ST_FP_NULL, Procs

(* What was sent stays sent. *)
LEMMA SentStays ==
    ASSUME TypeInv, [Next]_vars, NEW c \in Ids, NEW t, SentBy(c, t)
    PROVE  SentBy(c, t)'
<1>1. CASE runs' = runs
  BY <1>1 DEF SentBy
<1>2. CASE TaskSend
  <2>1. runs[c] \in Seq(Nat) /\ sec \in Nat
    BY DEF TypeInv, TypeOK
  <2>2. runs'[c] = runs[c] \/ runs'[c] = Append(runs[c], sec)
    BY <1>2 DEF TaskSend, TypeInv, TypeOK
  <2>3. /\ Len(Append(runs[c], sec)) = Len(runs[c]) + 1
        /\ \A k \in 1 .. Len(runs[c]) : Append(runs[c], sec)[k] = runs[c][k]
    BY <2>1
  <2>4. Len(runs[c]) \in Nat
    BY <2>1
  <2> QED
    BY SMTT(60), <2>2, <2>3, <2>4 DEF SentBy
<1>3. runs' = runs \/ TaskSend
  BY NextCases
  DEF SetRead, SetStore, SetCount, TakeRead, TakeEntry, TakeDelete, TakeCount, TaskWake, TaskAgain, FpSet,
      FpDelete, FpReset, ResetCount, FpPurge, PurgeRead, PurgeDelete, PurgeCount, Tick, vars,
      history
<1> QED
  BY <1>1, <1>2, <1>3

(* The task finds no entry of its second, or none any more. *)
NothingFound ==
    /\ pc["fp"] \in {"take_entry", "take_delete"}
    /\ SlotsAt(row["fp"].unixtime) = {}

(* When the task has looked for the entries of one more second. *)
LEMMA DueStep ==
    ASSUME TypeInv, SlotInv, OnTimeInv, [Next]_vars, "missed" \notin seen'
    PROVE  /\ "missed" \notin seen
           /\ pc'["fp"] # "idle" => sec' = now'
           /\ Due \in Int /\ Due' \in Int /\ Due' <= now'
           /\ \/ Due' <= Due
              \/ now' = now /\ Due' = now /\ (TaskSend \/ NothingFound)
<1> USE DEF Goto, ReturnTo, AfterSet, AfterTake, Procs, Overlap
<1>0. /\ pc \in [Procs -> Steps] /\ sec \in Nat /\ now \in Nat /\ served \in BOOLEAN
      /\ pc["fp"] # "idle" /\ "missed" \notin seen => sec = now
  BY DEF TypeInv, TypeOK, OnTimeInv
<1>1. ASSUME NEW p \in Procs, SetRead(p) \/ SetCount(p) \/ TakeRead(p) \/ TakeCount(p)
      PROVE  /\ "missed" \notin seen /\ (pc'["fp"] # "idle" => sec' = now')
             /\ Due' \in Int /\ Due' <= now' /\ Due' <= Due
  BY <1>0, <1>1 DEF SetRead, SetCount, TakeRead, TakeCount, Due
<1>2. ASSUME NEW p \in Procs, SetStore(p)
      PROVE  /\ "missed" \notin seen /\ (pc'["fp"] # "idle" => sec' = now')
             /\ Due' \in Int /\ Due' <= now' /\ Due' <= Due
  BY <1>0, <1>2 DEF SetStore, Due
<1>3. CASE TakeDelete("cmd")
  BY <1>0, <1>3 DEF TakeDelete, Due
<1>4. CASE TakeEntry \/ TakeDelete("fp")
  BY <1>0, <1>4 DEF TakeEntry, TakeDelete, Due, NothingFound
<1>5. CASE TaskWake \/ TaskAgain \/ TaskSend
  BY <1>0, <1>5 DEF TaskWake, TaskAgain, TaskSend, Due
<1>6. CASE FpReset \/ ResetCount \/ FpPurge \/ PurgeRead \/ PurgeDelete \/ PurgeCount
  BY <1>0, <1>6 DEF FpReset, ResetCount, FpPurge, PurgeRead, PurgeDelete, PurgeCount, Due
<1>7. CASE \/ \E d \in Ids, r \in Requests : FpSet(d, r)
           \/ \E t \in Deletes : FpDelete(t)
  BY <1>0, <1>7 DEF FpSet, FpDelete, Due
<1>8. CASE Tick
  BY <1>0, <1>8 DEF Tick, Due
<1>9. CASE UNCHANGED vars
  BY <1>0, <1>9 DEF vars, Due
<1>10. Due \in Int
  BY <1>0 DEF Due
<1> QED
  BY <1>1, <1>2, <1>3, <1>4, <1>5, <1>6, <1>7, <1>8, <1>9, <1>10, NextCases

LEMMA OnTimeNext ==
    TypeInv /\ AskedInv /\ SlotInv /\ TimesInv /\ OnTimeInv /\ [Next]_vars => OnTimeInv'
<1> SUFFICES ASSUME TypeInv, AskedInv, SlotInv, TimesInv, OnTimeInv, [Next]_vars,
                    "missed" \notin seen'
             PROVE  /\ pc'["fp"] # "idle" => sec' = now'
                    /\ \A s \in Index : db'[s].unixtime \in 0 .. Due' => Excused(s)'
  BY DEF OnTimeInv
<1>1. ASSUME NEW s \in Index, db'[s].unixtime \in 0 .. Due'
      PROVE  Excused(s)'
  <2>0. /\ "missed" \notin seen /\ Due \in Int /\ Due' \in Int /\ Due' <= now'
        /\ db[s] \in Entry /\ now \in Nat /\ sec \in Nat
    BY DueStep DEF TypeInv, TypeOK
  <2>1. ASSUME db'[s] = db[s], Excused(s) PROVE Excused(s)'
    <3>1. CASE db[s].since >= db[s].unixtime
      BY <2>1, <3>1 DEF Excused
    <3>2. ASSUME NEW d \in Ids \ {db[s].id}, SentBy(d, db[s].unixtime) PROVE Excused(s)'
      <4>1. PICK t : t = db[s].unixtime
        OBVIOUS
      <4>2. SentBy(d, t)'
        BY <3>2, <4>1, SentStays
      <4> QED
        BY <2>1, <3>2, <4>1, <4>2 DEF Excused, SentBy
    <3> QED
      BY <2>1, <3>1, <3>2 DEF Excused
  <2>2. CASE db'[s] = db[s] /\ Due' <= Due
    BY <1>1, <2>0, <2>1, <2>2 DEF OnTimeInv
  <2>3. CASE db'[s] = db[s] /\ NothingFound /\ Due' = now
    <3>1. row["fp"].unixtime = sec /\ sec = now
      BY <2>0, <2>3 DEF NothingFound, SlotInv, OnTimeInv
    <3>2. db[s].unixtime # now
      BY <2>3, <3>1 DEF SlotsAt, NothingFound
    <3>3. db[s].unixtime \in 0 .. Due
      BY <1>1, <2>0, <2>3, <3>2 DEF Due
    <3> QED
      BY <2>0, <2>1, <2>3, <3>3 DEF OnTimeInv
  <2>4. CASE db'[s] = db[s] /\ TaskSend /\ Due' = now
    <3>1. PICK c : c = row["fp"].id
      OBVIOUS
    <3>2. pc["fp"] = "send" /\ c \in Ids /\ InHand(c) /\ sec = now
      BY <2>0, <2>4, <3>1 DEF TaskSend, SlotInv, Hand, InHand, OnTimeInv
    <3>3. CASE db[s].unixtime \in 0 .. Due
      BY <2>0, <2>1, <2>4, <3>3 DEF OnTimeInv
    <3>4. CASE db[s].unixtime = now
      <4>1. db[s].id # c
        BY <2>0, <3>2, <3>4 DEF TimesInv, Holding
      <4>2. runs[c] \in Seq(Nat) /\ runs'[c] = Append(runs[c], sec)
        BY <2>4, <3>1, <3>2 DEF TaskSend, TypeInv, TypeOK
      <4>3. Len(runs'[c]) = Len(runs[c]) + 1 /\ runs'[c][Len(runs[c]) + 1] = sec
            /\ Len(runs[c]) \in Nat
        BY <2>0, <4>2
      <4>4. Len(runs[c]) + 1 \in 1 .. Len(runs'[c])
        BY <4>3
      <4> QED
        BY <2>4, <3>2, <3>4, <4>1, <4>3, <4>4 DEF Excused, SentBy
    <3> QED
      BY <1>1, <2>0, <2>4, <3>3, <3>4 DEF Due
  <2>5. CASE db'[s] = Clear
    BY <1>1, <2>0, <2>5 DEF Clear, ST_FP_NULL
  <2>6. ASSUME NEW p \in Procs, SetStore(p), db'[s] = Stored(p) PROVE Excused(s)'
    <3>1. db'[s].since = now /\ now' = now
      BY <2>6, StoredFields DEF SetStore
    <3> QED
      BY <1>1, <2>0, <3>1 DEF Excused
  <2> QED
    BY <2>2, <2>3, <2>4, <2>5, <2>6, SlotStep, DueStep
<1> QED
  BY <1>1, DueStep

--------------------------------------------------------------------------------
(* The count, the purge and the periodic entries, while no ground command  *)
(* overlaps an iteration of the task                                       *)

Alone == pc["fp"] = "idle" \/ pc["cmd"] = "idle"

AloneInv == "overlap" \notin seen => Alone

LEMMA AloneInit == Init => AloneInv
  BY DEF Init, AloneInv, Alone, Procs

(* Only a process that is idle begins, and the other one is idle if no     *)
(* overlap is seen.                                                        *)
LEMMA AloneNext == TypeInv /\ AloneInv /\ [Next]_vars => AloneInv'
<1> SUFFICES ASSUME TypeInv, AloneInv, [Next]_vars, "overlap" \notin seen' PROVE Alone'
  BY DEF AloneInv
<1> USE DEF Alone, Goto, ReturnTo, AfterSet, AfterTake, Procs, Overlap
<1>0. pc \in [Procs -> Steps] /\ ("overlap" \notin seen => Alone)
  BY DEF TypeInv, TypeOK, AloneInv
<1>1. ASSUME NEW p \in Procs, SetRead(p) \/ SetCount(p) \/ TakeRead(p) \/ TakeCount(p)
      PROVE  Alone'
  BY <1>0, <1>1 DEF SetRead, SetCount, TakeRead, TakeCount
<1>2. ASSUME NEW p \in Procs, SetStore(p) \/ TakeDelete(p) PROVE Alone'
  BY <1>0, <1>2 DEF SetStore, TakeDelete
<1>3. CASE TaskWake \/ TakeEntry \/ TaskAgain \/ TaskSend
  BY <1>0, <1>3 DEF TaskWake, TakeEntry, TaskAgain, TaskSend
<1>4. CASE FpReset \/ ResetCount \/ FpPurge
  BY <1>0, <1>4 DEF FpReset, ResetCount, FpPurge, CmdIdle
<1>5. CASE PurgeRead \/ PurgeDelete \/ PurgeCount
  BY <1>0, <1>5 DEF PurgeRead, PurgeDelete, PurgeCount
<1>6. CASE \/ \E d \in Ids, r \in Requests : FpSet(d, r)
           \/ \E t \in Deletes : FpDelete(t)
  BY <1>0, <1>6 DEF FpSet, FpDelete, CmdIdle
<1>7. CASE Tick \/ UNCHANGED vars
  BY <1>0, <1>7 DEF Tick, vars
<1> QED
  BY <1>1, <1>2, <1>3, <1>4, <1>5, <1>6, <1>7, NextCases

LEMMA SeenStays == ASSUME [Next]_vars PROVE seen \subseteq seen'
  BY NextCases
  DEF SetRead, SetStore, SetCount, TakeRead, TakeEntry, TakeDelete, TakeCount, TaskWake, TaskAgain, TaskSend,
      FpSet, FpDelete, FpReset, ResetCount, FpPurge, PurgeRead, PurgeDelete, PurgeCount, Tick,
      vars, Overlap

LEMMA PurgeInit == Init => PurgeOnlyOld
  BY DEF Init, PurgeOnlyOld, Procs

LEMMA PurgeNext == TypeInv /\ AloneInv /\ PurgeOnlyOld /\ [Next]_vars => PurgeOnlyOld'
<1> SUFFICES ASSUME TypeInv, AloneInv, PurgeOnlyOld, [Next]_vars,
                    pc'["cmd"] = "purge_delete", "overlap" \notin seen'
             PROVE  db'[i'].unixtime <= time_min'
  BY DEF PurgeOnlyOld
<1> USE DEF Goto, ReturnTo, AfterSet, AfterTake, Procs
<1>0. pc \in [Procs -> Steps] /\ "overlap" \notin seen /\ Alone
  BY SeenStays DEF TypeInv, TypeOK, AloneInv
<1>1. CASE UNCHANGED <<db, i, time_min>> /\ pc["cmd"] = "purge_delete"
  BY <1>0, <1>1 DEF PurgeOnlyOld
<1>2. CASE PurgeRead
  <2>1. UNCHANGED <<db, i, time_min>> /\ ~Future(db[i])
    BY <1>0, <1>2 DEF PurgeRead
  <2>2. db[i] \in Entry /\ time_min \in Nat
    BY <1>2, FlightPlanAssumption DEF PurgeRead, TypeInv, TypeOK, Index
  <2>3. db[i].unixtime \in Int
    BY <2>2 DEF Entry, ST_FP_NULL
  <2> QED
    BY <2>1, <2>2, <2>3 DEF Future
<1>3. ASSUME NEW p \in Procs,
             \/ SetRead(p) \/ SetStore(p) \/ SetCount(p) \/ TakeRead(p) \/ TakeDelete(p) \/ TakeCount(p)
      PROVE  FALSE
  <2>1. pc[p] \notin {"idle", "purge_delete"}
    BY <1>3 DEF SetRead, SetStore, SetCount, TakeRead, TakeDelete, TakeCount
  <2>2. p = "fp" => pc'["cmd"] = pc["cmd"]
    BY <1>0, <1>3 DEF SetRead, SetStore, SetCount, TakeRead, TakeDelete, TakeCount
  <2>3. p = "cmd" => pc'["cmd"] # "purge_delete"
    BY <1>0, <1>3 DEF SetRead, SetStore, SetCount, TakeRead, TakeDelete, TakeCount
  <2> QED
    BY <1>0, <2>1, <2>2, <2>3 DEF Alone
<1>4. CASE TaskWake \/ TakeEntry \/ TaskAgain \/ TaskSend \/ Tick \/ UNCHANGED vars
  <2>1. UNCHANGED <<db, i, time_min>> /\ pc["cmd"] = "purge_delete"
    BY <1>0, <1>4 DEF TaskWake, TakeEntry, TaskAgain, TaskSend, Tick, vars, purge
  <2> QED
    BY <1>1, <2>1
<1>5. CASE \/ FpReset \/ ResetCount \/ FpPurge \/ PurgeDelete \/ PurgeCount
           \/ \E d \in Ids, r \in Requests : FpSet(d, r)
           \/ \E t \in Deletes : FpDelete(t)
  BY <1>0, <1>5 DEF FpReset, ResetCount, FpPurge, PurgeDelete, PurgeCount, FpSet, FpDelete
<1> QED
  BY <1>2, <1>3, <1>4, <1>5, NextCases

(* The number of entries in the table, and in the slots the purge has seen. *)
N == Cardinality(Occupied)
Kept == {s \in Occupied : s < i}

Settled == {"idle", "set_read", "set_store", "take_read", "take_entry", "take_delete", "again",
            "send"}

(* A function that changed the table has the count from before it; dat_    *)
(* purge_fp has counted the entries it kept.                               *)
CountInv ==
    "overlap" \notin seen /\ "reset" \notin seen =>
        /\ pc["cmd"] # "reset_count"
        /\ \A p \in Procs :
              /\ pc[p] \in {"set_store", "take_entry", "take_delete"} => entries[p] = N
              /\ pc[p] = "set_count" => entries[p] + 1 = N
              /\ pc[p] = "take_count" => entries[p] - 1 = N
        /\ pc["fp"] \in Settled /\ pc["cmd"] \in Settled => fpl_queue = N
        /\ pc["cmd"] \in {"purge_read", "purge_delete"} => fp_entries = Cardinality(Kept)

LEMMA OccupiedFinite ==
    ASSUME TypeInv
    PROVE  IsFiniteSet(Occupied) /\ N \in Nat /\ IsFiniteSet(Kept) /\ Cardinality(Kept) \in Nat
<1>1. IsFiniteSet(Index)
  BY FlightPlanAssumption, FS_Interval DEF Index
<1>2. Occupied \in SUBSET Index /\ Kept \in SUBSET Index
  BY DEF Occupied, Kept
<1>3. IsFiniteSet(Occupied) /\ IsFiniteSet(Kept)
  BY <1>1, <1>2, FS_Subset
<1> QED
  BY <1>3, FS_CardinalityType DEF N

LEMMA OccupiedStore ==
    ASSUME TypeInv, NEW s \in Index, NEW e, db' = [db EXCEPT ![s] = e],
           e.unixtime # ST_FP_NULL, db[s].unixtime = ST_FP_NULL
    PROVE  N' = N + 1
<1>1. Occupied' = Occupied \cup {s} /\ s \notin Occupied
  BY DEF Occupied, TypeInv, TypeOK
<1> QED
  BY <1>1, OccupiedFinite, FS_AddElement DEF N

LEMMA OccupiedClear ==
    ASSUME TypeInv, NEW s \in Index, db' = [db EXCEPT ![s] = Clear],
           db[s].unixtime # ST_FP_NULL
    PROVE  N' = N - 1
<1>1. Occupied' = Occupied \ {s} /\ s \in Occupied
  BY DEF Occupied, Clear, TypeInv, TypeOK
<1> QED
  BY <1>1, OccupiedFinite, FS_RemoveElement DEF N

LEMMA CountInit == Init => CountInv
<1> SUFFICES ASSUME Init PROVE CountInv
  OBVIOUS
<1>1. Occupied = {}
  BY DEF Init, Occupied, Clear
<1>2. N = 0
  BY <1>1, FS_EmptySet DEF N
<1> QED
  BY <1>2 DEF Init, CountInv, Procs

(* The purge passes a slot: it is counted if it is kept. *)
LEMMA PurgeCounts ==
    ASSUME TypeInv, CountInv, PurgeRead, "overlap" \notin seen, "reset" \notin seen
    PROVE  fp_entries' = Cardinality(Kept')
<1> USE DEF Goto, Procs
<1>0. /\ i \in Index /\ db[i] \in Entry /\ time_min \in Nat /\ fp_entries \in Nat /\ i \in Nat
      /\ pc["cmd"] = "purge_read" /\ Occupied' = Occupied
      /\ fp_entries = Cardinality(Kept) /\ IsFiniteSet(Kept) /\ Occupied \subseteq Nat
  BY FlightPlanAssumption, OccupiedFinite
  DEF PurgeRead, TypeInv, TypeOK, Index, Occupied, CountInv
<1>4. \A s \in Occupied : (s < i + 1 <=> s < i \/ s = i) /\ ~(i < i)
  BY <1>0
<1>1. CASE Future(db[i]) /\ fp_entries' = fp_entries + 1 /\ i' = i + 1
  <2>1. i \in Occupied
    BY <1>0, <1>1 DEF Future, Occupied, ST_FP_NULL
  <2>2. Kept' = Kept \cup {i} /\ i \notin Kept
    BY <1>0, <1>1, <1>4, <2>1 DEF Kept
  <2> QED
    BY <1>0, <1>1, <2>2, FS_AddElement
<1>2. CASE fp_entries' = fp_entries /\ i' = i
  BY <1>0, <1>2 DEF Kept
<1>3. CASE db[i].unixtime = ST_FP_NULL /\ fp_entries' = fp_entries /\ i' = i + 1
  <2>1. i \notin Occupied
    BY <1>3 DEF Occupied
  <2>2. Kept' = Kept
    BY <1>0, <1>3, <1>4, <2>1 DEF Kept
  <2> QED
    BY <1>0, <1>3, <2>2
<1> QED
  BY <1>1, <1>2, <1>3 DEF PurgeRead

(* The slot that is cleared is none of those that were kept. *)
LEMMA PurgeClears ==
    ASSUME TypeInv, PurgeDelete PROVE Kept' = Kept
<1>1. /\ i \in Index /\ i \in Nat /\ db' = [db EXCEPT ![i] = Clear] /\ i' = i + 1
      /\ db \in [Index -> Entry] /\ Index \subseteq Nat
  BY FlightPlanAssumption DEF PurgeDelete, DeleteRow, TypeInv, TypeOK, LocalInv, Index
<1>2. Occupied' = Occupied \ {i}
  BY <1>1 DEF Occupied, Clear
<1>3. \A s \in Occupied : (s < i + 1 <=> s < i \/ s = i) /\ ~(i < i)
  BY <1>1 DEF Occupied
<1> QED
  BY <1>1, <1>2, <1>3 DEF Kept

LEMMA CountNext ==
    TypeInv /\ TypeInv' /\ AskedInv /\ SlotInv /\ AloneInv /\ CountInv /\ [Next]_vars => CountInv'
<1> SUFFICES ASSUME TypeInv, TypeInv', AskedInv, SlotInv, AloneInv, CountInv, [Next]_vars,
                    "overlap" \notin seen', "reset" \notin seen'
             PROVE  CountInv'
  BY DEF CountInv
<1> USE DEF Goto, ReturnTo, Procs, Settled
<1>0. /\ pc \in [Procs -> Steps] /\ entries \in [Procs -> Int] /\ fpl_queue \in Int
      /\ "overlap" \notin seen /\ "reset" \notin seen /\ Alone /\ N \in Nat
  BY SeenStays, OccupiedFinite DEF TypeInv, TypeOK, AloneInv
<1>1. /\ pc["cmd"] # "reset_count"
      /\ \A p \in Procs :
            /\ pc[p] \in {"set_store", "take_entry", "take_delete"} => entries[p] = N
            /\ pc[p] = "set_count" => entries[p] + 1 = N
            /\ pc[p] = "take_count" => entries[p] - 1 = N
      /\ pc["fp"] \in Settled /\ pc["cmd"] \in Settled => fpl_queue = N
      /\ pc["cmd"] \in {"purge_read", "purge_delete"} => fp_entries = Cardinality(Kept)
  BY <1>0 DEF CountInv
<1>2. ASSUME UNCHANGED db PROVE N' = N /\ (UNCHANGED i => Kept' = Kept)
  BY <1>2 DEF N, Occupied, Kept
<1>3. ASSUME NEW p \in Procs, pc[p] # "idle", NEW q \in Procs, q # p PROVE pc[q] = "idle"
  BY <1>0, <1>3 DEF Alone
<1>4. ASSUME NEW p \in Procs, SetRead(p) \/ TakeRead(p) PROVE CountInv'
  <2>1. /\ pc[p] \in {"set_read", "take_read"} /\ UNCHANGED <<db, i, fpl_queue>>
        /\ entries' = [entries EXCEPT ![p] = fpl_queue]
        /\ \E k \in {"set_store", "take_entry", "take_delete"} : pc' = [pc EXCEPT ![p] = k]
    BY <1>4 DEF SetRead, TakeRead, status, purge
  <2>2. fpl_queue = N
    BY <1>0, <1>1, <1>3, <2>1
  <2> QED
    BY <1>0, <1>1, <1>2, <1>3, <2>1, <2>2 DEF CountInv
<1>5. ASSUME NEW p \in Procs, SetCount(p) \/ TakeCount(p) PROVE CountInv'
  BY <1>0, <1>1, <1>2, <1>3, <1>5 DEF SetCount, TakeCount, AfterSet, AfterTake, CountInv
<1>6. ASSUME NEW p \in Procs, SetStore(p) PROVE CountInv'
  <2>0. pc[p] = "set_store" /\ entries[p] = N /\ fpl_queue = N
    BY <1>0, <1>1, <1>3, <1>6 DEF SetStore
  <2>1. CASE SlotsAt(ST_FP_NULL) = {}
    <3>1. UNCHANGED db /\ fpl_queue' = fpl_queue /\ pc' = [pc EXCEPT ![p] = AfterSet(p)]
          /\ entries' = [entries EXCEPT ![p] = 0]
      BY <1>6, <2>1 DEF SetStore, status
    <3> QED
      BY <1>0, <1>1, <1>2, <1>3, <2>0, <3>1 DEF AfterSet, CountInv
  <2>2. CASE SlotsAt(ST_FP_NULL) # {}
    <3>1. PICK r \in Index : db' = [db EXCEPT ![r] = Stored(p)] /\ db[r].unixtime = ST_FP_NULL
      BY <1>6, <2>2, SlotFound DEF SetStore, Stored, SlotsAt
    <3>2. row[p].unixtime # ST_FP_NULL
      <4>1. row[p] \in Entry /\ sec \in Nat
        BY DEF TypeInv, TypeOK
      <4>2. row[p].periodical \in Nat
        BY <4>1, EntryFields
      <4>3. row[p].unixtime \in Nat
        BY <2>0, <4>1, <4>2 DEF SlotInv
      <4> QED
        BY <4>3 DEF ST_FP_NULL
    <3>3. N' = N + 1
      BY <3>1, <3>2, StoredFields, OccupiedStore
    <3>4. pc' = [pc EXCEPT ![p] = "set_count"] /\ UNCHANGED entries
      BY <1>6, <2>2 DEF SetStore
    <3> QED
      BY <1>0, <1>1, <1>3, <2>0, <3>3, <3>4 DEF CountInv
  <2> QED
    BY <2>1, <2>2
<1>7. ASSUME NEW p \in Procs, TakeDelete(p) PROVE CountInv'
  <2>0. pc[p] = "take_delete" /\ entries[p] = N /\ fpl_queue = N
    BY <1>0, <1>1, <1>3, <1>7 DEF TakeDelete
  <2>1. CASE SlotsAt(row[p].unixtime) = {}
    <3>1. UNCHANGED db /\ fpl_queue' = fpl_queue /\ pc' = [pc EXCEPT ![p] = "idle"]
          /\ entries' = [entries EXCEPT ![p] = 0]
      BY <1>7, <2>1 DEF TakeDelete, status
    <3> QED
      BY <1>0, <1>1, <1>2, <1>3, <2>0, <3>1 DEF CountInv
  <2>2. CASE SlotsAt(row[p].unixtime) # {}
    <3>1. PICK r \in Index : db' = [db EXCEPT ![r] = Clear] /\ db[r].unixtime = row[p].unixtime
      BY <1>7, <2>2, SlotFound DEF TakeDelete, DeleteRow, SlotsAt
    <3>2. row[p].unixtime # ST_FP_NULL
      <4>1. sec \in Nat
        BY DEF TypeInv, TypeOK
      <4>2. row[p].unixtime \in Nat
        BY <2>0, <4>1 DEF SlotInv
      <4> QED
        BY <4>2 DEF ST_FP_NULL
    <3>3. N' = N - 1
      BY <3>1, <3>2, OccupiedClear
    <3>4. pc' = [pc EXCEPT ![p] = "take_count"] /\ UNCHANGED entries
      BY <1>7, <2>2 DEF TakeDelete
    <3> QED
      BY <1>0, <1>1, <1>3, <2>0, <3>3, <3>4 DEF CountInv
  <2> QED
    BY <2>1, <2>2
<1>15. CASE TakeEntry
  <2>0. pc["fp"] = "take_entry" /\ entries["fp"] = N /\ fpl_queue = N
    BY <1>0, <1>1, <1>3, <1>15 DEF TakeEntry
  <2>1. /\ UNCHANGED db /\ fpl_queue' = fpl_queue
        /\ \/ pc' = [pc EXCEPT !["fp"] = "take_delete"] /\ UNCHANGED entries
           \/ pc' = [pc EXCEPT !["fp"] = "idle"] /\ entries' = [entries EXCEPT !["fp"] = 0]
    BY <1>15 DEF TakeEntry, status
  <2> QED
    BY <1>0, <1>1, <1>2, <1>3, <2>0, <2>1 DEF CountInv
<1>8. CASE TaskWake \/ TaskAgain \/ TaskSend \/ Tick \/ UNCHANGED vars
  BY <1>0, <1>1, <1>2, <1>3, <1>8
  DEF TaskWake, TaskAgain, TaskSend, Tick, vars, status, purge, CountInv, Overlap
<1>9. CASE \/ \E d \in Ids, r \in Requests : FpSet(d, r)
           \/ \E t \in Deletes : FpDelete(t)
  BY <1>0, <1>1, <1>2, <1>3, <1>9 DEF FpSet, FpDelete, CmdIdle, status, purge, CountInv, Overlap
<1>10. CASE FpPurge
  <2>1. Kept' = {} /\ fp_entries' = 0
    BY <1>10, FlightPlanAssumption DEF FpPurge, Kept, Occupied, Index
  <2>2. Cardinality(Kept') = 0
    BY <2>1, FS_EmptySet
  <2> QED
    BY <1>0, <1>1, <1>2, <1>3, <1>10, <2>1, <2>2 DEF FpPurge, CmdIdle, status, CountInv, Overlap
<1>11. CASE PurgeRead
  <2>1. fp_entries' = Cardinality(Kept')
    BY <1>0, <1>11, PurgeCounts
  <2>2. UNCHANGED <<db, entries>> /\ pc["cmd"] = "purge_read"
        /\ pc'["cmd"] \in {"purge_read", "purge_delete"} /\ pc'["fp"] = pc["fp"]
    BY <1>0, <1>11 DEF PurgeRead
  <2> QED
    BY <1>0, <1>1, <1>2, <1>3, <2>1, <2>2 DEF CountInv
<1>12. CASE PurgeDelete
  <2>1. fp_entries' = Cardinality(Kept')
    BY <1>0, <1>1, <1>12, PurgeClears DEF PurgeDelete
  <2> QED
    BY <1>0, <1>1, <1>3, <1>12, <2>1 DEF PurgeDelete, CountInv
<1>13. CASE PurgeCount
  <2>1. Kept = Occupied /\ pc["cmd"] = "purge_read" /\ pc["fp"] = "idle"
    BY <1>0, <1>13, FlightPlanAssumption DEF PurgeCount, Kept, Occupied, Index, Alone
  <2> QED
    BY <1>0, <1>1, <1>2, <1>13, <2>1 DEF PurgeCount, N, CountInv
<1>14. ~FpReset /\ ~ResetCount
  BY <1>1 DEF FpReset, ResetCount
<1> QED
  BY <1>4, <1>5, <1>6, <1>7, <1>8, <1>9, <1>10, <1>11, <1>12, <1>13, <1>14, <1>15, NextCases

(* Nothing that ground stored and did not take away is lost: there is room *)
(* to put a periodic entry back, in the slot it was taken from.            *)
Balanced ==
    \A d \in Ids : asked[d] # Clear /\ d \notin removed =>
        Len(runs[d]) + TableLeft(d) + HandLeft(d) = AskedFor(d)

Room ==
    pc["fp"] \in {"take_count", "again", "set_read", "set_store"} => SlotsAt(ST_FP_NULL) # {}

(* What the task has read is still in the table. *)
StillThere ==
    pc["fp"] = "take_delete" => Holding(row["fp"].id) # {}

DeliveredInv == "overlap" \notin seen => Balanced /\ Room /\ StillThere

LEMMA DeliveredInit == Init => DeliveredInv
  BY DEF Init, DeliveredInv, Balanced, Room, StillThere, Procs

(* An entry is stored in a free slot: the others stay. *)
LEMMA TableStoreFree ==
    ASSUME TypeInv, Unique, NEW s \in Index, NEW e \in Entry, db[s].id \notin Ids,
           db' = [db EXCEPT ![s] = e], NEW d \in Ids, e.id # d
    PROVE  TableLeft(d)' = TableLeft(d)
<1>1. Holding(d)' = Holding(d)
  BY DEF Holding, TypeInv, TypeOK
<1>2. \A q \in Holding(d) : db'[q] = db[q]
  BY DEF Holding, TypeInv, TypeOK
<1>3. CASE Holding(d) = {}
  BY <1>1, <1>3 DEF TableLeft
<1>4. CASE Holding(d) # {}
  <2>1. First(Holding(d)) \in Holding(d)
    BY <1>4, FirstIsIn, FlightPlanAssumption DEF Holding, Index
  <2> QED
    BY <1>1, <1>2, <2>1 DEF TableLeft
<1> QED
  BY <1>3, <1>4

LEMMA BalancedSame ==
    ASSUME Balanced, UNCHANGED <<runs, asked>>, removed \subseteq removed',
           \A d \in Ids \ removed' : TableLeft(d)' = TableLeft(d) /\ HandLeft(d)' = HandLeft(d)
    PROVE  Balanced'
<1> SUFFICES ASSUME NEW d \in Ids, asked'[d] # Clear, d \notin removed'
             PROVE  Len(runs'[d]) + TableLeft(d)' + HandLeft(d)' = AskedFor(d)'
  BY DEF Balanced
<1>1. AskedFor(d)' = AskedFor(d)
  BY DEF AskedFor
<1> QED
  BY <1>1 DEF Balanced

LEMMA RoomSame == ASSUME UNCHANGED db PROVE SlotsAt(ST_FP_NULL)' = SlotsAt(ST_FP_NULL)
  BY DEF SlotsAt

LEMMA RemovedStays == ASSUME [Next]_vars PROVE removed \subseteq removed'
<1>1. ASSUME NEW p \in Procs, TakeDelete(p) PROVE removed \subseteq removed'
  BY <1>1 DEF TakeDelete
<1> QED
  BY <1>1, NextCases
  DEF SetRead, SetStore, SetCount, TakeRead, TakeEntry, TakeCount, TaskWake, TaskAgain, TaskSend,
      FpSet, FpDelete, FpReset, ResetCount, FpPurge, PurgeRead, PurgeDelete, PurgeCount, Tick,
      vars, history

(* The steps of the task that neither take, store nor send. *)
LEMMA DeliveredQuiet ==
    ASSUME TypeInv, TypeInv', AskedInv, Balanced, Room, [Next]_vars,
           \/ SetRead("fp") \/ SetCount("fp") \/ TakeRead("fp") \/ TakeCount("fp")
           \/ TaskWake \/ TaskAgain
    PROVE  Balanced' /\ Room' /\ StillThere'
<1>0. PICK e : e = row["fp"] /\ e \in Entry /\ Left(e) \in Nat
  BY LeftType DEF TypeInv, TypeOK, Procs
<1>1. UNCHANGED <<db, asked, runs>>
  BY DEF SetRead, SetCount, TakeRead, TakeCount, TaskWake, TaskAgain, history
<1> USE DEF Goto, ReturnTo, AfterSet, AfterTake, TypeInv, TypeOK, Procs
<1>2. \/ pc["fp"] \in {"idle", "take_read"} /\ pc'["fp"] \in {"take_read", "take_entry"}
      \/ row'["fp"] = e /\ pc["fp"] = "set_read" /\ pc'["fp"] = "set_store"
      \/ row'["fp"] = e /\ pc["fp"] = "set_count" /\ pc'["fp"] = "send"
      \/ row'["fp"] = e /\ pc["fp"] = "take_count" /\ pc'["fp"] = "again"
      \/ /\ row'["fp"] = e /\ pc["fp"] = "take_count" /\ pc'["fp"] = "send"
         /\ ~(e.periodical > 0 /\ e.executions > 1)
      \/ /\ TaskAgain /\ pc["fp"] = "again" /\ pc'["fp"] = "set_read"
         /\ row'["fp"] = [e EXCEPT !.unixtime = NextTime, !.executions = @ - 1]
  BY ZenonT(60), <1>0 DEF SetRead, SetCount, TakeRead, TakeCount, TaskWake, TaskAgain
<1> HIDE DEF TypeInv
<1>3. ASSUME NEW d \in Ids PROVE HandLeft(d)' = HandLeft(d)
  <2>1. CASE pc["fp"] \in {"idle", "take_read"} /\ pc'["fp"] \in {"take_read", "take_entry"}
    BY <2>1 DEF HandLeft
  <2>2. CASE row'["fp"] = e /\ pc["fp"] = "set_read" /\ pc'["fp"] = "set_store"
    BY <1>0, <2>2 DEF HandLeft
  <2>3. CASE row'["fp"] = e /\ pc["fp"] = "set_count" /\ pc'["fp"] = "send"
    BY <1>0, <2>3 DEF HandLeft
  <2>4. CASE row'["fp"] = e /\ pc["fp"] = "take_count" /\ pc'["fp"] = "again"
    BY <1>0, <2>4 DEF HandLeft
  <2>5. CASE /\ row'["fp"] = e /\ pc["fp"] = "take_count" /\ pc'["fp"] = "send"
             /\ ~(e.periodical > 0 /\ e.executions > 1)
    BY <1>0, <2>5 DEF HandLeft, Left
  <2>6. CASE /\ TaskAgain /\ pc["fp"] = "again" /\ pc'["fp"] = "set_read"
             /\ row'["fp"] = [e EXCEPT !.unixtime = NextTime, !.executions = @ - 1]
    <3>1. e.executions > 1 /\ e.periodical > 0 /\ e.executions \in Nat /\ e.periodical \in Nat
      BY <1>0, <2>6, EntryFields DEF TypeInv, LocalInv
    <3>2. PICK f : f = row'["fp"]
      OBVIOUS
    <3>3. f.id = e.id /\ f.executions = e.executions - 1 /\ f.periodical = e.periodical
      BY <1>0, <2>6, <3>2 DEF Entry
    <3>4. Left(e) = e.executions /\ Left(f) = e.executions - 1
      BY <3>1, <3>3 DEF Left
    <3>5. CASE d = e.id
      <4>1. HandLeft(d) = Left(e)
        BY <1>0, <2>6, <3>5 DEF HandLeft
      <4>2. HandLeft(d)' = 1 + Left(f)
        BY <2>6, <3>2, <3>3, <3>5 DEF HandLeft
      <4> QED
        BY <3>1, <3>4, <4>1, <4>2
    <3>6. CASE d # e.id
      BY <1>0, <3>2, <3>3, <3>6 DEF HandLeft
    <3> QED
      BY <3>5, <3>6
  <2> QED
    BY <1>2, <2>1, <2>2, <2>3, <2>4, <2>5, <2>6
<1>4. Balanced'
  BY <1>1, <1>3, TableSame, BalancedSame, RemovedStays
<1>5. Room'
  BY <1>1, <1>2, RoomSame DEF Room
<1>6. StillThere'
  BY <1>2 DEF StillThere
<1> QED
  BY <1>4, <1>5, <1>6

(* The task reads an entry, *)
LEMMA DeliveredReads ==
    ASSUME TypeInv, TypeInv', AskedInv, SlotInv, Balanced, Room, [Next]_vars, TakeEntry
    PROVE  Balanced' /\ Room' /\ StillThere'
<1>0. /\ pc["fp"] = "take_entry" /\ UNCHANGED <<db, asked, runs>>
      /\ \A d \in Ids : HandLeft(d) = 0
  BY DEF TakeEntry, HandLeft, history
<1>1. StillThere'
  <2>1. CASE SlotsAt(row["fp"].unixtime) = {}
    BY <2>1 DEF TakeEntry, ReturnTo, Goto, TypeInv, TypeOK, Procs, StillThere
  <2>2. CASE SlotsAt(row["fp"].unixtime) # {}
    <3>1. PICK s : s = First(SlotsAt(row["fp"].unixtime)) /\ s \in Index
      BY <2>2, SlotFound DEF SlotsAt
    <3>2. row'["fp"] = db[s]
      BY <2>2, <3>1 DEF TakeEntry, TypeInv, TypeOK, Procs
    <3>3. s \in Index /\ db'[s].id = row'["fp"].id
      BY <1>0, <3>1, <3>2
    <3> QED
      BY <3>3 DEF StillThere, Holding
  <2> QED
    BY <2>1, <2>2
<1>2. pc'["fp"] \in {"idle", "take_delete"}
  BY DEF TakeEntry, ReturnTo, Goto, TypeInv, TypeOK, Procs
<1>3. \A d \in Ids : HandLeft(d)' = 0
  BY <1>1, <1>2 DEF HandLeft, StillThere
<1> QED
  BY <1>0, <1>1, <1>2, <1>3, TableSame, BalancedSame, RemovedStays DEF Room

(* ... deletes it, *)
LEMMA DeliveredTakes ==
    ASSUME TypeInv, TypeInv', AskedInv, SlotInv, Balanced, Room, StillThere, [Next]_vars,
           TakeDelete("fp")
    PROVE  Balanced' /\ Room' /\ StillThere'
<1>0. PICK e : /\ e = row["fp"] /\ e \in Entry /\ Left(e) \in Nat /\ e.id \in Ids
               /\ pc["fp"] = "take_delete"
  BY LeftType DEF TakeDelete, SlotInv, TypeInv, TypeOK, Procs
<1>1. /\ UNCHANGED <<asked, runs>>
      /\ \A d \in Ids : HandLeft(d) = 0
  BY <1>0 DEF TakeDelete, HandLeft, StillThere
<1>2. PICK s \in Holding(e.id) : db[s] = e /\ s = First(SlotsAt(e.unixtime)) /\ s \in Index
  BY <1>0 DEF StillThere, AskedInv, ReadInv, Holding
<1>3. s \in SlotsAt(e.unixtime)
  BY <1>2 DEF SlotsAt
<1>4. db' = [db EXCEPT ![s] = Clear] /\ row'["fp"] = e /\ pc'["fp"] = "take_count"
  BY <1>0, <1>2, <1>3 DEF TakeDelete, DeleteRow, Goto, TypeInv, TypeOK, Procs
<1>5. \A c \in Ids : TableLeft(c)' = IF e.id = c THEN 0 ELSE TableLeft(c)
  BY <1>2, <1>4, TableDelete DEF AskedInv
<1>6. ASSUME NEW d \in Ids, asked'[d] # Clear, d \notin removed'
      PROVE  Len(runs'[d]) + TableLeft(d)' + HandLeft(d)' = AskedFor(d)'
  <2>1. /\ Len(runs[d]) + TableLeft(d) + 0 = AskedFor(d) /\ AskedFor(d)' = AskedFor(d)
        /\ Len(runs[d]) \in Nat /\ TableLeft(d) \in Nat
    BY <1>1, <1>6, RemovedStays, Sums DEF Balanced, AskedFor, AskedInv
  <2>2. CASE d = e.id
    <3>1. TableLeft(d) = Left(e)
      BY <1>2, <2>2, TableLeftIs DEF AskedInv
    <3>2. TableLeft(d)' = 0 /\ HandLeft(d)' = Left(e)
      BY <1>4, <1>5, <2>2 DEF HandLeft
    <3> QED
      BY <1>0, <1>1, <2>1, <3>1, <3>2
  <2>3. CASE d # e.id
    <3>1. TableLeft(d)' = TableLeft(d) /\ HandLeft(d)' = 0
      BY <1>4, <1>5, <2>3 DEF HandLeft
    <3> QED
      BY <1>1, <2>1, <3>1
  <2> QED
    BY <2>2, <2>3
<1>7. s \in SlotsAt(ST_FP_NULL)'
  BY <1>2, <1>4 DEF SlotsAt, Clear, TypeInv, TypeOK
<1> QED
  BY <1>4, <1>6, <1>7 DEF Balanced, Room, StillThere

(* ... puts it back, *)
LEMMA DeliveredStores ==
    ASSUME TypeInv, TypeInv', AskedInv, SlotInv, Balanced, Room, [Next]_vars, SetStore("fp")
    PROVE  Balanced' /\ Room' /\ StillThere'
<1>0. pc["fp"] = "set_store" /\ SlotsAt(ST_FP_NULL) # {} /\ row["fp"] \in Entry
  BY DEF SetStore, Room, TypeInv, TypeOK, Procs
<1>1. PICK c : c = row["fp"].id /\ c \in Ids
  BY <1>0 DEF SlotInv, Hand
<1>2. PICK s \in Index : db' = [db EXCEPT ![s] = Stored("fp")] /\ db[s].unixtime = ST_FP_NULL
  BY <1>0, SlotFound DEF SetStore, Stored, SlotsAt
<1>3. /\ Stored("fp") \in Entry /\ Stored("fp").id = c /\ Left(Stored("fp")) = Left(row["fp"])
      /\ Left(row["fp"]) \in Nat
  BY <1>0, <1>1, StoredFields, LeftType DEF Left, Procs
<1>4. pc'["fp"] = "set_count" /\ UNCHANGED <<row, asked, runs>>
  BY <1>0 DEF SetStore, Goto, TypeInv, TypeOK, Procs
<1>5. Holding(c) = {}
  BY <1>0, <1>1 DEF AskedInv, OutOfTable
<1>6. ASSUME NEW d \in Ids, asked'[d] # Clear, d \notin removed'
      PROVE  Len(runs'[d]) + TableLeft(d)' + HandLeft(d)' = AskedFor(d)'
  <2>1. /\ Len(runs[d]) + TableLeft(d) + HandLeft(d) = AskedFor(d) /\ AskedFor(d)' = AskedFor(d)
        /\ Len(runs[d]) \in Nat /\ TableLeft(d) \in Nat
    BY <1>4, <1>6, RemovedStays, Sums DEF Balanced, AskedFor, AskedInv
  <2>2. CASE d = c
    <3>1. TableLeft(d) = 0
      BY <1>5, <2>2 DEF TableLeft
    <3>2. TableLeft(d)' = Left(row["fp"])
      BY <1>1, <1>2, <1>3, <1>5, <2>2, TableStore DEF AskedInv
    <3>3. HandLeft(d) = 1 + Left(row["fp"]) /\ HandLeft(d)' = 1
      BY <1>0, <1>1, <1>4, <2>2 DEF HandLeft
    <3> QED
      BY <1>3, <1>4, <2>1, <3>1, <3>2, <3>3
  <2>3. CASE d # c
    <3>1. TableLeft(d)' = TableLeft(d)
      BY <1>2, <1>3, <2>3, TableStoreFree DEF SlotInv, AskedInv
    <3>2. HandLeft(d)' = HandLeft(d)
      BY <1>1, <1>4, <2>3 DEF HandLeft
    <3> QED
      BY <1>4, <2>1, <3>1, <3>2
  <2> QED
    BY <2>2, <2>3
<1> QED
  BY <1>4, <1>6 DEF Balanced, Room, StillThere

(* ... and sends its command. *)
LEMMA DeliveredSends ==
    ASSUME TypeInv, TypeInv', AskedInv, SlotInv, Balanced, Room, [Next]_vars, TaskSend
    PROVE  Balanced' /\ Room' /\ StillThere'
<1>1. PICK c : c = row["fp"].id
  OBVIOUS
<1>2. /\ pc["fp"] = "send" /\ pc'["fp"] = "idle" /\ UNCHANGED <<db, asked>>
      /\ runs' = [runs EXCEPT ![c] = Append(runs[c], sec)]
  BY <1>1 DEF TaskSend, ReturnTo, Goto, TypeInv, TypeOK, Procs
<1>3. ASSUME NEW d \in Ids, asked'[d] # Clear, d \notin removed'
      PROVE  Len(runs'[d]) + TableLeft(d)' + HandLeft(d)' = AskedFor(d)'
  <2>1. /\ Len(runs[d]) + TableLeft(d) + HandLeft(d) = AskedFor(d) /\ AskedFor(d)' = AskedFor(d)
        /\ Len(runs[d]) \in Nat /\ TableLeft(d) \in Nat
    BY <1>2, <1>3, RemovedStays, Sums DEF Balanced, AskedFor, AskedInv
  <2>2. TableLeft(d)' = TableLeft(d) /\ HandLeft(d)' = 0
    BY <1>2, TableSame DEF HandLeft
  <2>3. CASE d = c
    <3>1. HandLeft(d) = 1
      BY <1>1, <1>2, <2>3 DEF HandLeft
    <3>2. Len(runs'[d]) = Len(runs[d]) + 1
      BY <1>2, <2>3 DEF TypeInv, TypeOK
    <3> QED
      BY <2>1, <2>2, <3>1, <3>2
  <2>4. CASE d # c
    <3>1. HandLeft(d) = 0 /\ runs'[d] = runs[d]
      BY <1>1, <1>2, <2>4 DEF HandLeft, TypeInv, TypeOK
    <3> QED
      BY <2>1, <2>2, <3>1
  <2> QED
    BY <2>3, <2>4
<1> QED
  BY <1>2, <1>3 DEF Balanced, Room, StillThere

(* A command stores a new entry. *)
LEMMA DeliveredNew ==
    ASSUME TypeInv, TypeInv', AskedInv, SlotInv, Balanced, [Next]_vars, SetStore("cmd")
    PROVE  Balanced'
<1>0. /\ pc["cmd"] = "set_store" /\ row["cmd"] \in Entry /\ UNCHANGED runs
      /\ TaskStays /\ pc["fp"] # "take_delete"
  BY ZenonT(60) DEF SetStore, SemFree, AfterSet, ReturnTo, Goto, TaskStays, TypeInv, TypeOK, Procs
<1>1. \A d \in Ids : HandLeft(d)' = HandLeft(d)
  BY <1>0, HandSame
<1>2. CASE SlotsAt(ST_FP_NULL) = {}
  <2>1. UNCHANGED <<db, asked>>
    BY <1>2 DEF SetStore
  <2> QED
    BY <1>0, <1>1, <2>1, TableSame, BalancedSame, RemovedStays
<1>3. CASE SlotsAt(ST_FP_NULL) # {}
  <2>1. PICK c : c = row["cmd"].id /\ c \in Ids /\ asked[c] = Clear
    BY <1>0 DEF AskedInv, Fresh
  <2>2. PICK s \in Index : db' = [db EXCEPT ![s] = Stored("cmd")] /\ db[s].unixtime = ST_FP_NULL
    BY <1>3, SlotFound DEF SetStore, Stored, SlotsAt
  <2>3. asked' = [asked EXCEPT ![c] = row["cmd"]]
    BY <1>3, <2>1 DEF SetStore
  <2>4. /\ Stored("cmd") \in Entry /\ Stored("cmd").id = c
        /\ Left(Stored("cmd")) = Left(row["cmd"]) /\ Left(row["cmd"]) \in Nat
    BY <1>0, <2>1, StoredFields, LeftType DEF Left, Procs
  <2>5. Len(runs[c]) = 0 /\ Holding(c) = {} /\ ~InHand(c)
    BY <2>1, NotStored
  <2>6. ASSUME NEW d \in Ids, asked'[d] # Clear, d \notin removed'
        PROVE  Len(runs'[d]) + TableLeft(d)' + HandLeft(d)' = AskedFor(d)'
    <3>1. CASE d = c
      <4>1. TableLeft(d)' = Left(row["cmd"])
        BY <2>1, <2>2, <2>4, <2>5, <3>1, TableStore DEF AskedInv
      <4>2. HandLeft(d) = 0
        BY <1>0, <2>5, <3>1 DEF InHand, Hand, HandLeft
      <4>3. AskedFor(d)' = Left(row["cmd"])
        BY <2>1, <2>3, <2>6, <3>1 DEF AskedFor, TypeInv, TypeOK
      <4> QED
        BY <1>0, <1>1, <2>4, <2>5, <3>1, <4>1, <4>2, <4>3
    <3>2. CASE d # c
      <4>1. TableLeft(d)' = TableLeft(d)
        BY <2>2, <2>4, <3>2, TableStoreFree DEF SlotInv, AskedInv
      <4>2. asked'[d] = asked[d]
        BY <2>3, <3>2 DEF TypeInv, TypeOK
      <4>3. AskedFor(d)' = AskedFor(d)
        BY <4>2 DEF AskedFor
      <4> QED
        BY <1>0, <1>1, <2>6, <4>1, <4>2, <4>3, RemovedStays DEF Balanced
    <3> QED
      BY <3>1, <3>2
  <2> QED
    BY <2>6 DEF Balanced
<1> QED
  BY <1>2, <1>3

(* A command takes entries away. *)
LEMMA DeliveredRemoves ==
    ASSUME TypeInv, TypeInv', AskedInv, SlotInv, Balanced, [Next]_vars, pc["fp"] # "take_delete",
           TakeDelete("cmd") \/ FpReset \/ PurgeDelete
    PROVE  Balanced'
<1> USE DEF Goto, ReturnTo, TypeInv, TypeOK, Procs, history
<1>1. TaskStays /\ UNCHANGED <<asked, runs>>
  BY ZenonT(60) DEF TakeDelete, FpReset, PurgeDelete, TaskStays
<1>2. \/ UNCHANGED db
      \/ \E s \in Index : db' = [db EXCEPT ![s] = Clear] /\ db[s].id \in removed'
  <2>1. CASE TakeDelete("cmd")
    <3>1. CASE SlotsAt(row["cmd"].unixtime) = {}
      BY <2>1, <3>1 DEF TakeDelete
    <3>2. CASE SlotsAt(row["cmd"].unixtime) # {}
      <4>1. First(SlotsAt(row["cmd"].unixtime)) \in Index
        BY ZenonT(60), <3>2, SlotFound DEF SlotsAt
      <4> QED
        BY <2>1, <3>2, <4>1 DEF TakeDelete, DeleteRow
    <3> QED
      BY <3>1, <3>2
  <2>2. CASE FpReset
    BY <2>2, FlightPlanAssumption DEF FpReset, ResetTable, DeleteRow, Index
  <2>3. CASE PurgeDelete
    BY <2>3, FlightPlanAssumption DEF PurgeDelete, DeleteRow, LocalInv, Index
  <2> QED
    BY <2>1, <2>2, <2>3
<1> HIDE DEF TypeInv
<1>3. \A d \in Ids : HandLeft(d)' = HandLeft(d)
  BY <1>1, HandSame
<1>4. \A d \in Ids \ removed' : TableLeft(d)' = TableLeft(d)
  <2>1. CASE UNCHANGED db
    BY <2>1, TableSame
  <2>2. ASSUME NEW s \in Index, db' = [db EXCEPT ![s] = Clear], db[s].id \in removed'
        PROVE  \A d \in Ids \ removed' : TableLeft(d)' = TableLeft(d)
    <3>1. \A d \in Ids : TableLeft(d)' = IF db[s].id = d THEN 0 ELSE TableLeft(d)
      BY <2>2, TableDelete DEF AskedInv
    <3> QED
      BY <2>2, <3>1
  <2> QED
    BY <1>2, <2>1, <2>2
<1> QED
  BY <1>1, <1>3, <1>4, BalancedSame, RemovedStays

LEMMA DeliveredNext ==
    TypeInv /\ TypeInv' /\ AskedInv /\ SlotInv /\ AloneInv /\ DeliveredInv /\ [Next]_vars
        => DeliveredInv'
<1> SUFFICES ASSUME TypeInv, TypeInv', AskedInv, SlotInv, AloneInv, DeliveredInv, [Next]_vars,
                    "overlap" \notin seen'
             PROVE  Balanced' /\ Room' /\ StillThere'
  BY DEF DeliveredInv
<1>0. Balanced /\ Room /\ StillThere /\ Alone /\ pc \in [Procs -> Steps]
  BY SeenStays DEF DeliveredInv, AloneInv, TypeInv, TypeOK
<1>1. ASSUME \/ SetStore("cmd") \/ TakeDelete("cmd") \/ PurgeDelete
      PROVE  Room' /\ StillThere' /\ pc["fp"] # "take_delete"
  <2>1. pc["cmd"] # "idle" /\ pc'["fp"] = pc["fp"]
    BY <1>0, <1>1 DEF SetStore, TakeDelete, PurgeDelete, Goto, ReturnTo, AfterSet, Procs
  <2> QED
    BY <1>0, <2>1 DEF Alone, Room, StillThere
<1>2. CASE FpReset
  <2>1. pc["fp"] = "idle" /\ pc'["fp"] = "idle"
    BY <1>0, <1>2 DEF FpReset, Overlap, Goto, Procs
  <2>2. Room' /\ StillThere'
    BY <2>1 DEF Room, StillThere
  <2> QED
    BY <1>0, <1>2, <2>1, <2>2, DeliveredRemoves
<1>3. CASE SetStore("cmd")
  BY <1>0, <1>1, <1>3, DeliveredNew
<1>4. CASE TakeDelete("cmd") \/ PurgeDelete
  BY <1>0, <1>1, <1>4, DeliveredRemoves
<1>5. ASSUME \/ SetRead("cmd") \/ SetCount("cmd") \/ TakeRead("cmd") \/ TakeCount("cmd")
             \/ ResetCount \/ FpPurge \/ PurgeRead \/ PurgeCount \/ Tick \/ UNCHANGED vars
             \/ \E t \in Deletes : FpDelete(t)
             \/ \E d \in Ids, r \in Requests : FpSet(d, r)
      PROVE  Balanced' /\ Room' /\ StillThere'
  <2> USE <1>5 DEF Goto, ReturnTo, AfterSet, AfterTake, TypeInv, TypeOK, Procs, history
  <2>1. UNCHANGED <<db, asked, runs>>
    BY DEF SetRead, SetCount, TakeRead, TakeCount, ResetCount, FpPurge, PurgeRead, PurgeCount,
           Tick, vars, FpDelete, FpSet
  <2>2. TaskStays
    BY ZenonT(60) DEF SetRead, SetCount, TakeRead, TakeCount, ResetCount, FpPurge, PurgeRead, PurgeCount,
           Tick, vars, FpDelete, FpSet, TaskStays
  <2> HIDE <1>5 DEF TypeInv
  <2>3. Balanced'
    BY <1>0, <2>1, <2>2, HandSame, TableSame, BalancedSame, RemovedStays
  <2>4. Room'
    BY <1>0, <2>1, <2>2, RoomSame DEF Room, TaskStays
  <2>5. StillThere'
    BY <1>0, <2>1, <2>2, TableSame DEF StillThere, TaskStays
  <2> QED
    BY <2>3, <2>4, <2>5
<1> QED
  BY <1>0, <1>2, <1>3, <1>4, <1>5, NextCases, DeliveredQuiet, DeliveredReads, DeliveredTakes,
     DeliveredStores, DeliveredSends DEF Procs

--------------------------------------------------------------------------------
(* Theorems *)

LEMMA Inductive == Spec => [](TypeInv /\ AskedInv /\ SlotInv /\ AloneInv)
<1>1. Init => TypeInv /\ AskedInv /\ SlotInv /\ AloneInv
  BY TypeInit, AskedInit, SlotInit, AloneInit
<1>2. TypeInv /\ AskedInv /\ SlotInv /\ AloneInv /\ [Next]_vars
          => TypeInv' /\ AskedInv' /\ SlotInv' /\ AloneInv'
  BY TypeNext, AskedNext, SlotNext, AloneNext
<1> QED
  BY <1>1, <1>2, PTL DEF Spec

(* Every variable of the flight plan keeps its type; the index and the     *)
(* count of dat_purge_fp stay within the table.                            *)
THEOREM TypeCorrect == Spec => []TypeOK
<1>1. TypeInv => TypeOK
  BY DEF TypeInv
<1> QED
  BY <1>1, Inductive, PTL

(* taskFlightPlan.c:42-63, repoData.c:238-246: an entry is in one slot at  *)
(* most and is never sent more often than ground asked, for a table of any *)
(* size, any requests and any interleaving with the ground commands, also  *)
(* with a purge that clears the slot of an entry the task has read.        *)
THEOREM AskedCorrect == Spec => []AtMostAsked
<1>1. AskedInv => AtMostAsked
  BY DEF AskedInv, Unique, Bounded, AtMostAsked
<1> QED
  BY <1>1, Inductive, PTL

(* taskFlightPlan.c:38-63: an entry is sent in its own seconds, k periods  *)
(* after the first, even when the task runs late, and in each of them that *)
(* the task did not miss unless another entry of that second was sent.     *)
THEOREM OnTimeCorrect == Spec => []SentOnTime
<1>1. TimesInv /\ OnTimeInv => SentOnTime
  <2> SUFFICES ASSUME TimesInv, OnTimeInv PROVE OnTime
    BY DEF SentOnTime, TimesInv
  <2> QED
    BY DEF OnTimeInv, OnTime, Due, Excused, SentBy
<1> QED
  BY <1>1, TimesInit, TimesNext, OnTimeInit, OnTimeNext, Inductive, PTL DEF Spec

(* repoData.c:159-322: while no ground command overlaps an iteration of    *)
(* the task the count is exact, no periodic entry is lost and a purge only *)
(* clears entries whose time has come, for a table of any size.            *)
THEOREM UndisturbedCorrect == Spec => []Undisturbed
<1>1. TypeInv /\ CountInv => CountExact
  <2> SUFFICES ASSUME TypeInv, CountInv, \A p \in Procs : pc[p] = "idle", seen \subseteq {"missed"}
               PROVE  fpl_queue = Cardinality(Occupied)
    BY DEF CountExact
  <2> QED
    BY DEF CountInv, Procs, Settled, N
<1>2. TypeInv /\ AskedInv /\ DeliveredInv => PeriodicDelivered
  <2> SUFFICES ASSUME TypeInv, AskedInv, DeliveredInv, "overlap" \notin seen, NEW d \in Ids, Gone(d)
               PROVE  Len(runs[d]) = AskedFor(d)
    BY DEF PeriodicDelivered, StaysInPlan
  <2>1. Len(runs[d]) \in Nat
    BY DEF TypeInv, TypeOK
  <2> QED
    BY <2>1 DEF DeliveredInv, Balanced, Gone
<1> QED
  BY <1>1, <1>2, CountInit, CountNext, DeliveredInit, DeliveredNext, PurgeInit, PurgeNext,
     Inductive, PTL DEF Spec, Undisturbed

================================================================================
