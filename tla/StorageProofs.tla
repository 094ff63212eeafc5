------------------------------ MODULE StorageProofs ------------------------------
(***************************************************************************)
(* Proofs about what is stored.  The tables of the flight plan: SqlPlan    *)
(* for any times, any number of rows and any number of entries the indices *)
(* reach, FlashPlan for any number of slots and pages.  The samples of the *)
(* payloads: Payload for any number of payloads, any sizes and any number  *)
(* of samples.  All three with restarts at any step.                       *)
(***************************************************************************)
EXTENDS SqlPlan, FlashPlan, Payload, FiniteSetTheorems, SequenceTheorems, WellFoundedInduction, TLAPS

--------------------------------------------------------------------------------
(* SqlPlan *)

(* A set of numbers below a bound has a largest one, or 0.                 *)
LEMMA Largest ==
    ASSUME NEW S \in SUBSET Nat, NEW b \in Nat, \A x \in S : x <= b
    PROVE  \E n \in {0} \cup S : \A x \in S : x <= n
  <1> DEFINE U == {n \in Nat : \A x \in S : x <= n}
  <1>1. U \in SUBSET Nat /\ U # {}
    OBVIOUS
  <1>2. IsWellFoundedOn(OpToRel(<, Nat), Nat)
    BY NatLessThanWellFounded
  <1> HIDE DEF U
  <1>3. \E m \in U : \A y \in U : ~(<<y, m>> \in OpToRel(<, Nat))
    BY <1>1, <1>2, WFMin, Zenon
  <1>4. PICK m \in U : \A y \in U : ~(<<y, m>> \in OpToRel(<, Nat))
    BY <1>3
  <1>5. \A y \in U : ~(y < m)
    BY <1>1, <1>4 DEF OpToRel
  <1>6. m \in Nat /\ \A x \in S : x <= m
    BY <1>4 DEF U
  <1>7. CASE m \in {0} \cup S
    BY <1>6, <1>7
  <1>8. CASE m \notin {0} \cup S
    <2>1. m - 1 \in Nat /\ m - 1 < m
      BY <1>6, <1>8
    <2>2. \A x \in S : x <= m - 1
      BY <1>6, <1>8
    <2>3. m - 1 \in U
      BY <2>1, <2>2 DEF U
    <2> QED
      BY <1>5, <2>1, <2>3
  <1> QED
    BY <1>7, <1>8

--------------------------------------------------------------------------------
RowType == [rowid : 1 .. inserts, time : RowTimes, id : 1 .. inserts]
Pcs == {"idle", "get", "take", "set", "del", "reset", "look", "drop", "write"}
Locals == [pc : Pcs, t : Nat, n : Int, i : 0 .. Entries, d : {-1, 0, 1}]

(* Rows are numbered as they are put.                                      *)
SqlType ==
    /\ inserts \in 0 .. MaxInserts /\ queue \in Int /\ drift \in BOOLEAN
    /\ stale \subseteq Callers
    /\ fp_table \subseteq RowType /\ IsFiniteSet(fp_table)
    /\ call \in [Callers -> Locals]

(* At a time there is one row at most.                                     *)
Distinct ==
    \A r, q \in fp_table : r.time = q.time \/ r.id = q.id \/ r.rowid = q.rowid => r = q

(* What the locals mean where the call is, and who resets or purges.       *)
LocalInv ==
    /\ \A p \in Callers :
          /\ call[p].d # 0 => call[p].pc = "write"
          /\ call[p].pc \in {"get", "take", "set", "del", "look", "drop"} => call[p].t \in RowTimes
          /\ call[p].pc = "drop" => call[p].i < Entries
          /\ call[p].pc = "idle" => call[p] = NoCall
    /\ \A p, q \in Callers : Whole(p) /\ Whole(q) => p = q
    /\ ~Whole("fp")

(* The rows the purge has passed. *)
Passed(i) == {r \in fp_table : r.rowid <= i}

(* By how much the calls that have edited the table will move the count.   *)
Moves == call["fp"].d + call["executer"].d + call["init"].d

(* The count a call holds is right as long as it is not out of date.       *)
HeldInv == \A p \in Callers : Relative(p) /\ p \notin stale => call[p].n = queue + call[p].d

(* The variable and the moves to come are the number of rows.              *)
SumInv ==
    ~drift /\ (\A p \in Callers : ~Whole(p)) /\ (\A p \in stale : call[p].d = 0)
        => queue + Moves = Cardinality(fp_table)

(* A purge nobody disturbed has counted the rows it has passed.            *)
WholeInv ==
    \A p \in Callers : p \notin stale =>
        /\ call[p].pc \in {"look", "drop"} => call[p].n = Cardinality(Passed(call[p].i))
        /\ call[p].pc = "drop" => \A r \in Index(call[p].i) : r.time <= call[p].t
        /\ call[p].pc = "write" /\ call[p].d = 0 => call[p].n = Cardinality(Passed(Entries))

SqlInv == SqlType /\ Distinct /\ LocalInv /\ HeldInv /\ SumInv /\ WholeInv

LEMMA InitLocals ==
    ASSUME NEW t \in Nat, NEW n \in Int, NEW i \in 0 .. Entries, NEW d \in {-1, 0, 1}, NEW pc \in Pcs
    PROVE  /\ Local(pc, t, n, i, d) \in Locals
           /\ Local(pc, t, n, i, d).pc = pc /\ Local(pc, t, n, i, d).t = t
           /\ Local(pc, t, n, i, d).n = n /\ Local(pc, t, n, i, d).i = i
           /\ Local(pc, t, n, i, d).d = d
  BY DEF Local, Locals

LEMMA IdleLocal ==
    NoCall \in Locals /\ NoCall.pc = "idle" /\ NoCall.t = 0 /\ NoCall.n = 0 /\ NoCall.i = 0 /\ NoCall.d = 0
  <1>1. 0 \in Nat /\ 0 \in Int /\ 0 \in 0 .. Entries /\ 0 \in {-1, 0, 1} /\ "idle" \in Pcs
    BY SqlAssumption DEF Pcs
  <1> QED
    BY <1>1, InitLocals DEF NoCall

LEMMA CallTyped ==
    ASSUME SqlType, NEW p \in Callers
    PROVE  /\ call[p] \in Locals /\ call[p].pc \in Pcs /\ call[p].t \in Nat /\ call[p].n \in Int
           /\ call[p].i \in 0 .. Entries /\ call[p].d \in {-1, 0, 1}
  BY DEF SqlType, Locals

(* INSERT OR REPLACE adds one row, with numbers of its own. *)
LEMMA Inserted ==
    ASSUME SqlType, NEW t \in RowTimes, inserts < MaxInserts
    PROVE  \E n \in 1 .. inserts + 1 :
               /\ \A r \in fp_table : r.rowid # n
               /\ InsertOrReplace(t) =
                      (fp_table \ At(t)) \cup {[rowid |-> n, time |-> t, id |-> inserts + 1]}
  <1> DEFINE S == {r.rowid : r \in fp_table}
             last == CHOOSE n \in {0} \cup S : \A r \in fp_table : r.rowid <= n
  <1>1. S \in SUBSET Nat /\ inserts \in Nat /\ \A x \in S : x <= inserts
    BY SqlAssumption DEF SqlType, RowType
  <1>2. \E n \in {0} \cup S : \A x \in S : x <= n
    BY <1>1, Largest
  <1>3. \E n \in {0} \cup S : \A r \in fp_table : r.rowid <= n
    BY <1>2
  <1>4. last \in {0} \cup S
    BY <1>3
  <1>7. \A r \in fp_table : r.rowid <= last
    BY <1>3
  <1>5. InsertOrReplace(t) =
            (fp_table \ At(t)) \cup {[rowid |-> last + 1, time |-> t, id |-> inserts + 1]}
    BY DEF InsertOrReplace
  <1> HIDE DEF last
  <1>6. last + 1 \in 1 .. inserts + 1
    BY <1>1, <1>4
  <1>8. \A r \in fp_table : r.rowid # last + 1
    <2>1. \A r \in fp_table : r.rowid \in Nat
      BY DEF SqlType, RowType
    <2>2. last \in Nat
      BY <1>1, <1>4
    <2> QED
      BY <1>7, <2>1, <2>2
  <1> QED
    BY <1>5, <1>6, <1>8

LEMMA OneAt ==
    ASSUME SqlType, Distinct, NEW t, At(t) # {}
    PROVE  \E r \in fp_table : At(t) = {r}
  BY DEF Distinct, At

(* The rows left when some are taken out.                                  *)
LEMMA Fewer ==
    ASSUME SqlType, Distinct, NEW S \in SUBSET fp_table
    PROVE  /\ S \subseteq RowType /\ IsFiniteSet(S) /\ Cardinality(S) \in Nat
           /\ \A r, q \in S : r.time = q.time \/ r.id = q.id \/ r.rowid = q.rowid => r = q
  <1>1. IsFiniteSet(S)
    BY FS_Subset DEF SqlType
  <1> QED
    BY <1>1, FS_CardinalityType DEF SqlType, Distinct

(* A step of one caller: the locals of the others stay.                    *)
LEMMA Stepped ==
    ASSUME SqlType, NEW p \in Callers, NEW c \in Locals, Goto(p, c)
    PROVE  /\ call' \in [Callers -> Locals] /\ call'[p] = c
           /\ \A q \in Callers : q # p => call'[q] = call[q]
  BY DEF SqlType, Goto

(* Such a step keeps what the locals mean.                                 *)
LEMMA LocalKept ==
    ASSUME SqlType, LocalInv, NEW p \in Callers, NEW c \in Locals, Goto(p, c),
           c.d # 0 => c.pc = "write",
           c.pc \in {"get", "take", "set", "del", "look", "drop"} => c.t \in RowTimes,
           c.pc = "drop" => c.i < Entries,
           c.pc = "idle" => c = NoCall,
           Whole(p)' => Whole(p)
    PROVE  LocalInv' /\ \A q \in Callers : q # p => (Whole(q)' <=> Whole(q)) /\ (Relative(q)' <=> Relative(q))
  <1>1. call'[p] = c /\ \A q \in Callers : q # p => call'[q] = call[q]
    BY Stepped
  <1>2. \A q \in Callers : q # p => (Whole(q)' <=> Whole(q)) /\ (Relative(q)' <=> Relative(q))
    BY <1>1 DEF Whole, Relative
  <1>3. \A q \in Callers : Whole(q)' => Whole(q)
    BY <1>2
  <1>4. ~Whole("fp")'
    BY <1>3 DEF LocalInv, Callers
  <1>5. \A q, r \in Callers : Whole(q)' /\ Whole(r)' => q = r
    BY <1>3 DEF LocalInv
  <1>6. \A q \in Callers :
          /\ call'[q].d # 0 => call'[q].pc = "write"
          /\ call'[q].pc \in {"get", "take", "set", "del", "look", "drop"} => call'[q].t \in RowTimes
          /\ call'[q].pc = "drop" => call'[q].i < Entries
          /\ call'[q].pc = "idle" => call'[q] = NoCall
    BY <1>1 DEF LocalInv
  <1> QED
    BY <1>2, <1>4, <1>5, <1>6 DEF LocalInv

LEMMA MovesOne ==
    ASSUME SqlType, NEW p \in Callers, NEW c \in Locals, Goto(p, c)
    PROVE  Moves' = Moves - call[p].d + c.d /\ Moves \in Int
  <1>1. call'[p] = c /\ \A q \in Callers : q # p => call'[q] = call[q]
    BY Stepped
  <1>2. \A q \in Callers : call[q].d \in {-1, 0, 1}
    BY CallTyped
  <1>3. c.d \in {-1, 0, 1}
    BY DEF Locals
  <1>4. {"fp", "executer", "init"} \subseteq Callers
    BY DEF Callers
  <1>5. /\ call["fp"].d \in Int /\ call["executer"].d \in Int /\ call["init"].d \in Int /\ c.d \in Int
    BY <1>2, <1>3, <1>4
  <1>6. CASE p = "fp"
    <2>1. call'["fp"].d = c.d /\ call'["executer"].d = call["executer"].d /\ call'["init"].d = call["init"].d
      BY <1>1, <1>4, <1>6
    <2>2. Moves' = Moves - call["fp"].d + c.d
      BY <2>1, <1>5 DEF Moves
    <2>3. Moves \in Int
      BY <1>5 DEF Moves
    <2> QED BY <2>2, <2>3, <1>6, Zenon
  <1>7. CASE p = "executer"
    <2>1. call'["executer"].d = c.d /\ call'["fp"].d = call["fp"].d /\ call'["init"].d = call["init"].d
      BY <1>1, <1>4, <1>7
    <2>2. Moves' = Moves - call["executer"].d + c.d
      BY <2>1, <1>5 DEF Moves
    <2>3. Moves \in Int
      BY <1>5 DEF Moves
    <2> QED BY <2>2, <2>3, <1>7, Zenon
  <1>8. CASE p = "init"
    <2>1. call'["init"].d = c.d /\ call'["fp"].d = call["fp"].d /\ call'["executer"].d = call["executer"].d
      BY <1>1, <1>4, <1>8
    <2>2. Moves' = Moves - call["init"].d + c.d
      BY <2>1, <1>5 DEF Moves
    <2>3. Moves \in Int
      BY <1>5 DEF Moves
    <2> QED BY <2>2, <2>3, <1>8, Zenon
  <1> QED
    BY <1>6, <1>7, <1>8 DEF Callers

(* The beginning of a call *)
LEMMA BeginStep ==
    ASSUME SqlInv, NEW p \in Callers, NEW t \in RowTimes, NEW pc \in {"get", "set", "del"}, Begin(p, pc, t)
    PROVE  SqlInv'
  <1> DEFINE c == Local(pc, t, queue, 0, 0)
  <1>1. /\ c \in Locals /\ c.pc = pc /\ c.t = t /\ c.n = queue /\ c.d = 0
    <2>1. t \in Nat /\ queue \in Int /\ 0 \in 0 .. Entries /\ 0 \in {-1, 0, 1} /\ pc \in Pcs
      BY SqlAssumption DEF SqlInv, SqlType, Pcs
    <2> QED
      BY <2>1, InitLocals
  <1>2. /\ Goto(p, c) /\ call[p] = NoCall /\ stale' = stale \ {p}
        /\ UNCHANGED <<fp_table, inserts, drift, queue>>
    BY DEF Begin, NoEdit
  <1> HIDE DEF c
  <1>3. call' \in [Callers -> Locals] /\ call'[p] = c /\ \A q \in Callers : q # p => call'[q] = call[q]
    BY <1>1, <1>2, Stepped DEF SqlInv
  <1>4. ~Whole(p)' /\ Relative(p)' /\ ~Whole(p)
    BY <1>1, <1>2, <1>3, IdleLocal DEF Whole, Relative
  <1>5. LocalInv' /\ \A q \in Callers : q # p => (Whole(q)' <=> Whole(q)) /\ (Relative(q)' <=> Relative(q))
    BY <1>1, <1>2, <1>4, LocalKept DEF SqlInv
  <1>6. SqlType' /\ Distinct'
    BY <1>2, <1>3 DEF SqlInv, SqlType, RowType, Distinct
  <1>7. HeldInv'
    <2>1. c.n = queue + c.d
      BY <1>1 DEF SqlInv, SqlType
    <2> QED
      BY <1>2, <1>3, <1>5, <2>1 DEF SqlInv, HeldInv
  <1>8. SumInv'
    <2>1. Moves' = Moves
      BY <1>1, <1>2, MovesOne, IdleLocal DEF SqlInv
    <2>2. (\A q \in Callers : ~Whole(q)') => (\A q \in Callers : ~Whole(q))
      BY <1>4, <1>5
    <2>3. (\A q \in stale' : call'[q].d = 0) => \A q \in stale : call[q].d = 0
      BY <1>2, <1>3, IdleLocal DEF SqlInv, SqlType
    <2> QED
      BY <1>2, <2>1, <2>2, <2>3 DEF SqlInv, SumInv
  <1>9. WholeInv'
    BY ZenonT(60), <1>1, <1>2, <1>3 DEF SqlInv, WholeInv, Passed, Index
  <1> QED
    BY <1>5, <1>6, <1>7, <1>8, <1>9 DEF SqlInv

LEMMA NothingPassed ==
    ASSUME SqlType
    PROVE  Cardinality(Passed(0)) = 0
  <1>1. \A r \in fp_table : ~(r.rowid <= 0)
    BY DEF SqlType, RowType
  <1>2. Passed(0) = {}
    BY <1>1 DEF Passed
  <1> QED
    BY <1>2, FS_EmptySet

LEMMA BeginWholeStep ==
    ASSUME SqlInv, NEW t \in RowTimes, NEW pc \in {"reset", "look"}, BeginWhole("executer", pc, t)
    PROVE  SqlInv'
  <1> DEFINE p == "executer"
             c == Local(pc, t, 0, 0, 0)
  <1>0. p \in Callers /\ "init" \in Callers /\ "fp" \in Callers
    BY DEF Callers
  <1>1. /\ c \in Locals /\ c.pc = pc /\ c.t = t /\ c.n = 0 /\ c.i = 0 /\ c.d = 0
    <2>1. t \in Nat /\ 0 \in Int /\ 0 \in 0 .. Entries /\ 0 \in {-1, 0, 1} /\ pc \in Pcs
      BY SqlAssumption DEF SqlInv, SqlType, Pcs
    <2> QED
      BY <2>1, InitLocals
  <1>2. /\ Goto(p, c) /\ call[p] = NoCall /\ stale' = stale \ {p} /\ call["init"] = NoCall
        /\ UNCHANGED <<fp_table, inserts, drift, queue>>
    BY DEF BeginWhole, NoEdit
  <1> HIDE DEF c, p
  <1>3. call' \in [Callers -> Locals] /\ call'[p] = c /\ \A q \in Callers : q # p => call'[q] = call[q]
    BY <1>0, <1>1, <1>2, Stepped DEF SqlInv
  <1>4. Whole(p)' /\ ~Relative(p)'
    BY <1>1, <1>3 DEF Whole, Relative
  <1>5. \A q \in Callers : q # p => (Whole(q)' <=> Whole(q)) /\ (Relative(q)' <=> Relative(q)) /\ ~Whole(q)
    <2>1. ~Whole("init") /\ ~Whole("fp")
      BY <1>2, IdleLocal DEF Whole, SqlInv, LocalInv
    <2> QED
      BY <1>3, <2>1 DEF Whole, Relative, Callers, p
  <1>6. LocalInv'
    <2>1. \A q, r \in Callers : Whole(q)' /\ Whole(r)' => q = r
      BY <1>5
    <2>2. ~Whole("fp")'
      BY <1>0, <1>5 DEF p
    <2>3. \A q \in Callers :
          /\ call'[q].d # 0 => call'[q].pc = "write"
          /\ call'[q].pc \in {"get", "take", "set", "del", "look", "drop"} => call'[q].t \in RowTimes
          /\ call'[q].pc = "drop" => call'[q].i < Entries
          /\ call'[q].pc = "idle" => call'[q] = NoCall
      BY <1>1, <1>3 DEF SqlInv, LocalInv
    <2> QED
      BY <2>1, <2>2, <2>3 DEF LocalInv
  <1>7. SqlType' /\ Distinct'
    BY <1>2, <1>3 DEF SqlInv, SqlType, RowType, Distinct
  <1>8. HeldInv'
    BY <1>2, <1>3, <1>4, <1>5 DEF SqlInv, HeldInv
  <1>9. SumInv'
    BY <1>0, <1>4 DEF SumInv
  <1>10. WholeInv'
    <2>1. c.n = Cardinality(Passed(c.i))
      BY <1>1, NothingPassed DEF SqlInv
    <2> QED
      BY SMTT(60), <1>1, <1>2, <1>3, <2>1 DEF SqlInv, WholeInv, Passed, Index
  <1> QED
    BY <1>6, <1>7, <1>8, <1>9, <1>10 DEF SqlInv

(* A call that moves the count edits the table.                            *)
LEMMA EditStep ==
    ASSUME SqlInv, NEW p \in Callers, NEW d \in {-1, 1},
           call[p].pc \in {"set", "del", "take"},
           Goto(p, Local("write", call[p].t, call[p].n + d, 0, d)), Edit(p), queue' = queue,
           SqlType', Distinct',
           ~drift' => ~drift /\ Cardinality(fp_table') = Cardinality(fp_table) + d
    PROVE  SqlInv'
  <1> DEFINE c == Local("write", call[p].t, call[p].n + d, 0, d)
  <1>0. call[p].n \in Int /\ call[p].t \in Nat /\ queue \in Int
    BY CallTyped DEF SqlInv, SqlType
  <1>1. /\ c \in Locals /\ c.pc = "write" /\ c.n = call[p].n + d /\ c.d = d
    <2>1. /\ call[p].n + d \in Int /\ 0 \in 0 .. Entries /\ d \in {-1, 0, 1} /\ "write" \in Pcs
      BY <1>0, SqlAssumption DEF Pcs
    <2> QED
      BY SMTT(60), <1>0, <2>1, InitLocals
  <1>2. Goto(p, c) /\ stale' = stale \cup {q \in Callers \ {p} : Whole(q)}
    BY DEF Edit
  <1> HIDE DEF c
  <1>3. call' \in [Callers -> Locals] /\ call'[p] = c /\ \A q \in Callers : q # p => call'[q] = call[q]
    BY <1>1, <1>2, Stepped DEF SqlInv
  <1>4. call[p].d = 0
    BY DEF SqlInv, LocalInv
  <1>5. ~Whole(p)' /\ Relative(p)' /\ ~Whole(p) /\ Relative(p)
    BY <1>1, <1>3, <1>4 DEF Whole, Relative
  <1>6. LocalInv' /\ \A q \in Callers : q # p => (Whole(q)' <=> Whole(q)) /\ (Relative(q)' <=> Relative(q))
    BY <1>1, <1>2, <1>5, LocalKept DEF SqlInv
  <1>7. p \in stale <=> p \in stale'
    BY <1>2
  <1>8. HeldInv'
    <2>1. p \notin stale => c.n = queue + c.d
      BY <1>0, <1>1, <1>4, <1>5 DEF SqlInv, HeldInv
    <2> QED
      BY <1>2, <1>3, <1>6, <1>7, <2>1 DEF SqlInv, HeldInv
  <1>9. SumInv'
    <2> SUFFICES ASSUME ~drift', \A q \in Callers : ~Whole(q)', \A q \in stale' : call'[q].d = 0
                 PROVE  queue' + Moves' = Cardinality(fp_table')
      BY DEF SumInv
    <2>1. \A q \in Callers : ~Whole(q)
      BY <1>5, <1>6
    <2>2. \A q \in stale : call[q].d = 0
      BY <1>2, <1>3, <1>4 DEF SqlInv, SqlType
    <2>3. queue + Moves = Cardinality(fp_table)
      BY <2>1, <2>2 DEF SqlInv, SumInv
    <2>4. Moves' = Moves + d /\ Moves \in Int
      BY <1>1, <1>2, <1>4, MovesOne DEF SqlInv
    <2> QED
      BY <1>0, <2>3, <2>4
  <1>10. WholeInv'
    <2> SUFFICES ASSUME NEW q \in Callers, q \notin stale', Whole(q)'
                 PROVE  FALSE
      BY <1>1, <1>3 DEF WholeInv, Whole
    <2> QED
      BY <1>2, <1>5, <1>6
  <1> QED
    BY <1>6, <1>8, <1>9, <1>10 DEF SqlInv

LEMMA SetStep ==
    ASSUME SqlInv, NEW p \in Callers, dat_set_fp(p)
    PROVE  SqlInv'
  <1> DEFINE t == call[p].t
             S == fp_table \ At(t)
  <1>0. /\ inserts \in Nat /\ inserts' = inserts + 1 /\ inserts < MaxInserts
        /\ call[p].pc = "set" /\ t \in RowTimes
    BY SqlAssumption DEF SqlInv, SqlType, LocalInv, dat_set_fp
  <1>a. /\ Goto(p, Local("write", t, call[p].n + 1, 0, 1)) /\ Edit(p) /\ queue' = queue
        /\ fp_table' = InsertOrReplace(t) /\ drift' = (drift \/ At(t) # {})
    BY DEF dat_set_fp
  <1> HIDE DEF t
  <1>1. PICK n \in 1 .. inserts + 1 :
            /\ \A r \in fp_table : r.rowid # n
            /\ fp_table' = S \cup {[rowid |-> n, time |-> t, id |-> inserts + 1]}
    BY <1>0, <1>a, Inserted DEF SqlInv
  <1> DEFINE new == [rowid |-> n, time |-> t, id |-> inserts + 1]
  <1>2. /\ S \subseteq RowType /\ IsFiniteSet(S) /\ Cardinality(S) \in Nat
        /\ \A r, q \in S : r.time = q.time \/ r.id = q.id \/ r.rowid = q.rowid => r = q
    BY Fewer DEF SqlInv
  <1>3. \A r \in S : r.time # t /\ r.id # inserts + 1 /\ r.rowid # n
    BY <1>0, <1>1, <1>2 DEF At, RowType
  <1>4. new.time = t /\ new.id = inserts + 1 /\ new.rowid = n /\ new \in RowType' /\ new \notin S
    BY <1>0, <1>3 DEF RowType
  <1>5. RowType \subseteq RowType'
    BY <1>0 DEF RowType
  <1>6. fp_table' = S \cup {new}
    BY <1>1
  <1>7. ~drift' => ~drift /\ S = fp_table
    BY <1>a
  <1> HIDE DEF S, new
  <1>8. IsFiniteSet(fp_table') /\ Cardinality(fp_table') = Cardinality(S) + 1
    BY <1>2, <1>4, <1>6, FS_AddElement
  <1>9. call' \in [Callers -> Locals]
    <2>1. /\ call[p].n + 1 \in Int /\ t \in Nat /\ 0 \in 0 .. Entries /\ 1 \in {-1, 0, 1} /\ "write" \in Pcs
      BY SqlAssumption, CallTyped DEF Pcs, SqlInv, t
    <2>2. Local("write", t, call[p].n + 1, 0, 1) \in Locals
      BY <2>1, InitLocals
    <2> QED
      BY <1>a, <2>2, Stepped DEF SqlInv
  <1>10. SqlType'
    <2>1. inserts' \in 0 .. MaxInserts /\ queue' \in Int /\ drift' \in BOOLEAN /\ stale' \subseteq Callers
      BY <1>0, <1>a, SqlAssumption DEF SqlInv, SqlType, Edit
    <2>2. fp_table' \subseteq RowType'
      BY <1>2, <1>4, <1>5, <1>6
    <2> QED
      BY <1>8, <1>9, <2>1, <2>2 DEF SqlType
  <1>11. Distinct'
    BY <1>2, <1>3, <1>4, <1>6 DEF Distinct
  <1>12. ~drift' => ~drift /\ Cardinality(fp_table') = Cardinality(fp_table) + 1
    BY <1>7, <1>8
  <1>13. /\ 1 \in {-1, 1} /\ call[p].pc \in {"set", "del", "take"}
         /\ Goto(p, Local("write", call[p].t, call[p].n + 1, 0, 1))
    BY <1>0, <1>a DEF t
  <1> QED
    BY <1>a, <1>10, <1>11, <1>12, <1>13, EditStep

LEMMA RemoveStep ==
    ASSUME SqlInv, NEW p \in Callers, dat_del_fp(p)
    PROVE  SqlInv'
  <1> DEFINE t == call[p].t
  <1>a. /\ Goto(p, Local("write", t, call[p].n - 1, 0, -1)) /\ Edit(p) /\ queue' = queue
        /\ fp_table' = fp_table \ At(t) /\ drift' = (drift \/ At(t) = {}) /\ inserts' = inserts
        /\ call[p].pc \in {"take", "del"}
    BY DEF dat_del_fp
  <1>0. call[p].n \in Int /\ t \in Nat /\ call[p].n - 1 = call[p].n + (-1)
    BY CallTyped DEF SqlInv
  <1> HIDE DEF t
  <1>1. /\ fp_table' \subseteq RowType /\ IsFiniteSet(fp_table')
        /\ \A r, q \in fp_table' : r.time = q.time \/ r.id = q.id \/ r.rowid = q.rowid => r = q
    BY <1>a, Fewer DEF SqlInv
  <1>2. call' \in [Callers -> Locals]
    <2>1. /\ call[p].n - 1 \in Int /\ 0 \in 0 .. Entries /\ -1 \in {-1, 0, 1} /\ "write" \in Pcs
      BY <1>0, SqlAssumption DEF Pcs
    <2>2. Local("write", t, call[p].n - 1, 0, -1) \in Locals
      BY <1>0, <2>1, InitLocals
    <2> QED
      BY <1>a, <2>2, Stepped DEF SqlInv
  <1>3. SqlType' /\ Distinct'
    <2>1. stale' \subseteq Callers /\ drift' \in BOOLEAN
      BY <1>a DEF SqlInv, SqlType, Edit
    <2> QED
      BY <1>a, <1>1, <1>2, <2>1 DEF SqlInv, SqlType, RowType, Distinct
  <1>4. ~drift' => ~drift /\ Cardinality(fp_table') = Cardinality(fp_table) + (-1)
    <2> SUFFICES ASSUME ~drift'
                 PROVE  ~drift /\ Cardinality(fp_table') = Cardinality(fp_table) + (-1)
      OBVIOUS
    <2>1. PICK r \in fp_table : At(t) = {r}
      BY <1>a, OneAt DEF SqlInv
    <2>2. Cardinality(fp_table \ {r}) = Cardinality(fp_table) - 1 /\ Cardinality(fp_table) \in Nat
      BY FS_RemoveElement, FS_CardinalityType DEF SqlInv, SqlType
    <2> QED
      BY <1>a, <2>1, <2>2
  <1>5. /\ -1 \in {-1, 1} /\ call[p].pc \in {"set", "del", "take"}
        /\ Goto(p, Local("write", call[p].t, call[p].n + (-1), 0, -1))
    <2>1. Goto(p, Local("write", call[p].t, call[p].n - 1, 0, -1))
      BY <1>a DEF t
    <2> QED
      BY <1>a, <1>0, <2>1
  <1> QED
    BY <1>a, <1>3, <1>4, <1>5, EditStep

LEMMA GetStep ==
    ASSUME SqlInv, NEW p \in Callers, dat_get_fp(p)
    PROVE  SqlInv'
  <1> DEFINE c == IF At(call[p].t) = {} THEN NoCall ELSE Local("take", call[p].t, call[p].n, 0, 0)
  <1>0. /\ call[p].n \in Int /\ call[p].t \in Nat /\ call[p].pc = "get" /\ call[p].d = 0
        /\ call[p].t \in RowTimes
    BY CallTyped DEF SqlInv, LocalInv, dat_get_fp
  <1>1. /\ c \in Locals /\ c.d = 0
        /\ c = NoCall \/ (c.pc = "take" /\ c.n = call[p].n /\ c.t = call[p].t)
        /\ c.pc \in {"idle", "take"}
    <2>1. /\ 0 \in 0 .. Entries /\ 0 \in {-1, 0, 1} /\ "take" \in Pcs
      BY SqlAssumption DEF Pcs
    <2>2. CASE At(call[p].t) = {}
      BY <2>2, IdleLocal
    <2>3. CASE At(call[p].t) # {}
      BY <1>0, <2>1, <2>3, InitLocals
    <2> QED
      BY <2>2, <2>3
  <1>2. Goto(p, c) /\ UNCHANGED <<fp_table, inserts, drift, queue, stale>>
    BY DEF dat_get_fp, NoEdit
  <1> HIDE DEF c
  <1>3. call' \in [Callers -> Locals] /\ call'[p] = c /\ \A q \in Callers : q # p => call'[q] = call[q]
    BY <1>1, <1>2, Stepped DEF SqlInv
  <1>4. ~Whole(p)' /\ ~Whole(p) /\ Relative(p)
    BY <1>0, <1>1, <1>3 DEF Whole, Relative
  <1>5. LocalInv' /\ \A q \in Callers : q # p => (Whole(q)' <=> Whole(q)) /\ (Relative(q)' <=> Relative(q))
    <2>1. c.pc = "idle" => c = NoCall
      BY <1>1
    <2>2. c.pc # "drop" /\ c.pc # "idle" => c.t \in RowTimes
      BY <1>0, <1>1, IdleLocal
    <2> QED
      BY <1>1, <1>2, <1>4, <2>1, <2>2, LocalKept DEF SqlInv
  <1>6. SqlType' /\ Distinct'
    BY <1>2, <1>3 DEF SqlInv, SqlType, RowType, Distinct
  <1>7. HeldInv'
    <2>1. Relative(p)' => c.n = call[p].n /\ c.d = call[p].d
      BY <1>0, <1>1, <1>3, IdleLocal DEF Relative
    <2> QED
      BY <1>2, <1>3, <1>4, <1>5, <2>1 DEF SqlInv, HeldInv
  <1>8. SumInv'
    <2>1. Moves' = Moves
      BY <1>0, <1>1, <1>2, MovesOne DEF SqlInv
    <2>2. (\A q \in Callers : ~Whole(q)') => (\A q \in Callers : ~Whole(q))
      BY <1>4, <1>5
    <2>3. (\A q \in stale' : call'[q].d = 0) => \A q \in stale : call[q].d = 0
      BY <1>0, <1>2, <1>3 DEF SqlInv, SqlType
    <2> QED
      BY <1>2, <2>1, <2>2, <2>3 DEF SqlInv, SumInv
  <1>9. WholeInv'
    BY <1>1, <1>2, <1>3 DEF SqlInv, WholeInv, Passed, Index
  <1> QED
    BY <1>5, <1>6, <1>7, <1>8, <1>9 DEF SqlInv

(* A step of a reset or a purge, before it writes the count.               *)
LEMMA WholeStep ==
    ASSUME SqlInv, NEW p \in Callers, Whole(p), NEW c \in Locals, Goto(p, c),
           c.pc \in {"look", "drop", "write"}, c.d = 0,
           c.pc # "write" => c.t \in RowTimes,
           c.pc = "drop" => c.i < Entries,
           fp_table' \subseteq fp_table, stale' = stale,
           UNCHANGED <<inserts, drift, queue>>,
           p \notin stale =>
              /\ c.pc \in {"look", "drop"} => c.n = Cardinality(Passed(c.i)')
              /\ c.pc = "drop" => \A r \in Index(c.i)' : r.time <= c.t
              /\ c.pc = "write" => c.n = Cardinality(Passed(Entries)')
    PROVE  SqlInv'
  <1>1. call' \in [Callers -> Locals] /\ call'[p] = c /\ \A q \in Callers : q # p => call'[q] = call[q]
    BY Stepped DEF SqlInv
  <1>2. Whole(p)' /\ ~Relative(p)'
    BY <1>1 DEF Whole, Relative
  <1>3. LocalInv' /\ \A q \in Callers : q # p => (Whole(q)' <=> Whole(q)) /\ (Relative(q)' <=> Relative(q))
    BY LocalKept DEF SqlInv
  <1>4. \A q \in Callers : q # p => ~Whole(q)
    BY DEF SqlInv, LocalInv
  <1>5. SqlType' /\ Distinct'
    BY <1>1, Fewer DEF SqlInv, SqlType, RowType, Distinct
  <1>6. HeldInv'
    BY <1>1, <1>2, <1>3 DEF SqlInv, HeldInv
  <1>7. SumInv'
    BY <1>2 DEF SumInv
  <1>8. WholeInv'
    <2> SUFFICES ASSUME NEW q \in Callers, q \notin stale', Whole(q)'
                 PROVE  /\ call'[q].pc \in {"look", "drop"} => call'[q].n = Cardinality(Passed(call[q].i)')
                        /\ call'[q].pc = "drop" => \A r \in Index(call[q].i)' : r.time <= call'[q].t
                        /\ call'[q].pc = "write" /\ call'[q].d = 0 => call'[q].n = Cardinality(Passed(Entries)')
      BY DEF WholeInv, Whole
    <2>1. q = p
      BY <1>3, <1>4
    <2> QED
      BY <1>1, <2>1 DEF Passed, Index
  <1> QED
    BY <1>3, <1>5, <1>6, <1>7, <1>8 DEF SqlInv

LEMMA ResetStep ==
    ASSUME SqlInv, NEW p \in Callers, dat_reset_fp(p)
    PROVE  SqlInv'
  <1> DEFINE c == Local("write", 0, 0, 0, 0)
  <1>1. c \in Locals /\ c.pc = "write" /\ c.n = 0 /\ c.d = 0
    <2>1. 0 \in Nat /\ 0 \in Int /\ 0 \in 0 .. Entries /\ 0 \in {-1, 0, 1} /\ "write" \in Pcs
      BY SqlAssumption DEF Pcs
    <2> QED
      BY <2>1, InitLocals
  <1>2. /\ Goto(p, c) /\ fp_table' = {} /\ UNCHANGED <<inserts, drift, queue>>
        /\ stale' = stale \cup {q \in Callers \ {p} : Whole(q)} /\ Whole(p)
    BY DEF dat_reset_fp, Edit, Whole
  <1> HIDE DEF c
  <1>3. stale' = stale
    BY <1>2 DEF SqlInv, LocalInv
  <1>4. Passed(Entries)' = {}
    BY <1>2 DEF Passed
  <1>5. c.n = Cardinality(Passed(Entries)')
    BY <1>1, <1>4, FS_EmptySet
  <1> QED
    BY <1>1, <1>2, <1>3, <1>5, WholeStep

(* The rows of the next index.                                             *)
LEMMA PassedNext ==
    ASSUME SqlType, Distinct, NEW i \in Nat
    PROVE  /\ Passed(i + 1) = Passed(i) \cup Index(i)
           /\ Passed(i) \cap Index(i) = {}
           /\ Passed(i) \in SUBSET fp_table /\ Index(i) \in SUBSET fp_table
           /\ IsFiniteSet(Passed(i)) /\ IsFiniteSet(Index(i))
           /\ Cardinality(Passed(i)) \in Nat /\ Cardinality(Index(i)) \in Nat
           /\ Cardinality(Passed(i + 1)) = Cardinality(Passed(i)) + Cardinality(Index(i))
  <1>1. \A r \in fp_table : r.rowid \in Nat
    BY DEF SqlType, RowType
  <1>2. /\ Passed(i + 1) = Passed(i) \cup Index(i) /\ Passed(i) \cap Index(i) = {}
        /\ Passed(i) \in SUBSET fp_table /\ Index(i) \in SUBSET fp_table
    BY <1>1 DEF Passed, Index
  <1>3. /\ IsFiniteSet(Passed(i)) /\ IsFiniteSet(Index(i))
        /\ Cardinality(Passed(i)) \in Nat /\ Cardinality(Index(i)) \in Nat
    BY <1>2, Fewer
  <1>4. Cardinality(Passed(i) \cup Index(i))
            = Cardinality(Passed(i)) + Cardinality(Index(i)) - Cardinality(Passed(i) \cap Index(i))
    BY <1>3, FS_Union
  <1>5. Cardinality(Passed(i) \cap Index(i)) = 0
    BY <1>2, FS_EmptySet
  <1> QED
    BY <1>2, <1>3, <1>4, <1>5

LEMMA PurgeStep ==
    ASSUME SqlInv, NEW p \in Callers, dat_purge_fp(p)
    PROVE  SqlInv'
  <1>a. PICK i \in 0 .. Entries, now \in RowTimes, n \in Int :
            i = call[p].i /\ now = call[p].t /\ n = call[p].n
    <2>1. call[p].i \in 0 .. Entries /\ call[p].t \in RowTimes /\ call[p].n \in Int
      BY CallTyped DEF SqlInv, LocalInv, dat_purge_fp
    <2> QED
      BY <2>1
  <1> DEFINE after == {r \in Index(i) : r.time > now}
  <1>0. /\ i \in 0 .. Entries /\ now \in RowTimes /\ now \in Nat /\ n \in Int /\ Entries \in Nat
        /\ i \in Nat /\ 0 \in 0 .. Entries /\ 0 \in Nat
    BY SqlAssumption
  <1>1. /\ Whole(p) /\ call[p].pc = "look"
        /\ stale' = stale /\ UNCHANGED <<fp_table, inserts, drift, queue>>
    BY DEF dat_purge_fp, Whole, NoEdit
  <1>2. \/ i = Entries /\ Goto(p, Local("write", 0, n, 0, 0))
        \/ i < Entries /\ after # {} /\ Goto(p, Local("look", now, n + 1, i + 1, 0))
        \/ i < Entries /\ after = {} /\ Goto(p, Local("drop", now, n, i, 0))
        \/ i < Entries /\ Index(i) = {} /\ Goto(p, Local("look", now, n, i + 1, 0))
    BY <1>a DEF dat_purge_fp
  <1>3. p \notin stale => n = Cardinality(Passed(i))
    BY <1>a, <1>1 DEF SqlInv, WholeInv
  <1>4. /\ Cardinality(Passed(i + 1)) = Cardinality(Passed(i)) + Cardinality(Index(i))
        /\ Cardinality(Passed(i)) \in Nat
    BY <1>0, PassedNext DEF SqlInv
  <1>5. \A r, q \in Index(i) : r = q
    <2>1. \A r, q \in fp_table : r.rowid = q.rowid => r = q
      BY DEF SqlInv, Distinct
    <2> QED
      BY <2>1 DEF Index
  <1>6. Passed(Entries)' = Passed(Entries) /\ Passed(i)' = Passed(i) /\ Passed(i + 1)' = Passed(i + 1)
    BY <1>1 DEF Passed
  <1>7. CASE i = Entries /\ Goto(p, Local("write", 0, n, 0, 0))
    <2>0. PICK c \in Locals : c = Local("write", 0, n, 0, 0) /\ c.pc = "write" /\ c.n = n /\ c.d = 0
      <3>1. "write" \in Pcs /\ 0 \in {-1, 0, 1}
        BY DEF Pcs
      <3> QED
        BY <1>0, <3>1, InitLocals
    <2>1. c \in Locals /\ c.pc = "write" /\ c.n = n /\ c.d = 0
      BY <2>0
    <2>2. Goto(p, c)
      BY <1>7, <2>0
    <2>3. p \notin stale => c.n = Cardinality(Passed(Entries)')
      BY <1>3, <1>6, <1>7, <2>1
    <2> QED
      BY <1>1, <2>1, <2>2, <2>3, WholeStep
  <1>8. CASE i < Entries /\ after # {} /\ Goto(p, Local("look", now, n + 1, i + 1, 0))
    <2>0. PICK c \in Locals : c = Local("look", now, n + 1, i + 1, 0) /\ c.pc = "look" /\ c.n = n + 1 /\ c.i = i + 1 /\ c.t = now /\ c.d = 0
      <3>1. "look" \in Pcs /\ 0 \in {-1, 0, 1} /\ i + 1 \in 0 .. Entries /\ n + 1 \in Int
        BY <1>0, <1>8 DEF Pcs
      <3> QED
        BY <1>0, <3>1, InitLocals
    <2>1. c \in Locals /\ c.pc = "look" /\ c.n = n + 1 /\ c.i = i + 1 /\ c.t = now /\ c.d = 0
      BY <2>0
    <2>2. Goto(p, c)
      BY <1>8, <2>0
    <2>3. Cardinality(Index(i)) = 1
      <3>1. PICK r \in Index(i) : TRUE
        BY <1>8
      <3>2. Index(i) = {r}
        BY <1>5, <3>1
      <3> QED
        BY <3>2, FS_Singleton
    <2>4. p \notin stale => c.n = Cardinality(Passed(c.i)')
      BY <1>3, <1>4, <1>6, <2>1, <2>3
    <2> QED
      BY <1>0, <1>1, <2>1, <2>2, <2>4, WholeStep
  <1>9. CASE i < Entries /\ after = {} /\ Goto(p, Local("drop", now, n, i, 0))
    <2>0. PICK c \in Locals : c = Local("drop", now, n, i, 0) /\ c.pc = "drop" /\ c.n = n /\ c.i = i /\ c.t = now /\ c.d = 0
      <3>1. "drop" \in Pcs /\ 0 \in {-1, 0, 1}
        BY DEF Pcs
      <3> QED
        BY <1>0, <3>1, InitLocals
    <2>1. c \in Locals /\ c.pc = "drop" /\ c.n = n /\ c.i = i /\ c.t = now /\ c.d = 0
      BY <2>0
    <2>2. Goto(p, c)
      BY <1>9, <2>0
    <2>3. p \notin stale => c.n = Cardinality(Passed(c.i)')
      BY <1>3, <1>6, <2>1
    <2>4. \A r \in Index(c.i)' : r.time <= c.t
      <3>1. \A r \in fp_table : r.time \in Nat
        BY SqlAssumption DEF SqlInv, SqlType, RowType
      <3>2. Index(c.i)' = Index(i)
        BY <1>1, <2>1 DEF Index
      <3>3. \A r \in Index(i) : ~(r.time > now) /\ r.time \in Nat
        BY <1>9, <3>1 DEF Index
      <3> QED
        BY <1>0, <2>1, <3>2, <3>3
    <2> QED
      BY <1>0, <1>1, <1>9, <2>1, <2>2, <2>3, <2>4, WholeStep
  <1>10. CASE i < Entries /\ Index(i) = {} /\ Goto(p, Local("look", now, n, i + 1, 0))
    <2>0. PICK c \in Locals : c = Local("look", now, n, i + 1, 0) /\ c.pc = "look" /\ c.n = n /\ c.i = i + 1 /\ c.t = now /\ c.d = 0
      <3>1. "look" \in Pcs /\ 0 \in {-1, 0, 1} /\ i + 1 \in 0 .. Entries
        BY <1>0, <1>10 DEF Pcs
      <3> QED
        BY <1>0, <3>1, InitLocals
    <2>1. c \in Locals /\ c.pc = "look" /\ c.n = n /\ c.i = i + 1 /\ c.t = now /\ c.d = 0
      BY <2>0
    <2>2. Goto(p, c)
      BY <1>10, <2>0
    <2>3. Cardinality(Index(i)) = 0
      BY <1>10, FS_EmptySet
    <2>4. p \notin stale => c.n = Cardinality(Passed(c.i)')
      BY <1>3, <1>4, <1>6, <2>1, <2>3
    <2> QED
      BY <1>0, <1>1, <2>1, <2>2, <2>4, WholeStep
  <1> QED
    BY <1>2, <1>7, <1>8, <1>9, <1>10

LEMMA RowStep ==
    ASSUME SqlInv, NEW p \in Callers, PurgeRow(p)
    PROVE  SqlInv'
  <1>a. PICK i \in 0 .. Entries, now \in RowTimes, n \in Int :
            i = call[p].i /\ now = call[p].t /\ n = call[p].n /\ i < Entries
    <2>1. call[p].i \in 0 .. Entries /\ call[p].t \in RowTimes /\ call[p].n \in Int /\ call[p].i < Entries
      BY CallTyped DEF SqlInv, LocalInv, PurgeRow
    <2> QED
      BY <2>1
  <1>0. /\ i \in 0 .. Entries /\ now \in RowTimes /\ now \in Nat /\ n \in Int /\ i < Entries
        /\ i \in Nat /\ i + 1 \in 0 .. Entries
    BY <1>a, SqlAssumption
  <1>1. PICK c \in Locals : /\ c = Local("look", now, n, i + 1, 0)
                            /\ c.pc = "look" /\ c.n = n /\ c.i = i + 1 /\ c.t = now /\ c.d = 0
    <2>1. "look" \in Pcs /\ 0 \in {-1, 0, 1}
      BY DEF Pcs
    <2> QED
      BY SMTT(60), <1>0, <2>1, InitLocals
  <1>2. /\ Goto(p, c) /\ fp_table' = fp_table \ Index(i) /\ UNCHANGED <<inserts, drift, queue>>
        /\ stale' = stale \cup {q \in Callers \ {p} : Whole(q)} /\ Whole(p) /\ call[p].pc = "drop"
    BY <1>a, <1>1 DEF PurgeRow, Edit, Whole
  <1>3. stale' = stale
    BY <1>2 DEF SqlInv, LocalInv
  <1>4. p \notin stale => n = Cardinality(Passed(i))
    BY <1>a, <1>2 DEF SqlInv, WholeInv
  <1>5. Passed(i + 1)' = Passed(i)
    <2>1. Passed(i + 1) = Passed(i) \cup Index(i) /\ Passed(i) \cap Index(i) = {}
      BY <1>0, PassedNext DEF SqlInv
    <2>2. Passed(i + 1)' = Passed(i + 1) \ Index(i)
      BY <1>2 DEF Passed
    <2> QED
      BY <2>1, <2>2
  <1>6. p \notin stale => c.n = Cardinality(Passed(c.i)')
    BY <1>1, <1>4, <1>5
  <1> QED
    BY <1>0, <1>1, <1>2, <1>3, <1>6, WholeStep

LEMMA QueueStep ==
    ASSUME SqlInv, NEW p \in Callers, SetQueue(p)
    PROVE  SqlInv'
  <1>1. /\ call[p].pc = "write" /\ queue' = call[p].n /\ Goto(p, NoCall)
        /\ stale' = (stale \cup {q \in Callers \ {p} : Relative(q)}) \ {p}
        /\ drift' = (p \in stale \/ IF Whole(p) THEN \E r \in fp_table : r.rowid > Entries ELSE drift)
        /\ UNCHANGED <<fp_table, inserts>>
    BY DEF SetQueue
  <1>2. /\ call' \in [Callers -> Locals] /\ call'[p] = NoCall
        /\ \A q \in Callers : q # p => call'[q] = call[q]
    BY <1>1, IdleLocal, Stepped DEF SqlInv
  <1>3. ~Whole(p)' /\ ~Relative(p)'
    BY <1>2, IdleLocal DEF Whole, Relative
  <1>4. LocalInv' /\ \A q \in Callers : q # p => (Whole(q)' <=> Whole(q)) /\ (Relative(q)' <=> Relative(q))
    BY <1>1, <1>3, IdleLocal, LocalKept DEF SqlInv
  <1>5. SqlType' /\ Distinct'
    <2>1. queue' \in Int /\ stale' \subseteq Callers
      BY <1>1, CallTyped DEF SqlInv, SqlType
    <2>2. drift' \in BOOLEAN
      <3>1. CASE Whole(p)
        BY <1>1, <3>1, Zenon
      <3>2. CASE ~Whole(p)
        BY <1>1, <3>2, Zenon DEF SqlInv, SqlType
      <3> QED
        BY <3>1, <3>2
    <2> QED
      BY <1>1, <1>2, <2>1, <2>2 DEF SqlInv, SqlType, RowType, Distinct
  <1>6. HeldInv'
    BY <1>1, <1>3, <1>4 DEF HeldInv
  <1>7. SumInv'
    <2> SUFFICES ASSUME ~drift', \A q \in Callers : ~Whole(q)', \A q \in stale' : call'[q].d = 0
                 PROVE  queue' + Moves' = Cardinality(fp_table')
      BY DEF SumInv
    <2>1. \A q \in Callers : q # p => call[q].d = 0
      <3> SUFFICES ASSUME NEW q \in Callers, q # p
                   PROVE  call[q].d = 0
        OBVIOUS
      <3>1. CASE Relative(q)
        BY <1>1, <1>2, <3>1
      <3>2. CASE ~Relative(q)
        <4>1. call[q].pc = "idle" \/ Whole(q)
          BY <3>2 DEF Relative
        <4>2. ~Whole(q)
          BY <1>4
        <4> QED
          BY <4>1, <4>2, IdleLocal DEF SqlInv, LocalInv
      <3> QED
        BY <3>1, <3>2
    <2>2. Moves' = Moves - call[p].d /\ Moves = call[p].d /\ Moves' = 0
      <3>1. Moves' = Moves - call[p].d + 0 /\ Moves \in Int
        BY <1>1, IdleLocal, MovesOne DEF SqlInv
      <3>2. call[p].d \in {-1, 0, 1} /\ {"fp", "executer", "init"} \subseteq Callers
        BY CallTyped DEF SqlInv, Callers
      <3>3. Moves = call[p].d
        BY <2>1, <3>2 DEF Moves, Callers
      <3> QED
        BY <3>1, <3>2, <3>3
    <2>3. p \notin stale
      BY <1>1
    <2>4. CASE Whole(p)
      <3>1. ~\E r \in fp_table : r.rowid > Entries
        BY <1>1, <2>4
      <3>2. call[p].d = 0
        BY <1>1, <2>4 DEF Whole
      <3>3. Passed(Entries) = fp_table
        BY <3>1, SqlAssumption DEF Passed, SqlInv, SqlType, RowType
      <3>4. call[p].n = Cardinality(fp_table) /\ call[p].n \in Int
        BY <1>1, <2>3, <3>2, <3>3, CallTyped DEF SqlInv, WholeInv
      <3> QED
        BY <1>1, <2>2, <3>4
    <2>5. CASE ~Whole(p)
      <3>1. ~drift /\ Relative(p)
        BY <1>1, <2>5 DEF Relative
      <3>2. \A q \in Callers : ~Whole(q)
        BY <1>4, <2>5
      <3>3. \A q \in stale : call[q].d = 0
        BY <2>1, <2>3 DEF SqlInv, SqlType
      <3>4. queue + Moves = Cardinality(fp_table)
        BY <3>1, <3>2, <3>3 DEF SqlInv, SumInv
      <3>5. call[p].n = queue + call[p].d /\ call[p].n \in Int
        BY <2>3, <3>1, CallTyped DEF SqlInv, HeldInv
      <3> QED
        BY <1>1, <2>2, <3>4, <3>5
    <2> QED
      BY <2>4, <2>5
  <1>8. WholeInv'
    <2> SUFFICES ASSUME NEW q \in Callers, q \notin stale', Whole(q)'
                 PROVE  /\ call'[q].pc \in {"look", "drop"} => call'[q].n = Cardinality(Passed(call[q].i)')
                        /\ call'[q].pc = "drop" => \A r \in Index(call[q].i)' : r.time <= call'[q].t
                        /\ call'[q].pc = "write" /\ call'[q].d = 0 => call'[q].n = Cardinality(Passed(Entries)')
      BY DEF WholeInv, Whole
    <2>1. q # p /\ call'[q] = call[q] /\ q \notin stale
      BY <1>1, <1>2, <1>3
    <2> QED
      BY <1>1, <2>1 DEF SqlInv, WholeInv, Passed, Index
  <1> QED
    BY <1>4, <1>5, <1>6, <1>7, <1>8 DEF SqlInv

LEMMA SqlRestartStep ==
    ASSUME SqlInv, NEW t \in RowTimes, RestartSql(t)
    PROVE  SqlInv'
  <1> DEFINE c == Local("look", t, 0, 0, 0)
  <1>1. c \in Locals /\ c.pc = "look" /\ c.n = 0 /\ c.i = 0 /\ c.t = t /\ c.d = 0
    <2>1. t \in Nat /\ 0 \in Int /\ 0 \in 0 .. Entries /\ 0 \in {-1, 0, 1} /\ "look" \in Pcs
      BY SqlAssumption DEF Pcs
    <2> QED
      BY <2>1, InitLocals
  <1>2. /\ call' = [p \in Callers |-> IF p = "init" THEN c ELSE NoCall]
        /\ stale' = {} /\ UNCHANGED <<fp_table, inserts, drift, queue>>
    BY DEF RestartSql, NoEdit
  <1> HIDE DEF c
  <1>3. /\ call' \in [Callers -> Locals] /\ "init" \in Callers /\ call'["init"] = c
        /\ \A p \in Callers : p # "init" => call'[p] = NoCall
    BY <1>1, <1>2, IdleLocal DEF Callers
  <1>4. Whole("init")' /\ \A p \in Callers : p # "init" => ~Whole(p)' /\ ~Relative(p)'
    BY <1>1, <1>3, IdleLocal DEF Whole, Relative
  <1>5. ~Relative("init")'
    BY <1>4 DEF Relative
  <1>6. LocalInv'
    <2>1. \A p, q \in Callers : Whole(p)' /\ Whole(q)' => p = q
      BY <1>4
    <2>2. ~Whole("fp")'
      BY <1>4 DEF Callers
    <2>3. \A q \in Callers :
          /\ call'[q].d # 0 => call'[q].pc = "write"
          /\ call'[q].pc \in {"get", "take", "set", "del", "look", "drop"} => call'[q].t \in RowTimes
          /\ call'[q].pc = "drop" => call'[q].i < Entries
          /\ call'[q].pc = "idle" => call'[q] = NoCall
      BY <1>1, <1>3, IdleLocal
    <2> QED
      BY <2>1, <2>2, <2>3 DEF LocalInv
  <1>7. SqlType' /\ Distinct'
    BY <1>2, <1>3 DEF SqlInv, SqlType, RowType, Distinct
  <1>8. HeldInv'
    BY <1>4, <1>5 DEF HeldInv
  <1>9. SumInv'
    BY <1>3, <1>4 DEF SumInv
  <1>10. WholeInv'
    <2>1. c.n = Cardinality(Passed(c.i))
      BY <1>1, NothingPassed DEF SqlInv
    <2> QED
      BY <1>1, <1>2, <1>3, <2>1, IdleLocal DEF SqlInv, WholeInv, Passed, Index
  <1> QED
    BY <1>6, <1>7, <1>8, <1>9, <1>10 DEF SqlInv

LEMMA SqlInvInit == SqlInit => SqlInv
  <1> SUFFICES ASSUME SqlInit
               PROVE  SqlInv
    OBVIOUS
  <1>0. \A p \in Callers : call[p] = NoCall
    BY DEF SqlInit
  <1>1. SqlType
    <2>1. IsFiniteSet({}) /\ 0 \in 0 .. MaxInserts
      BY FS_EmptySet, SqlAssumption
    <2>2. fp_table \subseteq RowType /\ IsFiniteSet(fp_table) /\ stale \subseteq Callers
      BY <2>1 DEF SqlInit
    <2>3. queue \in Int /\ inserts \in 0 .. MaxInserts /\ call \in [Callers -> Locals]
      BY <2>1, IdleLocal DEF SqlInit
    <2>4. drift \in BOOLEAN
      BY Zenon DEF SqlInit
    <2> QED
      BY <2>2, <2>3, <2>4 DEF SqlType
  <1>2. Distinct
    BY DEF SqlInit, Distinct
  <1>3. \A p \in Callers : ~Whole(p) /\ ~Relative(p)
    BY <1>0, IdleLocal DEF Whole, Relative
  <1>4. LocalInv
    BY <1>0, <1>3, IdleLocal DEF LocalInv, Callers
  <1>5. HeldInv
    BY <1>3 DEF HeldInv
  <1>6. SumInv
    <2>1. Moves = 0
      BY <1>0, IdleLocal DEF Moves, Callers
    <2> QED
      BY <2>1, FS_EmptySet DEF SumInv, SqlInit
  <1>7. WholeInv
    BY <1>0, IdleLocal DEF WholeInv
  <1> QED
    BY <1>1, <1>2, <1>4, <1>5, <1>6, <1>7 DEF SqlInv

LEMMA SqlInvNext == SqlInv /\ [SqlNext]_sqlVars => SqlInv'
  <1> SUFFICES ASSUME SqlInv, [SqlNext]_sqlVars
               PROVE  SqlInv'
    OBVIOUS
  <1>1. CASE UNCHANGED sqlVars
    BY ZenonT(60), <1>1 DEF sqlVars, SqlInv, SqlType, RowType, Distinct, LocalInv, HeldInv, SumInv, WholeInv,
                Whole, Relative, Moves, Passed, Index
  <1>2. CASE Calls
    BY <1>2, BeginStep, BeginWholeStep DEF Calls, Callers
  <1>3. CASE Steps
    BY <1>3, SetStep, GetStep, RemoveStep, ResetStep, PurgeStep, RowStep, QueueStep DEF Steps
  <1>4. CASE \E t \in RowTimes : RestartSql(t)
    BY <1>4, SqlRestartStep
  <1> QED
    BY <1>1, <1>2, <1>3, <1>4 DEF SqlNext

LEMMA SqlInvariant == SqlSpec => []SqlInv
  BY SqlInvInit, SqlInvNext, PTL DEF SqlSpec

(* repoData.c:205-310, storage_sqlite.c: whatever the flight-plan task and *)
(* the executer put, take, delete, reset or purge at the same time, and    *)
(* wherever a restart falls, dat_fpl_queue is the number of rows when no   *)
(* call is under way, unless one of the overlaps, replacements and         *)
(* deletions that the property names has happened.                         *)
THEOREM CountedCorrect == SqlSpec => []Counted
  <1>1. SqlInv => Counted
    <2> SUFFICES ASSUME SqlInv, call = [p \in Callers |-> NoCall], ~drift
                 PROVE  queue = Cardinality(fp_table)
      BY DEF Counted
    <2>1. \A p \in Callers : call[p] = NoCall
      OBVIOUS
    <2>2. \A p \in Callers : ~Whole(p) /\ call[p].d = 0
      BY <2>1, IdleLocal DEF Whole
    <2>3. Moves = 0
      BY <2>2 DEF Moves, Callers
    <2> QED
      BY <2>2, <2>3 DEF SqlInv, SqlType, SumInv
  <1> QED
    BY <1>1, SqlInvariant, PTL

--------------------------------------------------------------------------------
(* The refinement *)

SqlRows == {Row(r) : r \in fp_table}

(* Rows are told apart by what FpTable sees of them.                       *)
LEMMA RowKept ==
    ASSUME SqlInv, NEW S \in SUBSET fp_table
    PROVE  {Row(r) : r \in fp_table \ S} = SqlRows \ {Row(r) : r \in S}
  <1>1. \A r, q \in fp_table : Row(r) = Row(q) => r = q
    BY DEF SqlInv, Distinct, Row
  <1> QED
    BY <1>1 DEF SqlRows

LEMMA SqlTableStep ==
    ASSUME SqlInv, [SqlNext]_sqlVars
    PROVE  \/ \E r \in [time : RowTimes, id : 1 .. MaxInserts] \ SqlRows : 
                 SqlRows' = (SqlRows \ {q \in asked' : q.time = r.time}) \cup {r}
           \/ SqlRows' = SqlRows \ asked'
           \/ SqlRows' = SqlRows
           \/ raced' = TRUE /\ SqlRows' \subseteq [time : RowTimes, id : 1 .. MaxInserts]
  <1>1. ASSUME NEW p \in Callers, dat_set_fp(p)
        PROVE  \E r \in [time : RowTimes, id : 1 .. MaxInserts] \ SqlRows :
                 SqlRows' = (SqlRows \ {q \in asked' : q.time = r.time}) \cup {r}
    <2> DEFINE t == call[p].t
    <2>0. inserts \in Nat /\ inserts < MaxInserts /\ MaxInserts \in Nat /\ t \in RowTimes
      BY <1>1, SqlAssumption DEF SqlInv, SqlType, LocalInv, dat_set_fp
    <2>a. fp_table' = InsertOrReplace(t) /\ asked' = {Row(r) : r \in At(t)}
      BY <1>1 DEF dat_set_fp
    <2> HIDE DEF t
    <2>1. PICK n \in 1 .. inserts + 1 : fp_table' =
              (fp_table \ At(t)) \cup {[rowid |-> n, time |-> t, id |-> inserts + 1]}
      BY <2>0, <2>a, Inserted DEF SqlInv
    <2> DEFINE new == [time |-> t, id |-> inserts + 1]
    <2>2. Row([rowid |-> n, time |-> t, id |-> inserts + 1]) = new
      BY DEF Row
    <2>3. SqlRows' = {Row(r) : r \in fp_table \ At(t)} \cup {new}
      BY <2>1, <2>2 DEF SqlRows
    <2>4. {Row(r) : r \in fp_table \ At(t)} = SqlRows \ asked'
      BY <2>a, RowKept DEF At
    <2>5. {q \in asked' : q.time = t} = asked'
      BY <2>a DEF At, Row
    <2>6. new \in [time : RowTimes, id : 1 .. MaxInserts] /\ new.time = t
      BY <2>0
    <2>7. new \notin SqlRows
      <3> SUFFICES ASSUME NEW r \in fp_table, Row(r) = new
                   PROVE  FALSE
        BY DEF SqlRows
      <3>1. Row(r).id = r.id /\ new.id = inserts + 1
        BY DEF Row
      <3>2. r.id \in 1 .. inserts
        BY DEF SqlInv, SqlType, RowType
      <3> QED
        BY <2>0, <3>1, <3>2
    <2> QED
      BY <2>3, <2>4, <2>5, <2>6, <2>7
  <1>2. ASSUME NEW p \in Callers, dat_del_fp(p)
        PROVE  SqlRows' = SqlRows \ asked'
    <2>1. fp_table' = fp_table \ At(call[p].t) /\ asked' = {Row(r) : r \in At(call[p].t)}
      BY <1>2 DEF dat_del_fp
    <2> QED
      BY <2>1, RowKept DEF At, SqlRows
  <1>3. ASSUME NEW p \in Callers, PurgeRow(p), ~raced'
        PROVE  SqlRows' = SqlRows \ asked'
    <2> DEFINE old == Index(call[p].i)
    <2>1. call[p].t \in Nat /\ \A r \in fp_table : r.time \in Nat
      BY SqlAssumption, CallTyped DEF SqlInv, SqlType, RowType
    <2>2. old \in SUBSET fp_table
      BY DEF Index
    <2>3. \A r \in old : ~(r.time > call[p].t)
      BY <1>3 DEF PurgeRow
    <2>4. {q \in old : q.time <= call[p].t} = old
      BY <2>1, <2>2, <2>3
    <2>5. fp_table' = fp_table \ old /\ asked' = {Row(r) : r \in {q \in old : q.time <= call[p].t}}
      BY <1>3 DEF PurgeRow
    <2> HIDE DEF old
    <2>6. {Row(r) : r \in fp_table \ old} = SqlRows \ {Row(r) : r \in old}
      BY <2>2, RowKept
    <2> QED
      BY <2>4, <2>5, <2>6 DEF SqlRows
  <1>4. ASSUME NEW p \in Callers, PurgeRow(p), raced'
        PROVE  raced' = TRUE /\ SqlRows' \subseteq [time : RowTimes, id : 1 .. MaxInserts]
    <2>1. raced' = TRUE
      BY <1>4 DEF PurgeRow
    <2>2. fp_table' \subseteq fp_table
      BY <1>4 DEF PurgeRow
    <2>3. \A r \in fp_table : Row(r) \in [time : RowTimes, id : 1 .. MaxInserts]
      <3>1. \A r \in fp_table : r.time \in RowTimes /\ r.id \in 1 .. MaxInserts
        BY SqlAssumption DEF SqlInv, SqlType, RowType
      <3> QED
        BY <3>1 DEF Row
    <2> QED
      BY <2>1, <2>2, <2>3 DEF SqlRows
  <1>5. ASSUME NEW p \in Callers, dat_reset_fp(p)
        PROVE  SqlRows' = SqlRows \ asked'
    BY <1>5 DEF dat_reset_fp, SqlRows
  <1>6. ASSUME fp_table' = fp_table
        PROVE  SqlRows' = SqlRows
    BY <1>6 DEF SqlRows
  <1>7. ASSUME NEW p \in Callers, dat_get_fp(p) \/ dat_purge_fp(p) \/ SetQueue(p)
        PROVE  SqlRows' = SqlRows
    BY <1>6, <1>7 DEF dat_get_fp, dat_purge_fp, SetQueue, NoEdit
  <1>8. CASE Calls \/ (\E t \in RowTimes : RestartSql(t)) \/ UNCHANGED sqlVars
    BY <1>6, <1>8 DEF Calls, Begin, BeginWhole, RestartSql, NoEdit, sqlVars
  <1>9. CASE Steps
    BY <1>1, <1>2, <1>3, <1>4, <1>5, <1>7, <1>9 DEF Steps
  <1> QED
    BY <1>8, <1>9 DEF SqlNext

(* storage_sqlite.c:209-420: the SQLite flight plan implements the table   *)
(* repoData.c expects, whatever the times, however many rows and whoever   *)
(* calls at the same time: a row can be read until an operation asks for   *)
(* it, or for its time, to go, or a purge deletes at an index it has       *)
(* looked at before another row came there.                                *)
THEOREM SqlImplements == SqlSpec => SqlIsTable
  <1>1. SqlInit => {Row(r) : r \in fp_table} = {} /\ raced = FALSE
    BY DEF SqlInit
  <1>2. SqlInv /\ [SqlNext]_sqlVars =>
            [(\E r \in [time : RowTimes, id : 1 .. MaxInserts] \ {Row(r) : r \in fp_table} :
                  SqlTable!Put(r)) \/ SqlTable!Drop \/ SqlTable!Fault]_{Row(r) : r \in fp_table}
    BY SqlTableStep DEF SqlTable!Put, SqlTable!Drop, SqlTable!Fault, SqlRows
  <1> QED
    BY <1>1, <1>2, SqlInvariant, PTL DEF SqlSpec, SqlIsTable, SqlTable!TableSpec

--------------------------------------------------------------------------------
(* FlashPlan *)

(* What a page may hold when n rows have been put, and an entry of the TLB. *)
PageRow(n) == {Erased, Garbage} \cup [time : Times, id : 1 .. n]
Entry == {Free} \cup [time : Times, page : Page]
Tlbs == [slot : [Slot -> Entry], used : Nat]

InUse(s) == tlb.slot[s] # Free
Setting == work.pc \in {"setCount", "setRow"}
Moving == work.pc \in {"nextCount", "nextRow"}
Rebuilding == work.pc = "next" \/ Moving
Waiting == work.pc \in {"idle", "put"}

Works(n) ==
    [pc : {"idle", "put", "setCount", "setRow", "next", "nextCount", "nextRow", "reset"},
     slot : 0 .. Slots, row : PageRow(n), copy : {<<>>} \cup [Page -> PageRow(n)]]

(* A slot being moved has the last page counted, whatever has failed. *)
WorkType ==
    /\ work \in Works(puts)
    /\ work.pc = "idle" => work = Idle
    /\ Setting \/ Moving => work.slot \in Slot /\ InUse(work.slot)
    /\ Setting => /\ work.row.time = tlb.slot[work.slot].time /\ work.row.id = puts
                  /\ puts > 0
    /\ Rebuilding => work.copy \in [Page -> PageRow(puts)]
    /\ work.pc = "next" => tlb.used <= work.slot
    /\ Moving => /\ tlb.used > 0 /\ tlb.used <= work.slot + 1
                 /\ tlb.slot[work.slot].page = tlb.used - 1

FlashType ==
    /\ puts \in 0 .. MaxPuts /\ spoilt \in BOOLEAN /\ torn \in BOOLEAN
    /\ tlb \in Tlbs /\ fram \in Tlbs /\ flash \in [Page -> PageRow(puts)]
    /\ WorkType

(* The copy in FRAM lacks the count only while a slot is set, and that     *)
(* slot has the last page counted.                                         *)
FramInv ==
    /\ Waiting \/ work.pc = "setRow" => fram = tlb
    /\ work.pc = "setCount" => fram = [slot |-> tlb.slot, used |-> tlb.used - 1]
    /\ Setting => tlb.used > 0 /\ tlb.slot[work.slot].page = tlb.used - 1

(* Pages not counted yet, and the page of a row still to write, are erased.*)
ErasedInv ==
    /\ Waiting \/ work.pc = "next" =>
           \A p \in Page : tlb.used <= p /\ p < PerSection => flash[p] = Erased
    /\ Setting \/ Moving =>
           \A p \in Page : tlb.used - 1 <= p /\ p < PerSection => flash[p] = Erased
    /\ Setting => flash[tlb.used - 1] = Erased
    /\ work.pc = "reset" => \A p \in Page : p < PerSection => flash[p] = Erased

(* In a rebuild the slots passed have the first pages; without a torn      *)
(* count all slots in use have pages counted, each once.                   *)
PagesInv ==
    /\ work.pc = "next" => \A s \in Slot : s < work.slot /\ InUse(s) => tlb.slot[s].page < tlb.used
    /\ Moving => \A s \in Slot : s < work.slot /\ InUse(s) => tlb.slot[s].page < tlb.used - 1
    /\ ~torn /\ Waiting =>
           \A s \in Slot : InUse(s) => tlb.slot[s].page < tlb.used
    /\ ~torn /\ Setting =>
           \A s \in Slot : InUse(s) /\ s # work.slot => tlb.slot[s].page < tlb.used - 1

(* The row being set is in no page yet; the row put elsewhere is in no     *)
(* page of the section, nor in the copy a rebuild works from.              *)
NumbersInv ==
    /\ Setting => \A p \in Page : flash[p].id < puts
    /\ \A p \in Page : p < PerSection /\ flash[p].id > 0 => flash[p].id # flash[Elsewhere].id
    /\ Rebuilding => \A p \in Page : work.copy[p].id > 0 => work.copy[p].id # flash[Elsewhere].id
    /\ Moving /\ work.row.id > 0 => work.row.id # flash[Elsewhere].id

Sound == FramInv /\ ErasedInv /\ PagesInv /\ NumbersInv /\ RowsOnce

FlashInv == FlashType /\ (~spoilt => Sound)

LEMMA RowForms ==
    ASSUME NEW n \in Nat
    PROVE  /\ Erased \in PageRow(n) /\ Garbage \in PageRow(n)
           /\ Erased.id = 0 /\ Erased.time = -1 /\ Garbage.id = -1 /\ Garbage.time = -1
           /\ PageRow(n) \subseteq PageRow(n + 1)
           /\ \A r \in PageRow(n) : /\ r.id \in Int /\ r.id <= n
                                    /\ r.id > 0 \/ r.time \in Times => r \in [time : Times, id : 1 .. n]
  BY FlashAssumption DEF PageRow, Erased, Garbage

LEMMA EntryForms ==
    /\ Free \in Entry /\ Free.time = -1 /\ Free.page = -1
    /\ \A e \in Entry : e # Free => e.time \in Times /\ e.page \in Page /\ e.time \in Nat /\ e.page \in Nat
    /\ \A t \in Times, p \in Page : [time |-> t, page |-> p] \in Entry /\ [time |-> t, page |-> p] # Free
  <1>1. Free \in Entry /\ Free.time = -1 /\ Free.page = -1
    BY DEF Entry, Free
  <1>2. Times \subseteq Nat /\ Page \subseteq Nat /\ -1 \notin Nat
    BY FlashAssumption DEF Page
  <1>3. \A e \in Entry : e # Free => e.time \in Times /\ e.page \in Page
    BY DEF Entry
  <1>4. ASSUME NEW t \in Times, NEW p \in Page
        PROVE  [time |-> t, page |-> p] \in Entry /\ [time |-> t, page |-> p] # Free
    <2>1. [time |-> t, page |-> p] \in Entry
      BY DEF Entry
    <2>2. [time |-> t, page |-> p].time = t /\ t # -1
      BY <1>2
    <2> QED
      BY <1>1, <2>1, <2>2
  <1> QED
    BY <1>1, <1>2, <1>3, <1>4

(* The steps, without the quantifiers of FlashNext. *)
LEMMA FlashCases ==
    ASSUME [FlashNext]_flashVars
    PROVE  \/ \E ok \in BOOLEAN :
                  \/ \E t \in Times : DeleteRow(t, ok) /\ doomed' = {RowAt(FindIndex(t))}
                  \/ \E s \in Slot : DeleteIdx(s, ok) /\ doomed' = {RowAt(s)}
                  \/ ResetErase(ok) /\ doomed' = {RowAt(s) : s \in {q \in Slot : tlb.slot[q].page < PerSection}}
                  \/ ResetTlb(ok) /\ doomed' = Readable
                  \/ \E t \in Times, p \in Page : SetSlot(t, p, ok) /\ doomed' = {}
                  \/ \E erased \in BOOLEAN : Rebuild(ok, erased) /\ doomed' = {}
                  \/ SetCount(ok) /\ doomed' = {}
                  \/ SetRow(ok) /\ doomed' = {}
                  \/ SetNoSlot /\ doomed' = {}
                  \/ RebuildNext(ok) /\ doomed' = {}
                  \/ RebuildCount(ok) /\ doomed' = {}
                  \/ RebuildRow(ok) /\ doomed' = {}
                  \/ RebuildDone(ok) /\ doomed' = {}
                  \/ Restart /\ doomed' = {}
           \/ UNCHANGED flashVars
  <1>1. CASE UNCHANGED flashVars
    BY <1>1
  <1>2. CASE FlashNext
    <2>1. PICK ok \in BOOLEAN :
        \/ \E t \in Times : DeleteRow(t, ok) /\ doomed' = {RowAt(FindIndex(t))}
        \/ \E s \in Slot : DeleteIdx(s, ok) /\ doomed' = {RowAt(s)}
        \/ ResetErase(ok) /\ doomed' = {RowAt(s) : s \in {q \in Slot : tlb.slot[q].page < PerSection}}
        \/ ResetTlb(ok) /\ doomed' = Readable
        \/ /\ \/ \E t \in Times, p \in Page : SetSlot(t, p, ok)
              \/ \E erased \in BOOLEAN : Rebuild(ok, erased)
              \/ SetCount(ok) \/ SetRow(ok) \/ SetNoSlot
              \/ RebuildNext(ok) \/ RebuildCount(ok) \/ RebuildRow(ok) \/ RebuildDone(ok)
              \/ Restart
           /\ doomed' = {}
      BY <1>2, Zenon DEF FlashNext
    <2> QED
      BY <2>1, Zenon
  <1> QED
    BY <1>1, <1>2

(* A time some slot has is found at one of its slots. *)
LEMMA SlotFound ==
    ASSUME NEW t, SlotsAt(t) # {}
    PROVE  FindIndex(t) \in Slot /\ tlb.slot[FindIndex(t)].time = t
  <1>1. SlotsAt(t) \in SUBSET Nat
    BY FlashAssumption DEF SlotsAt, Slot
  <1>2. IsWellFoundedOn(OpToRel(<, Nat), Nat)
    BY NatLessThanWellFounded
  <1>3. PICK m \in SlotsAt(t) : \A q \in SlotsAt(t) : ~(<<q, m>> \in OpToRel(<, Nat))
    BY <1>1, <1>2, WFMin, Zenon
  <1>4. ASSUME NEW q \in SlotsAt(t)
        PROVE  m <= q
    <2>1. q \in Nat /\ m \in Nat
      BY <1>1
    <2>2. ~(q < m)
      BY <1>3, <2>1 DEF OpToRel
    <2> QED
      BY <2>1, <2>2
  <1>5. FindIndex(t) \in SlotsAt(t)
    BY <1>4 DEF FindIndex
  <1> QED
    BY <1>5 DEF SlotsAt

LEMMA FlashTypeInit == FlashInit => FlashType
  <1> SUFFICES ASSUME FlashInit
               PROVE  FlashType
    OBVIOUS
  <1>1. NoRows \in Tlbs /\ Erased \in PageRow(0)
    BY FlashAssumption, EntryForms, RowForms DEF NoRows, Tlbs
  <1>2. flash \in [Page -> PageRow(0)] /\ puts = 0 /\ 0 \in 0 .. MaxPuts
    <2>1. PICK e \in {Erased, Garbage} : flash = [p \in Page |-> IF p = Elsewhere THEN e ELSE Erased]
      BY DEF FlashInit
    <2> QED
      BY <1>1, <2>1, RowForms, FlashAssumption DEF FlashInit
  <1>3. WorkType
    BY <1>1, <1>2, FlashAssumption DEF FlashInit, WorkType, Works, Idle, Setting, Moving, Rebuilding
  <1>4. spoilt \in BOOLEAN /\ torn \in BOOLEAN
    BY Zenon DEF FlashInit
  <1> QED
    BY <1>1, <1>2, <1>3, <1>4 DEF FlashType, FlashInit

(* The pieces of the type that every proof below unfolds. *)
LEMMA TypeFacts ==
    ASSUME FlashType
    PROVE  /\ puts \in Nat /\ puts <= MaxPuts
           /\ tlb = [slot |-> tlb.slot, used |-> tlb.used]
           /\ tlb.slot \in [Slot -> Entry] /\ tlb.used \in Nat
           /\ fram = [slot |-> fram.slot, used |-> fram.used]
           /\ fram.slot \in [Slot -> Entry] /\ fram.used \in Nat
           /\ flash \in [Page -> PageRow(puts)]
           /\ PerSection \in Nat /\ Slots \in Nat /\ 0 < Slots /\ Slots < PerSection
           /\ Elsewhere = PerSection /\ Elsewhere \in Page
           /\ \A p \in Page : p < PerSection \/ p = Elsewhere
  BY FlashAssumption DEF FlashType, Tlbs, Page, Elsewhere

LEMMA WorkFacts ==
    ASSUME FlashType
    PROVE  /\ work = [pc |-> work.pc, slot |-> work.slot, row |-> work.row, copy |-> work.copy]
           /\ work.slot \in 0 .. Slots /\ work.row \in PageRow(puts)
  BY DEF FlashType, WorkType, Works

(* A slot taken or moved gets a page; a slot cleared has none.             *)
LEMMA TlbForms ==
    ASSUME FlashType, NEW s \in Slot, NEW t \in Times, NEW p \in Page
    PROVE  /\ UpdateTlb(s, t, p) \in Tlbs
           /\ UpdateTlb(s, t, p) = [slot |-> [tlb.slot EXCEPT ![s] = [time |-> t, page |-> p]], used |-> tlb.used + 1]
           /\ UpdateTlb(s, t, p).used = tlb.used + 1
           /\ UpdateTlb(s, t, p).slot[s] = [time |-> t, page |-> p]
           /\ UpdateTlb(s, t, p).slot[s] # Free
           /\ \A q \in Slot : q # s => UpdateTlb(s, t, p).slot[q] = tlb.slot[q]
  <1>1. [time |-> t, page |-> p] \in Entry /\ [time |-> t, page |-> p] # Free
    BY EntryForms
  <1>2. UpdateTlb(s, t, p) = [slot |-> [tlb.slot EXCEPT ![s] = [time |-> t, page |-> p]], used |-> tlb.used + 1]
    BY DEF UpdateTlb
  <1> QED
    BY <1>1, <1>2, TypeFacts DEF Tlbs

LEMMA Dumped ==
    ASSUME FlashType, NEW s \in Slot, NEW ok \in BOOLEAN, tlb' \in Tlbs, DumpSlot(s, ok)
    PROVE  /\ ok => fram' = [slot |-> [fram.slot EXCEPT ![s] = tlb'.slot[s]], used |-> fram.used]
           /\ fram' \in Tlbs
  <1>1. tlb'.slot[s] \in Entry
    BY DEF Tlbs
  <1>2. fram' = IF ok THEN [slot |-> [fram.slot EXCEPT ![s] = tlb'.slot[s]], used |-> fram.used] ELSE fram
    BY TypeFacts DEF DumpSlot
  <1> QED
    BY <1>1, <1>2, TypeFacts DEF Tlbs, FlashType

LEMMA CountDumped ==
    ASSUME FlashType, NEW ok \in BOOLEAN, DumpCount(ok)
    PROVE  /\ ok => fram' = [slot |-> fram.slot, used |-> tlb.used]
           /\ fram' \in Tlbs
  <1>1. fram' = IF ok THEN [slot |-> fram.slot, used |-> tlb.used] ELSE fram
    BY TypeFacts DEF DumpCount
  <1> QED
    BY <1>1, TypeFacts DEF Tlbs, FlashType

(* A failure spoils. *)
LEMMA Spoils ==
    ASSUME FlashType, NEW ok, Fails(ok)
    PROVE  spoilt' \in BOOLEAN /\ (spoilt => spoilt') /\ (~spoilt' => ~spoilt /\ ok)
  BY DEF Fails, FlashType

(* When every slot shows what it showed before, so does the table.         *)
LEMMA SameView ==
    ASSUME \A s \in Slot : InUse(s)' <=> InUse(s),
           \A s \in Slot : InUse(s) => RowAt(s)' = RowAt(s)
    PROVE  /\ Readable' = Readable
           /\ RowsOnce /\ (spoilt => spoilt') /\ (torn => torn') => RowsOnce'
  <1>1. Readable' = Readable
    BY Zenon DEF Readable, Shown, InUse
  <1>2. RowsOnce /\ (spoilt => spoilt') /\ (torn => torn') => RowsOnce'
    BY DEF RowsOnce, InUse
  <1> QED
    BY <1>1, <1>2

(* A row that can be read is a row that was put. *)
LEMMA ShownType ==
    ASSUME FlashType, NEW s \in Slot
    PROVE  RowAt(s) \in PageRow(puts)
  <1>1. InUse(s) => tlb.slot[s].page \in Page
    BY TypeFacts, EntryForms DEF InUse
  <1>2. Erased \in PageRow(puts)
    BY TypeFacts, RowForms
  <1>3. work.pc \in {"next", "nextCount", "nextRow"} => work.copy \in [Page -> PageRow(puts)]
    BY DEF FlashType, WorkType, Works, Rebuilding, Moving
  <1> QED
    BY <1>1, <1>2, <1>3, TypeFacts, WorkFacts DEF RowAt, InUse

LEMMA ReadableType ==
    FlashType => Readable \subseteq [time : Times, id : 1 .. puts]
  <1> SUFFICES ASSUME FlashType, NEW s \in Slot, RowAt(s).id > 0
               PROVE  RowAt(s) \in [time : Times, id : 1 .. puts]
    BY DEF Readable, Shown
  <1> QED
    BY ShownType, TypeFacts, RowForms

--------------------------------------------------------------------------------
(* The steps of a put. *)
LEMMA SetSlotStep ==
    ASSUME FlashInv, NEW t \in Times, NEW p \in Page, NEW ok \in BOOLEAN, SetSlot(t, p, ok)
    PROVE  FlashInv' /\ (~spoilt' => Readable' = Readable)
  <1>1. PICK s \in Slot : s = FindIndex(-1) /\ tlb.slot[s].time = -1
    BY SlotFound DEF SetSlot
  <1>0. PICK r : r = [time |-> t, id |-> puts + 1]
    OBVIOUS
  <1>2. tlb.slot[s] = Free
    BY <1>1, EntryForms, TypeFacts DEF FlashInv
  <1>3. /\ puts < MaxPuts /\ Waiting /\ p \in NextPages
        /\ tlb' = UpdateTlb(s, t, p) /\ DumpSlot(s, ok)
        /\ ok => work' = [pc |-> "setCount", slot |-> s, row |-> r, copy |-> <<>>]
        /\ ~ok => work' = Idle
        /\ puts' = puts + 1 /\ flash' = flash /\ torn' = torn
        /\ Fails(ok /\ SafePage(p))
    BY <1>0, <1>1 DEF SetSlot, Waiting
  <1>4. /\ tlb' \in Tlbs /\ tlb'.used = tlb.used + 1
        /\ tlb'.slot[s] = [time |-> t, page |-> p] /\ tlb'.slot[s] # Free
        /\ \A q \in Slot : q # s => tlb'.slot[q] = tlb.slot[q]
        /\ tlb' = [slot |-> [tlb.slot EXCEPT ![s] = [time |-> t, page |-> p]], used |-> tlb.used + 1]
    BY <1>1, <1>3, TlbForms DEF FlashInv
  <1>5. /\ ok => fram' = [slot |-> [fram.slot EXCEPT ![s] = tlb'.slot[s]], used |-> fram.used]
        /\ fram' \in Tlbs
    BY <1>1, <1>3, <1>4, Dumped DEF FlashInv
  <1>6. puts \in Nat /\ puts' \in 0 .. MaxPuts /\ puts' > 0
    BY <1>3, TypeFacts, FlashAssumption DEF FlashInv
  <1>7. flash' \in [Page -> PageRow(puts')]
    BY <1>3, <1>6, TypeFacts, RowForms DEF FlashInv
  <1>8. r \in PageRow(puts') /\ Erased \in PageRow(puts') /\ 0 \in 0 .. Slots
    BY <1>0, <1>3, <1>6, TypeFacts DEF PageRow, FlashInv
  <1>9. ok => Setting' /\ ~Moving' /\ ~Rebuilding' /\ ~Waiting' /\ work'.pc = "setCount" /\ work'.slot = s
    BY <1>3 DEF Setting, Moving, Rebuilding, Waiting
  <1>10. WorkType'
    <2>1. CASE ok
      <3>1. work' \in Works(puts')
        BY <1>1, <1>3, <1>8, <2>1, TypeFacts DEF Slot, FlashInv, Works
      <3>2. work'.row.time = tlb'.slot[s].time /\ work'.row.id = puts'
        BY <1>0, <1>3, <1>4, <2>1
      <3> QED
        BY <1>3, <1>4, <1>6, <1>9, <2>1, <3>1, <3>2 DEF WorkType, Works, InUse
    <2>2. CASE ~ok
      <3>1. work' = Idle /\ work' \in Works(puts')
        BY <1>3, <1>8, <2>2 DEF Works, Idle
      <3> QED
        BY <3>1 DEF WorkType, Setting, Moving, Rebuilding, Idle
    <2> QED
      BY <2>1, <2>2
  <1>11. FlashType'
    <2>1. spoilt' \in BOOLEAN
      BY <1>3, Spoils DEF FlashInv
    <2> QED
      BY <1>3, <1>4, <1>5, <1>6, <1>7, <1>10, <2>1 DEF FlashType, FlashInv
  <1>12. CASE spoilt'
    BY <1>11, <1>12 DEF FlashInv
  <1>13. CASE ~spoilt'
    <2>1. ok /\ SafePage(p) /\ ~spoilt /\ Sound
      BY <1>3, <1>13, Spoils DEF FlashInv
    <2>2. p = tlb.used /\ tlb.used \in Nat /\ tlb.used <= PerSection /\ (tlb.used = PerSection => flash[PerSection] = Erased)
      BY <1>3, <2>1, TypeFacts DEF NextPages, SafePage, FlashInv
    <2>3. FramInv'
      <3>1. fram = tlb
        BY <1>3, <2>1 DEF Sound, FramInv
      <3>2. fram'.slot = tlb'.slot /\ fram'.used = tlb'.used - 1
        BY <1>1, <1>4, <1>5, <2>1, <2>2, <3>1, TypeFacts DEF FlashInv
      <3>3. tlb'.used > 0 /\ tlb'.slot[s].page = tlb'.used - 1
        BY <1>4, <2>2
      <3>4. fram' = [slot |-> tlb'.slot, used |-> tlb'.used - 1]
        BY <1>5, <2>1, <3>2
      <3> QED
        BY <1>9, <2>1, <3>3, <3>4 DEF FramInv
    <2>4. ErasedInv'
      <3>1. \A q \in Page : tlb.used <= q /\ q < PerSection => flash[q] = Erased
        BY <1>3, <2>1 DEF Sound, ErasedInv
      <3>2. tlb'.used - 1 = tlb.used /\ tlb.used \in Page
        BY <1>4, <2>2
      <3>3. flash[tlb'.used - 1] = Erased
        BY <2>2, <3>1, <3>2, TypeFacts DEF FlashInv
      <3> QED
        BY <1>3, <1>9, <2>1, <3>1, <3>2, <3>3 DEF ErasedInv
    <2>5. PagesInv'
      <3>1. ~torn => \A q \in Slot : InUse(q) => tlb.slot[q].page < tlb.used
        BY <1>3, <2>1 DEF Sound, PagesInv
      <3>2. tlb'.used - 1 = tlb.used
        BY <1>4, <2>2
      <3> QED
        BY <1>3, <1>4, <1>9, <2>1, <3>1, <3>2 DEF PagesInv, InUse
    <2>6. NumbersInv'
      <3>1. \A q \in Page : flash[q].id < puts'
        BY SMTT(60), <1>3, <1>6, TypeFacts, RowForms DEF FlashInv
      <3> QED
        BY <1>3, <1>9, <2>1, <3>1 DEF Sound, NumbersInv
    <2>7. RowAt(s)' = Erased
      <3>1. RowAt(s)' = flash[p]
        BY <1>3, <1>4, <1>9, <2>1 DEF RowAt
      <3>2. flash[tlb'.used - 1] = Erased
        BY <1>3, <1>9, <2>1, <2>4 DEF ErasedInv
      <3> QED
        BY <1>4, <2>2, <3>1, <3>2
    <2>8. ASSUME NEW q \in Slot, q # s
          PROVE  tlb'.slot[q] = tlb.slot[q] /\ RowAt(q)' = RowAt(q)
      BY <1>3, <1>4, <1>9, <2>1, <2>8 DEF RowAt, Waiting
    <2>9. Erased.id = 0
      BY DEF Erased
    <2>10. Readable' = Readable
      <3>1. ASSUME NEW q \in Slot
            PROVE  (tlb.slot[q] # Free /\ RowAt(q).id > 0)
                       <=> (tlb.slot[q] # Free /\ RowAt(q).id > 0)'
        BY <1>2, <1>4, <2>7, <2>8, <2>9
      <3>2. \A q \in Slot : tlb.slot[q] # Free => RowAt(q)' = RowAt(q)
        BY <1>2, <2>8
      <3> QED
        BY ZenonT(60), <3>1, <3>2 DEF Readable, Shown
    <2>11. RowsOnce'
      <3> SUFFICES ASSUME ~torn', NEW a \in Slot, NEW b \in Slot, a # b,
                          tlb'.slot[a] # Free, tlb'.slot[b] # Free, RowAt(a)'.id > 0
                   PROVE  RowAt(a)'.id # RowAt(b)'.id
        BY DEF RowsOnce
      <3>1. CASE a # s /\ b # s
        BY <1>3, <2>1, <2>8, <3>1 DEF RowsOnce, Sound
      <3> QED
        BY <2>7, <2>9, <3>1
    <2> QED
      BY <1>11, <2>3, <2>4, <2>5, <2>6, <2>10, <2>11 DEF FlashInv, Sound
  <1> QED
    BY <1>12, <1>13

LEMMA SetNoSlotStep ==
    ASSUME FlashInv, SetNoSlot
    PROVE  FlashInv' /\ Readable' = Readable
  <1>1. /\ work.pc = "put" /\ work' = Idle
        /\ UNCHANGED <<tlb, fram, flash, puts, spoilt, torn>>
    BY DEF SetNoSlot
  <1>2. /\ Waiting /\ ~Setting /\ ~Moving /\ ~Rebuilding
        /\ Waiting' /\ ~Setting' /\ ~Moving' /\ ~Rebuilding' /\ work'.pc = "idle"
    BY <1>1 DEF Setting, Moving, Rebuilding, Waiting, Idle
  <1>3. FlashType'
    <2>1. WorkType'
      BY <1>1, <1>2, RowForms, TypeFacts DEF WorkType, Works, FlashInv, Idle
    <2> QED
      BY <1>1, <2>1 DEF FlashType, FlashInv
  <1>4. ~spoilt => FramInv' /\ ErasedInv' /\ PagesInv' /\ NumbersInv'
    BY <1>1, <1>2 DEF FlashInv, Sound, FramInv, ErasedInv, PagesInv, NumbersInv, InUse
  <1>5. ASSUME NEW s \in Slot
        PROVE  (InUse(s)' <=> InUse(s)) /\ RowAt(s)' = RowAt(s)
    BY <1>1 DEF InUse, RowAt, Idle
  <1>6. Readable' = Readable /\ (RowsOnce => RowsOnce')
    BY <1>1, <1>5, SameView
  <1> QED
    BY <1>1, <1>3, <1>4, <1>6 DEF FlashInv, Sound

LEMMA SetCountStep ==
    ASSUME FlashInv, NEW ok \in BOOLEAN, SetCount(ok)
    PROVE  FlashInv' /\ Readable' = Readable
  <1>1. /\ work.pc = "setCount"
        /\ ok => work' = [work EXCEPT !.pc = "setRow"]
        /\ ~ok => work' = Idle
        /\ DumpCount(ok) /\ Fails(ok)
        /\ UNCHANGED <<tlb, flash, puts, torn>>
    BY DEF SetCount
  <1>2. ok => work' = [pc |-> "setRow", slot |-> work.slot, row |-> work.row, copy |-> work.copy]
    BY <1>1, WorkFacts DEF FlashInv
  <1>3. /\ ok => fram' = [slot |-> fram.slot, used |-> tlb.used]
        /\ fram' \in Tlbs
    BY <1>1, CountDumped DEF FlashInv
  <1>4. Setting /\ ~Moving /\ ~Moving' /\ ~Rebuilding /\ ~Rebuilding' /\ (Setting' <=> ok)
        /\ (ok => work'.pc = "setRow" /\ ~Waiting')
    BY <1>1, <1>2 DEF Setting, Moving, Rebuilding, Waiting, Idle
  <1>5. FlashType'
    <2>1. WorkType'
      <3>1. CASE ok
        BY <1>1, <1>2, <1>4, <3>1 DEF WorkType, Works, FlashType, FlashInv, InUse
      <3>2. CASE ~ok
        BY <1>1, <1>4, <3>2, RowForms, TypeFacts DEF WorkType, Works, FlashInv, Idle
      <3> QED
        BY <3>1, <3>2
    <2>2. spoilt' \in BOOLEAN
      BY <1>1, Spoils DEF FlashInv
    <2> QED
      BY <1>1, <1>3, <2>1, <2>2 DEF FlashType, FlashInv
  <1>6. ~spoilt' => FramInv' /\ ErasedInv' /\ PagesInv' /\ NumbersInv'
    <2> SUFFICES ASSUME ~spoilt'
                 PROVE  FramInv' /\ ErasedInv' /\ PagesInv' /\ NumbersInv'
      OBVIOUS
    <2>1. ok /\ Sound
      BY <1>1, Spoils DEF FlashInv
    <2>2. fram' = tlb
      <3>1. fram = [slot |-> tlb.slot, used |-> tlb.used - 1]
        BY <1>1, <2>1 DEF Sound, FramInv
      <3> QED
        BY <1>3, <2>1, <3>1, TypeFacts DEF FlashInv
    <2> QED
      BY <1>1, <1>2, <1>4, <2>1, <2>2 DEF Sound, FramInv, ErasedInv, PagesInv, NumbersInv, InUse
  <1>7. ASSUME NEW s \in Slot
        PROVE  (InUse(s)' <=> InUse(s)) /\ RowAt(s)' = RowAt(s)
    BY <1>1, <1>2 DEF InUse, RowAt, Idle
  <1>8. Readable' = Readable /\ (RowsOnce => RowsOnce')
    <2>1. spoilt => spoilt'
      BY <1>1, Spoils DEF FlashInv
    <2> QED
      BY <1>1, <1>7, <2>1, SameView DEF FlashInv
  <1>9. ~spoilt' => ~spoilt
    BY <1>1, Spoils DEF FlashInv
  <1> QED
    BY <1>5, <1>6, <1>8, <1>9 DEF FlashInv, Sound

(* The row appears in its page, which was erased, and in no other slot.    *)
LEMMA SetRowStep ==
    ASSUME FlashInv, NEW ok \in BOOLEAN, SetRow(ok)
    PROVE  /\ FlashInv'
           /\ ~spoilt' => \/ Readable' = Readable
                          \/ /\ work.row \in [time : Times, id : 1 .. MaxPuts]
                             /\ Readable' = Readable \cup {work.row}
  <1>1. PICK p : p = tlb.slot[work.slot].page
    OBVIOUS
  <1>2. /\ work.pc = "setRow" /\ work' = Idle
        /\ flash' = IF ok THEN Written(p, work.row) ELSE flash
        /\ UNCHANGED <<tlb, fram, puts, spoilt, torn>>
    BY <1>1 DEF SetRow
  <1>3. /\ Setting /\ ~Setting' /\ ~Moving /\ ~Moving' /\ ~Rebuilding /\ ~Rebuilding'
        /\ ~Waiting /\ Waiting' /\ work'.pc = "idle"
    BY <1>2 DEF Setting, Moving, Rebuilding, Waiting, Idle
  <1>4. /\ work.slot \in Slot /\ InUse(work.slot)
        /\ work.row.time = tlb.slot[work.slot].time /\ work.row.id = puts /\ puts > 0
    BY <1>1, <1>3 DEF FlashInv, FlashType, WorkType, Works
  <1>5. p \in Page
    BY <1>1, <1>4, TypeFacts, EntryForms DEF FlashInv, InUse
  <1>6. work.row \in [time : Times, id : 1 .. puts]
    BY <1>4, WorkFacts, RowForms, TypeFacts DEF FlashInv
  <1>7. /\ flash' \in [Page -> PageRow(puts)]
        /\ \A q \in Page : q # p => flash'[q] = flash[q]
        /\ flash'[p] \in {flash[p], work.row, Garbage}
        /\ flash[p] = Erased => flash'[p] \in {Erased, work.row}
    <2>1. Garbage \in PageRow(puts) /\ work.row \in PageRow(puts)
      BY TypeFacts, WorkFacts, RowForms DEF FlashInv
    <2> QED
      BY <1>2, <1>5, <2>1, TypeFacts DEF Written, FlashInv
  <1>8. FlashType'
    <2>1. WorkType'
      BY <1>2, <1>3, RowForms, TypeFacts DEF WorkType, Works, FlashInv, Idle
    <2> QED
      BY <1>2, <1>7, <2>1 DEF FlashType, FlashInv
  <1>9. CASE spoilt
    BY <1>2, <1>8, <1>9 DEF FlashInv
  <1>10. CASE ~spoilt
    <2>0. Sound
      BY <1>10 DEF FlashInv
    <2>1. tlb.used > 0 /\ p = tlb.used - 1 /\ fram = tlb
      BY <1>1, <1>2, <1>3, <2>0 DEF Sound, FramInv
    <2>2. FramInv'
      BY <1>2, <1>3, <2>1 DEF FramInv
    <2>3. ErasedInv'
      BY <1>2, <1>3, <1>7, <2>0, <2>1, TypeFacts DEF Sound, ErasedInv, FlashInv, Page
    <2>4. PagesInv'
      <3>1. ~torn => \A s \in Slot : InUse(s) => tlb.slot[s].page < tlb.used
        <4> SUFFICES ASSUME ~torn, NEW s \in Slot, InUse(s)
                     PROVE  tlb.slot[s].page < tlb.used
          OBVIOUS
        <4>1. tlb.used \in Nat /\ tlb.slot[s].page \in Nat
          BY TypeFacts, EntryForms DEF FlashInv, InUse
        <4>2. CASE s = work.slot
          <5>1. tlb.slot[s].page = tlb.used - 1
            BY <1>1, <2>1, <4>2
          <5> QED
            BY <4>1, <5>1
        <4>3. CASE s # work.slot
          <5>1. tlb.slot[s].page < tlb.used - 1
            BY <1>3, <2>0, <4>3 DEF Sound, PagesInv
          <5> QED
            BY <4>1, <5>1
        <4> QED
          BY <4>2, <4>3
      <3> QED
        BY <1>2, <1>3, <3>1 DEF PagesInv, InUse
    <2>5. NumbersInv'
      <3>1. \A q \in Page : flash[q].id < puts /\ flash[q].id \in Int
        BY <1>3, <2>0, TypeFacts, RowForms DEF FlashInv, Sound, NumbersInv
      <3>2. Garbage.id = -1 /\ Elsewhere \in Page /\ puts \in Nat /\ Elsewhere = PerSection
        BY TypeFacts DEF Garbage, FlashInv
      <3>3. \A q \in Page : q < PerSection /\ flash[q].id > 0 => flash[q].id # flash[Elsewhere].id
        BY <2>0 DEF Sound, NumbersInv
      <3>4. ASSUME NEW q \in Page, q < PerSection, flash'[q].id > 0
            PROVE  flash'[q].id # flash'[Elsewhere].id
        <4>1. q # Elsewhere
          BY <3>4, <3>2 DEF Page
        <4>2. flash'[p] = flash[p] \/ flash'[p].id = puts \/ flash'[p].id = -1
          BY <1>4, <1>7, <3>2
        <4>3. CASE q = p
          BY <1>7, <3>1, <3>2, <3>3, <3>4, <4>1, <4>2, <4>3
        <4>4. CASE q # p /\ Elsewhere = p
          BY <1>7, <3>1, <3>2, <3>3, <3>4, <4>1, <4>2, <4>4
        <4>5. CASE q # p /\ Elsewhere # p
          BY <1>7, <3>2, <3>3, <3>4, <4>5
        <4> QED
          BY <4>3, <4>4, <4>5
      <3> QED
        BY <1>3, <3>4 DEF NumbersInv
    <2>6. ASSUME NEW s \in Slot
          PROVE  RowAt(s) = (IF InUse(s) THEN flash[tlb.slot[s].page] ELSE Erased)
      BY <1>2 DEF RowAt, InUse
    <2>7. ASSUME NEW s \in Slot
          PROVE  RowAt(s)' = (IF InUse(s) THEN flash'[tlb.slot[s].page] ELSE Erased)
      BY <1>2 DEF RowAt, InUse, Idle
    <2>8. \A s \in Slot : InUse(s) => tlb.slot[s].page \in Page
      BY TypeFacts, EntryForms DEF FlashInv, InUse
    <2>9. flash[p] = Erased
      BY <1>3, <2>0, <2>1 DEF Sound, ErasedInv
    <2>10. CASE flash' = flash
      <3>1. Readable' = Readable /\ RowsOnce'
        BY <1>2, <2>0, <2>6, <2>7, <2>10, SameView DEF Sound, InUse
      <3> QED
        BY <1>8, <2>2, <2>3, <2>4, <2>5, <3>1 DEF FlashInv, Sound
    <2>11. CASE flash' # flash
      <3>1. flash'[p] = work.row
        BY <1>7, <2>9, <2>11, <1>5, TypeFacts DEF FlashInv
      <3>2. ASSUME NEW s \in Slot, InUse(s)
            PROVE  RowAt(s)' = (IF tlb.slot[s].page = p THEN work.row ELSE RowAt(s))
        BY <1>7, <2>6, <2>7, <2>8, <3>1, <3>2
      <3>3. ASSUME NEW s \in Slot, InUse(s), tlb.slot[s].page = p
            PROVE  RowAt(s) = Erased /\ ~(RowAt(s).id > 0)
        BY <2>6, <2>9, <3>3 DEF Erased
      <3>4. Readable' = Readable \cup {work.row}
        <4>1. ASSUME NEW x \in Readable
              PROVE  x \in Readable'
          <5>1. PICK s \in Slot : InUse(s) /\ RowAt(s).id > 0 /\ x = RowAt(s)
            BY DEF Readable, Shown, InUse
          <5>2. RowAt(s)' = RowAt(s)
            BY <3>2, <3>3, <5>1
          <5> QED
            BY <1>2, <5>1, <5>2, Zenon DEF Readable, Shown, InUse
        <4>2. work.row \in Readable'
          <5>1. PICK s \in Slot : s = work.slot
            BY <1>4
          <5>2. /\ tlb'.slot[s] # Free /\ RowAt(s)' = work.row
                /\ RowAt(s)'.id > 0
            BY <1>1, <1>2, <1>4, <3>2, <5>1 DEF InUse
          <5> QED
            BY <5>2 DEF Readable, Shown
        <4>3. ASSUME NEW x \in Readable'
              PROVE  x \in Readable \cup {work.row}
          <5>1. PICK s \in Slot : tlb'.slot[s] # Free /\ RowAt(s)'.id > 0 /\ x = RowAt(s)'
            BY DEF Readable, Shown
          <5>2. InUse(s) /\ tlb' = tlb
            BY <1>2, <5>1 DEF InUse
          <5>3. CASE tlb.slot[s].page = p
            BY <3>2, <5>1, <5>2, <5>3
          <5>4. CASE tlb.slot[s].page # p
            BY <3>2, <5>1, <5>2, <5>4 DEF Readable, Shown, InUse
          <5> QED
            BY <5>3, <5>4
        <4> QED
          BY <4>1, <4>2, <4>3
      <3>5. RowsOnce'
        <4> SUFFICES ASSUME ~torn, NEW a \in Slot, NEW b \in Slot, a # b, InUse(a), InUse(b), RowAt(a)'.id > 0
                     PROVE  RowAt(a)'.id # RowAt(b)'.id
          BY <1>2 DEF RowsOnce, InUse
        <4>1. \A s \in Slot : InUse(s) /\ s # work.slot => tlb.slot[s].page # p
          <5>1. \A s \in Slot : InUse(s) /\ s # work.slot => tlb.slot[s].page < tlb.used - 1
            BY <1>3, <2>0 DEF Sound, PagesInv
          <5> QED
            BY <2>1, <2>8, <5>1, TypeFacts DEF FlashInv, Page
        <4>2. \A s \in Slot : InUse(s) /\ s # work.slot => RowAt(s)' = RowAt(s) /\ RowAt(s).id < puts
          BY <1>3, <2>0, <2>6, <2>8, <3>2, <4>1 DEF Sound, NumbersInv
        <4>3. RowAt(a)' = RowAt(a) /\ RowAt(b)' = RowAt(b) => RowAt(a)'.id # RowAt(b)'.id
          BY <1>10, <2>0 DEF RowsOnce, Sound, InUse
        <4>4. \A s \in Slot : InUse(s) => RowAt(s).id \in Int
          BY ShownType, RowForms, TypeFacts DEF FlashInv
        <4>5. CASE a = work.slot
          <5>1. RowAt(a)' = work.row /\ RowAt(b)' = RowAt(b) /\ RowAt(b).id < puts
            BY <1>1, <3>2, <4>2, <4>5
          <5> QED
            BY <1>4, <4>4, <5>1, TypeFacts DEF FlashInv
        <4>6. CASE b = work.slot
          <5>1. RowAt(b)' = work.row /\ RowAt(a)' = RowAt(a) /\ RowAt(a).id < puts
            BY <1>1, <3>2, <4>2, <4>6
          <5> QED
            BY <1>4, <4>4, <5>1, TypeFacts DEF FlashInv
        <4> QED
          BY <4>2, <4>3, <4>5, <4>6
      <3>6. work.row \in [time : Times, id : 1 .. MaxPuts]
        BY <1>6, TypeFacts, FlashAssumption DEF FlashInv
      <3> QED
        BY <1>8, <2>2, <2>3, <2>4, <2>5, <3>4, <3>5, <3>6 DEF FlashInv, Sound
    <2> QED
      BY <2>10, <2>11
  <1> QED
    BY <1>9, <1>10

(* A restart: outside a put it is a fault; in a put it loses the count at  *)
(* most.                                                                   *)
LEMMA RestartStep ==
    ASSUME FlashInv, Restart
    PROVE  FlashInv' /\ (~spoilt' => Readable' = Readable)
  <1>1. /\ tlb' = fram /\ work' = Idle /\ UNCHANGED <<fram, flash, puts>>
        /\ Fails(work.pc \in {"idle", "put", "setCount", "setRow"})
        /\ torn' = (torn \/ work.pc = "setCount")
    BY DEF Restart
  <1>2. ~Setting' /\ ~Moving' /\ ~Rebuilding' /\ Waiting' /\ work'.pc = "idle"
    BY <1>1 DEF Setting, Moving, Rebuilding, Waiting, Idle
  <1>3. FlashType'
    <2>1. WorkType'
      BY <1>1, <1>2, RowForms, TypeFacts DEF WorkType, Works, FlashInv, Idle
    <2>2. spoilt' \in BOOLEAN
      BY <1>1, Spoils DEF FlashInv
    <2>3. torn' \in BOOLEAN
      BY <1>1, Zenon
    <2> QED
      BY <1>1, <2>1, <2>2, <2>3 DEF FlashType, FlashInv
  <1>4. CASE spoilt'
    BY <1>3, <1>4 DEF FlashInv
  <1>5. CASE ~spoilt'
    <2>1. /\ ~spoilt /\ (Setting \/ Waiting) /\ ~Moving /\ ~Rebuilding /\ Sound
          /\ ~torn' => ~torn /\ work.pc # "setCount"
      BY <1>1, <1>5, Spoils DEF FlashInv, Setting, Moving, Rebuilding, Waiting
    <2>2. /\ tlb'.slot = tlb.slot /\ tlb'.used \in {tlb.used, tlb.used - 1}
          /\ work.pc # "setCount" => tlb' = tlb
          /\ work.pc = "setCount" => tlb'.used = tlb.used - 1
      BY <1>1, <2>1, TypeFacts DEF Sound, FramInv, Setting
    <2>3. FramInv'
      BY <1>1, <1>2 DEF FramInv
    <2>4. NumbersInv'
      BY <1>1, <1>2, <2>1 DEF NumbersInv, Sound
    <2>5. ErasedInv'
      <3>1. CASE Setting
        <4>1. \A p \in Page : tlb.used - 1 <= p /\ p < PerSection => flash[p] = Erased
          BY <2>1, <3>1 DEF Sound, ErasedInv
        <4>2. \A p \in Page : tlb'.used <= p /\ p < PerSection => flash[p] = Erased
          BY <2>2, <4>1, TypeFacts DEF FlashInv, Page
        <4> QED
          BY <1>1, <1>2, <4>2 DEF ErasedInv
      <3>2. CASE Waiting
        BY <1>1, <1>2, <2>1, <2>2, <3>2 DEF ErasedInv, Sound, Waiting
      <3> QED
        BY <2>1, <3>1, <3>2
    <2>6. PagesInv'
      <3> SUFFICES ASSUME ~torn', NEW s \in Slot, InUse(s)'
                   PROVE  tlb'.slot[s].page < tlb'.used
        BY <1>2 DEF PagesInv
      <3>1. ~torn /\ tlb' = tlb /\ InUse(s)
        BY <2>1, <2>2 DEF InUse
      <3>2. tlb.slot[s].page \in Nat /\ tlb.used \in Nat
        BY <3>1, TypeFacts, EntryForms DEF FlashInv, InUse
      <3>3. CASE Waiting
        BY <2>1, <3>1, <3>3 DEF Sound, PagesInv
      <3>4. CASE Setting /\ s = work.slot
        <4>1. tlb.slot[s].page = tlb.used - 1
          BY <2>1, <3>4 DEF Sound, FramInv
        <4> QED
          BY <3>1, <3>2, <4>1
      <3>5. CASE Setting /\ s # work.slot
        <4>1. tlb.slot[s].page < tlb.used - 1
          BY <2>1, <3>1, <3>5 DEF Sound, PagesInv
        <4> QED
          BY <3>1, <3>2, <4>1
      <3> QED
        BY <2>1, <3>3, <3>4, <3>5
    <2>7. ASSUME NEW s \in Slot
          PROVE  (InUse(s)' <=> InUse(s)) /\ RowAt(s)' = RowAt(s) /\ tlb'.slot[s] = tlb.slot[s]
      BY <1>1, <2>1, <2>2 DEF InUse, RowAt, Setting, Waiting, Idle
    <2>8. torn => torn'
      BY <1>1
    <2>9. Readable' = Readable /\ RowsOnce'
      BY <2>1, <2>7, <2>8, SameView DEF Sound
    <2> QED
      BY <1>3, <2>3, <2>4, <2>5, <2>6, <2>9 DEF FlashInv, Sound
  <1> QED
    BY <1>4, <1>5

--------------------------------------------------------------------------------
(* The steps of a rebuild.  No slot in use lies elsewhere, or the rebuild  *)
(* is a fault: every slot shows in the copy what it showed in flash.       *)
LEMMA RebuildStep ==
    ASSUME FlashInv, NEW read \in BOOLEAN, NEW erased \in BOOLEAN, Rebuild(read, erased)
    PROVE  FlashInv' /\ (~spoilt' => Readable' = Readable)
  <1>1. PICK copy : copy = [p \in Page |-> IF read /\ p < PerSection THEN flash[p] ELSE Garbage]
    OBVIOUS
  <1>2. /\ work = Idle /\ tlb' = [tlb EXCEPT !.used = 0]
        /\ work' = [Idle EXCEPT !.pc = "next", !.copy = copy]
        /\ flash' = IF erased THEN EraseSection ELSE flash
        /\ Fails(read /\ erased /\ \A s \in Slot : tlb.slot[s].page # Elsewhere)
        /\ UNCHANGED <<fram, puts, torn>>
    BY <1>1 DEF Rebuild
  <1>3. /\ tlb' = [slot |-> tlb.slot, used |-> 0] /\ tlb'.slot = tlb.slot /\ tlb'.used = 0
        /\ tlb' \in Tlbs
    BY <1>2, TypeFacts DEF FlashInv, Tlbs
  <1>4. /\ work' = [pc |-> "next", slot |-> 0, row |-> Erased, copy |-> copy]
        /\ work'.pc = "next" /\ work'.slot = 0 /\ work'.copy = copy
    BY <1>2 DEF Idle
  <1>5. Erased \in PageRow(puts) /\ Garbage \in PageRow(puts) /\ Garbage.id = -1 /\ Erased.id = 0
    BY TypeFacts, RowForms DEF FlashInv
  <1>6. /\ copy \in [Page -> PageRow(puts)]
        /\ \A p \in Page : read /\ p < PerSection => copy[p] = flash[p]
        /\ \A p \in Page : ~(p < PerSection) => copy[p] = Garbage
    BY <1>1, <1>5, TypeFacts DEF FlashInv
  <1>7. /\ EraseSection \in [Page -> PageRow(puts)] /\ EraseSection[Elsewhere] = flash[Elsewhere]
        /\ \A p \in Page : p < PerSection => EraseSection[p] = Erased
    BY <1>5, TypeFacts DEF FlashInv, EraseSection
  <1>8. ~Setting' /\ ~Moving' /\ Rebuilding' /\ ~Waiting'
    BY <1>4 DEF Setting, Moving, Rebuilding, Waiting
  <1>9. FlashType'
    <2>1. 0 \in 0 .. Slots /\ 0 <= 0
      BY TypeFacts DEF FlashInv
    <2>2. WorkType'
      <3>1. work' \in Works(puts)
        BY <1>4, <1>5, <1>6, <2>1 DEF Works
      <3> QED
        BY <1>2, <1>3, <1>4, <1>6, <1>8, <2>1, <3>1 DEF WorkType, Works
    <2>3. spoilt' \in BOOLEAN
      BY <1>2, Spoils DEF FlashInv
    <2>4. flash' \in [Page -> PageRow(puts)]
      BY <1>2, <1>7, TypeFacts DEF FlashInv
    <2> QED
      BY <1>2, <1>3, <2>2, <2>3, <2>4 DEF FlashType, FlashInv
  <1>10. CASE spoilt'
    BY <1>9, <1>10 DEF FlashInv
  <1>11. CASE ~spoilt'
    <2>1. ~spoilt /\ read /\ erased /\ (\A s \in Slot : tlb.slot[s].page # Elsewhere) /\ Sound
      BY <1>2, <1>11, Spoils DEF FlashInv
    <2>2. FramInv'
      BY <1>4, <1>8 DEF FramInv
    <2>3. flash' = EraseSection
      BY <1>2, <2>1
    <2>4. ErasedInv'
      BY <1>7, <1>8, <2>3 DEF ErasedInv
    <2>5. PagesInv'
      <3>1. \A s \in Slot : ~(s < 0)
        BY FlashAssumption DEF Slot
      <3> QED
        BY <1>4, <1>8, <3>1 DEF PagesInv
    <2>6. NumbersInv'
      <3>1. \A p \in Page : copy[p].id > 0 => copy[p].id # flash[Elsewhere].id
        BY <1>5, <1>6, <2>1 DEF Sound, NumbersInv
      <3> QED
        BY <1>4, <1>5, <1>7, <1>8, <2>3, <3>1 DEF NumbersInv
    <2>7. ASSUME NEW s \in Slot, InUse(s)
          PROVE  RowAt(s)' = RowAt(s)
      <3>1. tlb.slot[s].page \in Page /\ tlb.slot[s].page < PerSection
        BY <2>1, <2>7, TypeFacts, EntryForms DEF FlashInv, InUse
      <3>2. RowAt(s) = flash[tlb.slot[s].page]
        BY <1>2, <2>7 DEF RowAt, Idle, InUse
      <3>3. s >= 0
        BY FlashAssumption DEF Slot
      <3>4. RowAt(s)' = copy[tlb.slot[s].page]
        BY <1>3, <1>4, <2>7, <3>3 DEF RowAt, InUse
      <3> QED
        BY <1>6, <2>1, <3>1, <3>2, <3>4
    <2>8. \A s \in Slot : (InUse(s)' <=> InUse(s)) /\ tlb'.slot[s] = tlb.slot[s]
      BY <1>3 DEF InUse
    <2>9. Readable' = Readable /\ RowsOnce'
      BY <1>2, <2>1, <2>7, <2>8, SameView DEF Sound
    <2> QED
      BY <1>9, <2>2, <2>4, <2>5, <2>6, <2>9 DEF FlashInv, Sound
  <1> QED
    BY <1>10, <1>11

LEMMA RebuildCountStep ==
    ASSUME FlashInv, NEW ok \in BOOLEAN, RebuildCount(ok)
    PROVE  FlashInv' /\ Readable' = Readable
  <1>1. /\ work.pc = "nextCount" /\ work' = [work EXCEPT !.pc = "nextRow"]
        /\ DumpCount(ok) /\ Fails(ok)
        /\ UNCHANGED <<tlb, flash, puts, torn>>
    BY DEF RebuildCount
  <1>2. work' = [pc |-> "nextRow", slot |-> work.slot, row |-> work.row, copy |-> work.copy]
    BY <1>1, WorkFacts DEF FlashInv
  <1>3. fram' \in Tlbs
    BY <1>1, CountDumped DEF FlashInv
  <1>4. ~Setting /\ ~Setting' /\ Moving /\ Moving' /\ Rebuilding /\ Rebuilding' /\ ~Waiting /\ ~Waiting'
    BY <1>1, <1>2 DEF Setting, Moving, Rebuilding, Waiting
  <1>5. spoilt' \in BOOLEAN /\ (spoilt => spoilt') /\ (~spoilt' => ~spoilt)
    BY <1>1, Spoils DEF FlashInv
  <1>6. FlashType'
    <2>1. WorkType'
      BY <1>1, <1>2, <1>4 DEF WorkType, Works, FlashType, FlashInv, InUse
    <2> QED
      BY <1>1, <1>3, <1>5, <2>1 DEF FlashType, FlashInv
  <1>7. Sound => FramInv' /\ ErasedInv' /\ PagesInv' /\ NumbersInv'
    BY <1>1, <1>2, <1>4 DEF Sound, FramInv, ErasedInv, PagesInv, NumbersInv, InUse
  <1>8. ASSUME NEW s \in Slot
        PROVE  (InUse(s)' <=> InUse(s)) /\ RowAt(s)' = RowAt(s)
    BY <1>1, <1>2 DEF InUse, RowAt
  <1>9. Readable' = Readable /\ (RowsOnce => RowsOnce')
    BY <1>1, <1>5, <1>8, SameView
  <1> QED
    BY <1>5, <1>6, <1>7, <1>9 DEF FlashInv, Sound

(* The whole TLB is in FRAM and every slot shows its new page. *)
LEMMA RebuildDoneStep ==
    ASSUME FlashInv, NEW ok \in BOOLEAN, RebuildDone(ok)
    PROVE  FlashInv' /\ Readable' = Readable
  <1>1. /\ work.pc = "next" /\ work.slot = Slots /\ work' = [Idle EXCEPT !.pc = "put"]
        /\ fram' = (IF ok THEN tlb ELSE fram) /\ Fails(ok)
        /\ UNCHANGED <<tlb, flash, puts, torn>>
    BY DEF RebuildDone, DumpAll
  <1>2. /\ work' = [pc |-> "put", slot |-> 0, row |-> Erased, copy |-> <<>>]
        /\ ~Setting' /\ ~Moving' /\ ~Rebuilding' /\ Waiting' /\ work'.pc = "put" /\ Rebuilding /\ ~Moving
        /\ ~Setting /\ ~Waiting
    BY <1>1 DEF Setting, Moving, Rebuilding, Waiting, Idle
  <1>3. spoilt' \in BOOLEAN /\ (spoilt => spoilt') /\ (~spoilt' => ~spoilt /\ ok)
    BY <1>1, Spoils DEF FlashInv
  <1>4. FlashType'
    <2>1. Erased \in PageRow(puts) /\ 0 \in 0 .. Slots
      BY RowForms, TypeFacts DEF FlashInv
    <2>2. work' \in Works(puts)
      BY <1>2, <2>1 DEF Works
    <2>3. WorkType'
      BY <1>1, <1>2, <2>2 DEF WorkType
    <2>4. fram' \in Tlbs
      BY <1>1 DEF FlashInv, FlashType
    <2> QED
      BY <1>1, <1>3, <2>3, <2>4 DEF FlashType, FlashInv
  <1>5. \A s \in Slot : s < Slots /\ ~(s >= Slots)
    BY FlashAssumption DEF Slot
  <1>6. ~spoilt' => FramInv' /\ ErasedInv' /\ NumbersInv'
    BY <1>1, <1>2, <1>3 DEF FlashInv, Sound, FramInv, ErasedInv, NumbersInv
  <1>7. ~spoilt' => PagesInv'
    BY <1>1, <1>2, <1>3, <1>5 DEF FlashInv, Sound, PagesInv, InUse
  <1>8. ASSUME NEW s \in Slot
        PROVE  (InUse(s)' <=> InUse(s)) /\ RowAt(s)' = RowAt(s)
    BY <1>1, <1>2, <1>5 DEF InUse, RowAt
  <1>9. Readable' = Readable /\ (RowsOnce => RowsOnce')
    BY <1>1, <1>3, <1>8, SameView
  <1> QED
    BY <1>3, <1>4, <1>6, <1>7, <1>9 DEF FlashInv, Sound

(* A slot passed: its row is in RAM until it is written to the next page.  *)
LEMMA RebuildNextStep ==
    ASSUME FlashInv, NEW ok \in BOOLEAN, RebuildNext(ok)
    PROVE  FlashInv' /\ (~spoilt' => Readable' = Readable)
  <1>1. PICK w : w = work.slot
    OBVIOUS
  <1>2. /\ work.pc = "next" /\ w < Slots /\ UNCHANGED <<flash, puts, torn>>
        /\ tlb.used <= w /\ work.copy \in [Page -> PageRow(puts)] /\ w \in 0 .. Slots
    BY <1>1, WorkFacts DEF RebuildNext, FlashInv, FlashType, WorkType, Works, Rebuilding
  <1>3. w \in Slot /\ tlb.used < PerSection /\ tlb.used \in Nat /\ tlb.used \in Page
    BY <1>2, TypeFacts DEF Slot, FlashInv, Page
  <1>4. ~Setting /\ ~Moving /\ Rebuilding /\ ~Waiting
    BY <1>2 DEF Setting, Moving, Rebuilding, Waiting
  <1>5. \A s \in Slot : s \in Int
    BY FlashAssumption DEF Slot
  <1>6. CASE tlb.slot[w] = Free
    <2>1. work' = [work EXCEPT !.slot = w + 1] /\ UNCHANGED <<tlb, fram, spoilt>>
      BY <1>1, <1>6 DEF RebuildNext
    <2>2. work' = [pc |-> "next", slot |-> w + 1, row |-> work.row, copy |-> work.copy]
      BY <1>2, <2>1, WorkFacts DEF FlashInv
    <2>3. ~Setting' /\ ~Moving' /\ Rebuilding' /\ ~Waiting' /\ work'.pc = "next" /\ work'.slot = w + 1
          /\ work'.copy = work.copy
      BY <2>2 DEF Setting, Moving, Rebuilding, Waiting
    <2>4. FlashType'
      <3>1. w + 1 \in 0 .. Slots /\ tlb.used <= w + 1
        BY <1>2, <1>3, TypeFacts DEF FlashInv
      <3>2. work' \in Works(puts)
        BY <1>2, <2>2, <3>1, WorkFacts DEF FlashInv, Works
      <3>3. WorkType'
        BY <1>2, <2>1, <2>3, <3>1, <3>2 DEF WorkType, Works
      <3> QED
        BY <1>2, <2>1, <3>3 DEF FlashType, FlashInv
    <2>5. Sound => FramInv' /\ ErasedInv' /\ NumbersInv'
      BY <1>2, <1>4, <2>1, <2>3 DEF Sound, FramInv, ErasedInv, NumbersInv
    <2>6. Sound => PagesInv'
      <3>1. \A s \in Slot : s < w + 1 /\ InUse(s) => s < w
        BY <1>2, <1>5, <1>6 DEF InUse
      <3> QED
        BY <1>1, <1>2, <2>1, <2>3, <3>1 DEF Sound, PagesInv, InUse
    <2>7. ASSUME NEW s \in Slot, InUse(s)
          PROVE  RowAt(s)' = RowAt(s)
      <3>1. s >= w <=> s >= w + 1
        BY <1>2, <1>5, <1>6, <2>7 DEF InUse
      <3> QED
        BY <1>1, <1>2, <2>1, <2>3, <2>7, <3>1 DEF RowAt, InUse
    <2>8. Readable' = Readable /\ (RowsOnce => RowsOnce')
      BY <1>2, <2>1, <2>7, SameView DEF InUse
    <2> QED
      BY <2>1, <2>4, <2>5, <2>6, <2>8 DEF FlashInv, Sound
  <1>7. CASE tlb.slot[w] # Free
    <2>1. PICK e : e = tlb.slot[w]
      OBVIOUS
    <2>2. e.time \in Times /\ e.page \in Page /\ InUse(w)
      BY <1>3, <1>7, <2>1, TypeFacts, EntryForms DEF FlashInv, InUse
    <2>3. PICK r : r = work.copy[e.page]
      OBVIOUS
    <2>0. PICK pc \in {"nextCount", "nextRow"} : pc = IF ok THEN "nextCount" ELSE "nextRow"
      OBVIOUS
    <2>4. /\ tlb' = UpdateTlb(w, e.time, tlb.used) /\ DumpSlot(w, ok) /\ Fails(ok)
          /\ work' = [work EXCEPT !.pc = pc, !.row = r]
      BY <1>1, <1>7, <2>0, <2>1, <2>3 DEF RebuildNext
    <2>5. /\ tlb' \in Tlbs /\ tlb'.used = tlb.used + 1
          /\ tlb'.slot[w] = [time |-> e.time, page |-> tlb.used] /\ tlb'.slot[w] # Free
          /\ \A q \in Slot : q # w => tlb'.slot[q] = tlb.slot[q]
      BY <1>3, <2>2, <2>4, TlbForms DEF FlashInv
    <2>6. fram' \in Tlbs
      BY <1>3, <2>4, <2>5, Dumped DEF FlashInv
    <2>7. work' = [pc |-> pc, slot |-> w, row |-> r, copy |-> work.copy]
      BY <1>1, <2>4, WorkFacts DEF FlashInv
    <2>8. /\ ~Setting' /\ Moving' /\ Rebuilding' /\ ~Waiting' /\ work'.pc = pc /\ work'.slot = w
          /\ work'.copy = work.copy /\ work'.row = r
          /\ work'.pc \notin {"next", "reset", "setCount", "setRow", "idle", "put"}
      BY <2>7 DEF Setting, Moving, Rebuilding, Waiting
    <2>9. r \in PageRow(puts)
      BY <1>2, <2>2, <2>3
    <2>10. tlb'.slot[w].page = tlb.used /\ tlb'.slot[w].time = e.time /\ tlb'.used - 1 = tlb.used
      BY <1>3, <2>5
    <2>20. spoilt' \in BOOLEAN /\ (spoilt => spoilt') /\ (~spoilt' => ~spoilt)
      BY <2>4, Spoils DEF FlashInv
    <2>11. FlashType'
      <3>1. tlb'.used > 0 /\ tlb'.used <= w + 1
        BY <1>2, <1>3, <2>5
      <3>2. work' \in Works(puts)
        BY <1>2, <2>7, <2>9 DEF Works
      <3>3. WorkType'
        BY <1>2, <1>3, <2>5, <2>8, <2>10, <3>1, <3>2 DEF WorkType, Works, InUse
      <3> QED
        BY <1>2, <2>5, <2>6, <2>20, <3>3 DEF FlashType, FlashInv
    <2>12. FramInv'
      BY <2>8 DEF FramInv
    <2>13. Sound => ErasedInv'
      BY <1>2, <2>8, <2>10 DEF Sound, ErasedInv
    <2>14. Sound => PagesInv'
      <3>1. Sound => \A s \in Slot : s < w /\ InUse(s) => tlb.slot[s].page < tlb.used
        BY <1>1, <1>2 DEF Sound, PagesInv
      <3>2. \A s \in Slot : s < w => s # w
        BY <1>5
      <3> QED
        BY <2>5, <2>8, <2>10, <3>1, <3>2 DEF PagesInv, InUse
    <2>15. Sound => NumbersInv'
      BY <1>2, <1>4, <2>2, <2>3, <2>8 DEF Sound, NumbersInv
    <2>16. ASSUME NEW s \in Slot, InUse(s)
           PROVE  RowAt(s)' = RowAt(s)
      <3>1. CASE s = w
        <4>1. RowAt(s) = r
          BY <1>1, <1>2, <1>5, <2>1, <2>3, <2>16, <3>1 DEF RowAt, InUse
        <4> QED
          BY <2>8, <3>1, <4>1 DEF RowAt
      <3>2. CASE s # w
        BY <1>1, <1>2, <2>5, <2>8, <3>2 DEF RowAt
      <3> QED
        BY <3>1, <3>2
    <2>17. ASSUME NEW s \in Slot
           PROVE  InUse(s)' <=> InUse(s)
      BY <2>1, <2>2, <2>5, <2>10 DEF InUse
    <2>18. Readable' = Readable /\ (RowsOnce => RowsOnce')
      BY <1>2, <2>16, <2>17, <2>20, SameView
    <2> QED
      BY <2>11, <2>12, <2>13, <2>14, <2>15, <2>18, <2>20 DEF FlashInv, Sound
  <1> QED
    BY <1>6, <1>7

(* The page was erased: the slot shows in flash what it showed in RAM.     *)
LEMMA RebuildRowStep ==
    ASSUME FlashInv, NEW ok \in BOOLEAN, RebuildRow(ok)
    PROVE  FlashInv' /\ (~spoilt' => Readable' = Readable)
  <1>1. PICK w, p : w = work.slot /\ p = tlb.slot[work.slot].page
    OBVIOUS
  <1>2. /\ work.pc = "nextRow" /\ flash' = (IF ok THEN Written(p, work.row) ELSE flash) /\ Fails(ok)
        /\ work' = [work EXCEPT !.pc = "next", !.slot = w + 1]
        /\ UNCHANGED <<tlb, fram, puts, torn>>
    BY <1>1 DEF RebuildRow
  <1>3. ~Setting /\ Moving /\ Rebuilding /\ ~Waiting
    BY <1>2 DEF Setting, Moving, Rebuilding, Waiting
  <1>4. /\ w \in Slot /\ tlb.used > 0 /\ InUse(w) /\ p = tlb.used - 1 /\ p = tlb.slot[w].page
        /\ tlb.used <= w + 1 /\ work.copy \in [Page -> PageRow(puts)]
    BY <1>1, <1>3 DEF FlashInv, FlashType, WorkType, Works
  <1>5. p \in Page /\ p < PerSection /\ w \in Nat /\ w + 1 \in 0 .. Slots
    BY SMTT(60), <1>4, TypeFacts DEF FlashInv, Slot, Page
  <1>6. work' = [pc |-> "next", slot |-> w + 1, row |-> work.row, copy |-> work.copy]
    BY <1>2, WorkFacts DEF FlashInv
  <1>7. /\ ~Setting' /\ ~Moving' /\ Rebuilding' /\ ~Waiting' /\ work'.pc = "next" /\ work'.slot = w + 1
        /\ work'.copy = work.copy /\ work'.row = work.row
    BY <1>6 DEF Setting, Moving, Rebuilding, Waiting
  <1>8. /\ flash' \in [Page -> PageRow(puts)]
        /\ \A q \in Page : q # p => flash'[q] = flash[q]
        /\ ok => flash'[p] \in {work.row, Garbage}
        /\ ok /\ flash[p] = Erased => flash'[p] = work.row
    <2>1. Garbage \in PageRow(puts) /\ work.row \in PageRow(puts)
      BY TypeFacts, WorkFacts, RowForms DEF FlashInv
    <2> QED
      BY <1>2, <1>5, <2>1, TypeFacts DEF Written, FlashInv
  <1>20. spoilt' \in BOOLEAN /\ (spoilt => spoilt') /\ (~spoilt' => ~spoilt /\ ok)
    BY <1>2, Spoils DEF FlashInv
  <1>9. FlashType'
    <2>1. work' \in Works(puts)
      BY <1>4, <1>5, <1>6, WorkFacts DEF FlashInv, Works
    <2>2. WorkType'
      BY <1>2, <1>4, <1>7, <2>1 DEF WorkType, Works
    <2> QED
      BY <1>2, <1>8, <1>20, <2>2 DEF FlashType, FlashInv
  <1>10. CASE spoilt'
    BY <1>9, <1>10 DEF FlashInv
  <1>11. CASE ~spoilt'
    <2>0. ok /\ Sound
      BY <1>11, <1>20 DEF FlashInv
    <2>1. FramInv'
      BY <1>7 DEF FramInv
    <2>2. ErasedInv'
      <3>1. \A q \in Page : tlb.used <= q => q # p /\ tlb.used - 1 <= q
        BY <1>4, TypeFacts DEF FlashInv, Page
      <3>2. \A q \in Page : tlb.used - 1 <= q /\ q < PerSection => flash[q] = Erased
        BY <1>3, <2>0 DEF Sound, ErasedInv
      <3> QED
        BY <1>2, <1>7, <1>8, <3>1, <3>2 DEF ErasedInv
    <2>3. ASSUME NEW s \in Slot, InUse(s), s < w
          PROVE  tlb.slot[s].page \in Page /\ tlb.slot[s].page # p /\ tlb.slot[s].page < tlb.used
      <3>1. tlb.slot[s].page < tlb.used - 1
        BY <1>1, <1>3, <2>0, <2>3 DEF Sound, PagesInv
      <3>2. tlb.slot[s].page \in Page /\ tlb.slot[s].page \in Nat /\ tlb.used \in Nat
        BY <2>3, TypeFacts, EntryForms DEF FlashInv, InUse
      <3> QED
        BY <1>4, <3>1, <3>2
    <2>4. PagesInv'
      <3> SUFFICES ASSUME NEW s \in Slot, s < w + 1, InUse(s)
                   PROVE  tlb.slot[s].page < tlb.used
        BY <1>2, <1>7 DEF PagesInv, InUse
      <3>1. s < w \/ s = w
        BY <1>4 DEF Slot
      <3>2. tlb.used - 1 < tlb.used
        BY TypeFacts DEF FlashInv
      <3> QED
        BY <1>4, <2>3, <3>1, <3>2
    <2>5. NumbersInv'
      <3>1. Garbage.id = -1 /\ Elsewhere \in Page /\ Elsewhere # p
        BY <1>5, TypeFacts DEF Garbage, FlashInv
      <3>2. flash'[Elsewhere] = flash[Elsewhere]
        BY <1>8, <3>1
      <3>3. work.row.id > 0 => work.row.id # flash[Elsewhere].id
        BY <1>3, <2>0 DEF Sound, NumbersInv
      <3>4. \A q \in Page : q < PerSection /\ flash'[q].id > 0 => flash'[q].id # flash'[Elsewhere].id
        BY <1>8, <2>0, <3>1, <3>2, <3>3 DEF Sound, NumbersInv
      <3> QED
        BY <1>3, <1>7, <2>0, <3>2, <3>4, <1>2 DEF Sound, NumbersInv
    <2>6. flash[p] = Erased /\ flash'[p] = work.row
      BY <1>3, <1>4, <1>5, <1>8, <2>0, TypeFacts DEF FlashInv, Sound, ErasedInv
    <2>7. ASSUME NEW s \in Slot, InUse(s)
          PROVE  RowAt(s)' = RowAt(s)
      <3>1. s \in Int /\ w \in Int
        BY <1>4, FlashAssumption DEF Slot
      <3>2. CASE s = w
        <4>1. RowAt(s) = work.row
          BY <1>1, <1>2, <3>2 DEF RowAt
        <4>2. ~(s >= w + 1)
          BY <3>1, <3>2
        <4>3. RowAt(s)' = flash'[p]
          BY <1>2, <1>4, <1>7, <2>7, <3>2, <4>2 DEF RowAt, InUse
        <4> QED
          BY <2>6, <4>1, <4>3
      <3>3. CASE s < w
        <4>1. s # w /\ ~(s >= w) /\ ~(s >= w + 1)
          BY <3>1, <3>3
        <4>2. RowAt(s) = flash[tlb.slot[s].page]
          BY <1>1, <1>2, <2>7, <4>1 DEF RowAt, InUse
        <4>3. RowAt(s)' = flash'[tlb.slot[s].page]
          BY <1>2, <1>7, <2>7, <4>1 DEF RowAt, InUse
        <4> QED
          BY <1>8, <2>3, <2>7, <3>3, <4>2, <4>3
      <3>4. CASE s > w
        <4>1. s # w /\ s >= w /\ s >= w + 1
          BY <3>1, <3>4
        <4> QED
          BY <1>1, <1>2, <1>7, <2>7, <4>1 DEF RowAt, InUse
      <3> QED
        BY <3>1, <3>2, <3>3, <3>4
    <2>8. Readable' = Readable /\ RowsOnce'
      BY <1>2, <1>20, <2>0, <2>7, SameView DEF Sound, InUse
    <2> QED
      BY <1>9, <2>1, <2>2, <2>4, <2>5, <2>8 DEF FlashInv, Sound
  <1> QED
    BY <1>10, <1>11

--------------------------------------------------------------------------------
(* A slot cleared takes its row with it, unless another slot shows it.     *)
LEMMA DeleteStep ==
    ASSUME FlashInv, NEW s \in Slot, NEW ok \in BOOLEAN, DeleteIdx(s, ok)
    PROVE  /\ FlashInv'
           /\ ~spoilt' => \/ Readable' = Readable \ {RowAt(s)}
                          \/ torn /\ Readable' = Readable
  <1>1. /\ work = Idle /\ tlb' = [tlb EXCEPT !.slot[s] = Free] /\ DumpSlot(s, ok) /\ Fails(ok)
        /\ UNCHANGED <<flash, work, puts, torn>>
    BY DEF DeleteIdx
  <1>2. /\ tlb' = [slot |-> [tlb.slot EXCEPT ![s] = Free], used |-> tlb.used]
        /\ tlb'.used = tlb.used /\ tlb'.slot[s] = Free /\ tlb' \in Tlbs
        /\ \A q \in Slot : q # s => tlb'.slot[q] = tlb.slot[q]
    <2>1. tlb' = [slot |-> [tlb.slot EXCEPT ![s] = Free], used |-> tlb.used]
      BY <1>1, TypeFacts DEF FlashInv
    <2> QED
      BY <2>1, EntryForms, TypeFacts DEF FlashInv, Tlbs
  <1>3. /\ ok => fram' = [slot |-> [fram.slot EXCEPT ![s] = tlb'.slot[s]], used |-> fram.used]
        /\ fram' \in Tlbs
    BY <1>1, <1>2, Dumped DEF FlashInv
  <1>4. ~Setting /\ ~Moving /\ ~Rebuilding /\ ~Setting' /\ ~Moving' /\ ~Rebuilding'
        /\ work.pc = "idle" /\ work'.pc = "idle" /\ Waiting /\ Waiting'
    BY <1>1 DEF Setting, Moving, Rebuilding, Waiting, Idle
  <1>5. spoilt' \in BOOLEAN /\ (spoilt => spoilt') /\ (~spoilt' => ~spoilt /\ ok)
    BY <1>1, Spoils DEF FlashInv
  <1>6. FlashType'
    <2>1. WorkType'
      BY <1>1, <1>4 DEF WorkType, Works, FlashType, FlashInv
    <2> QED
      BY <1>1, <1>2, <1>3, <1>5, <2>1 DEF FlashType, FlashInv
  <1>7. CASE spoilt'
    BY <1>6, <1>7 DEF FlashInv
  <1>8. CASE ~spoilt'
    <2>0. ~spoilt /\ ok /\ Sound
      BY <1>5, <1>8 DEF FlashInv
    <2>1. FramInv'
      <3>1. fram = tlb
        BY <1>4, <2>0 DEF Sound, FramInv
      <3> QED
        BY <1>2, <1>3, <1>4, <2>0, <3>1 DEF FramInv
    <2>2. ErasedInv' /\ NumbersInv'
      BY <1>1, <1>2, <1>4, <2>0 DEF Sound, ErasedInv, NumbersInv
    <2>3. PagesInv'
      BY <1>1, <1>2, <1>4, <2>0 DEF Sound, PagesInv, InUse
    <2>4. \A q \in Slot : q # s => RowAt(q)' = RowAt(q)
      BY <1>1, <1>2 DEF RowAt, Idle
    <2>5. RowsOnce'
      BY <1>1, <1>2, <2>0, <2>4 DEF RowsOnce, Sound
    <2>6. ASSUME NEW x
          PROVE  x \in Readable' <=> \E q \in Slot : q # s /\ InUse(q) /\ x = RowAt(q) /\ RowAt(q).id > 0
      BY <1>2, <2>4 DEF Readable, Shown, InUse
    <2>7. ASSUME NEW x
          PROVE  x \in Readable <=> \E q \in Slot : InUse(q) /\ x = RowAt(q) /\ RowAt(q).id > 0
      BY DEF Readable, Shown, InUse
    <2>8. CASE \E q \in Slot : q # s /\ InUse(q) /\ RowAt(s) = RowAt(q) /\ RowAt(q).id > 0
      <3>1. Readable' = Readable
        BY <2>6, <2>7, <2>8
      <3>2. PICK q \in Slot : q # s /\ InUse(q) /\ RowAt(s) = RowAt(q) /\ RowAt(q).id > 0
        BY <2>8
      <3>3. InUse(s)
        <4>1. ~InUse(s) => RowAt(s) = Erased
          BY <1>1 DEF RowAt, Idle, InUse
        <4> QED
          BY <3>2, <4>1 DEF Erased
      <3>4. torn
        BY <2>0, <3>2, <3>3 DEF Sound, RowsOnce, InUse
      <3> QED
        BY <1>6, <2>1, <2>2, <2>3, <2>5, <3>1, <3>4 DEF FlashInv, Sound
    <2>9. CASE ~ \E q \in Slot : q # s /\ InUse(q) /\ RowAt(s) = RowAt(q) /\ RowAt(q).id > 0
      <3>1. Readable' = Readable \ {RowAt(s)}
        BY <2>6, <2>7, <2>9
      <3> QED
        BY <1>6, <2>1, <2>2, <2>3, <2>5, <3>1 DEF FlashInv, Sound
    <2> QED
      BY <2>8, <2>9
  <1> QED
    BY <1>7, <1>8

(* Erasing the section takes the rows in it, and none elsewhere.           *)
LEMMA ResetEraseStep ==
    ASSUME FlashInv, NEW ok \in BOOLEAN, ResetErase(ok)
    PROVE  /\ FlashInv'
           /\ ~spoilt' => Readable' = Readable \ {RowAt(s) : s \in {q \in Slot : tlb.slot[q].page < PerSection}}
  <1>1. /\ work = Idle /\ work' = [Idle EXCEPT !.pc = "reset"]
        /\ flash' = (IF ok THEN EraseSection ELSE flash) /\ Fails(ok)
        /\ UNCHANGED <<tlb, fram, puts, torn>>
    BY DEF ResetErase
  <1>2. /\ work' = [pc |-> "reset", slot |-> 0, row |-> Erased, copy |-> <<>>] /\ work'.pc = "reset"
        /\ work.pc = "idle"
    BY <1>1 DEF Idle
  <1>3. ~Setting' /\ ~Moving' /\ ~Rebuilding' /\ ~Waiting'
    BY <1>2 DEF Setting, Moving, Rebuilding, Waiting
  <1>4. Erased \in PageRow(puts) /\ 0 \in 0 .. Slots
    BY TypeFacts, RowForms DEF FlashInv
  <1>5. /\ EraseSection \in [Page -> PageRow(puts)] /\ EraseSection[Elsewhere] = flash[Elsewhere]
        /\ \A p \in Page : p < PerSection => EraseSection[p] = Erased
        /\ \A p \in Page : p < PerSection \/ p = Elsewhere
        /\ Elsewhere = PerSection /\ ~(PerSection < PerSection)
    BY <1>1, <1>4, TypeFacts DEF FlashInv, EraseSection
  <1>6. spoilt' \in BOOLEAN /\ (spoilt => spoilt') /\ (~spoilt' => ~spoilt /\ ok)
    BY <1>1, Spoils DEF FlashInv
  <1>7. FlashType'
    <2>1. WorkType'
      <3>1. work' \in Works(puts)
        BY <1>2, <1>4 DEF Works
      <3> QED
        BY <1>1, <1>2, <1>3, <3>1 DEF WorkType, Works
    <2>2. flash' \in [Page -> PageRow(puts)]
      BY <1>1, <1>5, TypeFacts DEF FlashInv
    <2> QED
      BY <1>1, <1>6, <2>1, <2>2 DEF FlashType, FlashInv
  <1>8. CASE spoilt'
    BY <1>7, <1>8 DEF FlashInv
  <1>9. CASE ~spoilt'
    <2>0. ~spoilt /\ Sound /\ flash' = EraseSection
      BY <1>1, <1>6, <1>9 DEF FlashInv
    <2>1. Erased.id = 0
      BY DEF Erased
    <2>2. FramInv' /\ ErasedInv' /\ PagesInv' /\ NumbersInv'
      BY <1>2, <1>3, <1>5, <2>0, <2>1 DEF FramInv, ErasedInv, PagesInv, NumbersInv
    <2>3. ASSUME NEW s \in Slot
          PROVE  RowAt(s) = (IF InUse(s) THEN flash[tlb.slot[s].page] ELSE Erased)
      BY <1>2 DEF RowAt, InUse
    <2>4. ASSUME NEW s \in Slot
          PROVE  RowAt(s)' = (IF InUse(s) THEN flash'[tlb.slot[s].page] ELSE Erased)
      BY <1>1, <1>2 DEF RowAt, InUse
    <2>5. \A s \in Slot : InUse(s) => tlb.slot[s].page \in Page
      BY TypeFacts, EntryForms DEF FlashInv, InUse
    <2>6. ASSUME NEW s \in Slot, InUse(s)
          PROVE  RowAt(s)' = IF tlb.slot[s].page < PerSection THEN Erased ELSE RowAt(s)
      BY <1>5, <2>0, <2>3, <2>4, <2>5, <2>6
    <2>7. RowsOnce'
      <3> SUFFICES ASSUME ~torn, NEW a \in Slot, NEW b \in Slot, a # b, InUse(a), InUse(b), RowAt(a)'.id > 0
                   PROVE  RowAt(a)'.id # RowAt(b)'.id
        BY <1>1 DEF RowsOnce, InUse
      <3>1. RowAt(a)' = RowAt(a)
        BY <2>1, <2>6
      <3>2. RowAt(a).id # RowAt(b).id
        BY <2>0, <3>1 DEF RowsOnce, Sound, InUse
      <3> QED
        BY <2>1, <2>6, <3>1, <3>2
    <2>8. ASSUME NEW x
          PROVE  x \in Readable' <=> \E s \in Slot : InUse(s) /\ x = RowAt(s)' /\ RowAt(s)'.id > 0
      BY <1>1 DEF Readable, Shown, InUse
    <2>9. ASSUME NEW x
          PROVE  x \in Readable <=> \E s \in Slot : InUse(s) /\ x = RowAt(s) /\ RowAt(s).id > 0
      BY DEF Readable, Shown, InUse
    <2> DEFINE Gone == {RowAt(s) : s \in {q \in Slot : tlb.slot[q].page < PerSection}}
    <2>10. ASSUME NEW x \in Readable'
           PROVE  x \in Readable \ Gone
      <3>1. PICK s \in Slot : InUse(s) /\ x = RowAt(s)' /\ RowAt(s)'.id > 0
        BY <2>8, <2>10
      <3>2. ~(tlb.slot[s].page < PerSection)
        BY <2>1, <2>6, <3>1
      <3>3. x = RowAt(s) /\ tlb.slot[s].page = Elsewhere
        BY <1>5, <2>5, <2>6, <3>1, <3>2
      <3>4. x \in Readable /\ x = flash[Elsewhere]
        BY <2>3, <2>9, <3>1, <3>3
      <3>5. x.id > 0 /\ x.id \in Nat
        BY <3>4, ReadableType, TypeFacts DEF FlashInv
      <3>6. ASSUME NEW q \in Slot, tlb.slot[q].page < PerSection
            PROVE  x # RowAt(q)
        <4>1. CASE ~InUse(q)
          BY <2>1, <2>3, <3>5, <4>1
        <4>2. CASE InUse(q)
          <5>1. RowAt(q) = flash[tlb.slot[q].page] /\ tlb.slot[q].page \in Page
            BY <2>3, <2>5, <4>2
          <5>2. flash[tlb.slot[q].page].id > 0 => flash[tlb.slot[q].page].id # flash[Elsewhere].id
            BY <2>0, <3>6, <5>1 DEF Sound, NumbersInv
          <5> QED
            BY <3>4, <3>5, <5>1, <5>2
        <4> QED
          BY <4>1, <4>2
      <3> QED
        BY <3>4, <3>6
    <2>11. ASSUME NEW x \in Readable \ Gone
           PROVE  x \in Readable'
      <3>1. PICK s \in Slot : InUse(s) /\ x = RowAt(s) /\ RowAt(s).id > 0
        BY <2>9, <2>11
      <3>2. ~(tlb.slot[s].page < PerSection)
        BY <2>11, <3>1
      <3> QED
        BY <2>6, <2>8, <3>1, <3>2
    <2> QED
      BY <1>7, <2>2, <2>7, <2>10, <2>11 DEF FlashInv, Sound
  <1> QED
    BY <1>8, <1>9

LEMMA ResetTlbStep ==
    ASSUME FlashInv, NEW ok \in BOOLEAN, ResetTlb(ok)
    PROVE  FlashInv' /\ Readable' = {}
  <1>1. /\ tlb' = NoRows /\ fram' = (IF ok THEN NoRows ELSE fram) /\ work' = Idle /\ work.pc = "reset"
        /\ Fails(ok)
        /\ UNCHANGED <<flash, puts, torn>>
    BY DEF ResetTlb, DumpAll
  <1>2. ~Setting' /\ ~Moving' /\ ~Rebuilding' /\ Waiting' /\ work'.pc = "idle"
    BY <1>1 DEF Setting, Moving, Rebuilding, Waiting, Idle
  <1>3. spoilt' \in BOOLEAN /\ (spoilt => spoilt') /\ (~spoilt' => ~spoilt /\ ok)
    BY <1>1, Spoils DEF FlashInv
  <1>4. FlashType'
    <2>1. WorkType'
      BY <1>1, <1>2, RowForms, TypeFacts DEF WorkType, Works, FlashInv, Idle
    <2>2. NoRows \in Tlbs
      BY FlashAssumption, EntryForms DEF NoRows, Tlbs
    <2> QED
      BY <1>1, <1>3, <2>1, <2>2 DEF FlashType, FlashInv
  <1>5. \A s \in Slot : tlb'.slot[s] = Free
    BY <1>1 DEF NoRows
  <1>6. ~spoilt' => ErasedInv'
    BY <1>1, <1>2, <1>3 DEF FlashInv, Sound, ErasedInv
  <1>7. ~spoilt' => FramInv' /\ NumbersInv'
    BY <1>1, <1>2, <1>3 DEF FlashInv, Sound, FramInv, NumbersInv
  <1>8. RowsOnce' /\ PagesInv' /\ Readable' = {}
    BY <1>2, <1>5 DEF RowsOnce, PagesInv, InUse, Readable, Shown
  <1> QED
    BY <1>4, <1>6, <1>7, <1>8 DEF FlashInv, Sound

--------------------------------------------------------------------------------
LEMMA FlashInvInit == FlashInit => FlashInv
  <1> SUFFICES ASSUME FlashInit
               PROVE  FlashInv
    OBVIOUS
  <1>1. work.pc = "idle" /\ Waiting /\ ~Setting /\ ~Moving /\ ~Rebuilding
    BY DEF FlashInit, Idle, Setting, Moving, Rebuilding, Waiting
  <1>2. \A s \in Slot : tlb.slot[s] = Free
    BY DEF FlashInit, NoRows
  <1>3. \A p \in Page : p < PerSection => flash[p] = Erased /\ ~(flash[p].id > 0)
    BY FlashAssumption DEF FlashInit, Erased, Elsewhere
  <1>4. FramInv /\ ErasedInv /\ NumbersInv
    BY <1>1, <1>3 DEF FlashInit, FramInv, ErasedInv, NumbersInv
  <1>5. PagesInv /\ RowsOnce
    BY <1>1, <1>2 DEF PagesInv, RowsOnce, InUse
  <1> QED
    BY <1>4, <1>5, FlashTypeInit DEF FlashInv, Sound

LEMMA FlashStutter ==
    ASSUME FlashInv, UNCHANGED flashVars
    PROVE  FlashInv' /\ Readable' = Readable
  <1>1. UNCHANGED <<tlb, fram, flash, work, puts, spoilt, torn>>
    BY DEF flashVars
  <1>2. FlashType'
    BY <1>1 DEF FlashInv, FlashType, WorkType, Works, Setting, Moving, Rebuilding, InUse
  <1>3. Sound => FramInv' /\ ErasedInv' /\ NumbersInv' /\ PagesInv'
    BY <1>1 DEF Sound, FramInv, ErasedInv, NumbersInv, PagesInv, Setting, Moving, Rebuilding, Waiting, InUse
  <1>4. \A s \in Slot : RowAt(s)' = RowAt(s)
    BY <1>1 DEF RowAt
  <1>5. (RowsOnce => RowsOnce') /\ Readable' = Readable
    BY <1>1, <1>4, SameView DEF InUse
  <1> QED
    BY <1>1, <1>2, <1>3, <1>5 DEF FlashInv, Sound

(* What a step does to the rows that can be read. *)
LEMMA FlashStep ==
    ASSUME FlashInv, [FlashNext]_flashVars
    PROVE  /\ FlashInv'
           /\ \/ spoilt'
              \/ Readable' = Readable
              \/ Readable' = Readable \ doomed'
              \/ \E r \in [time : Times, id : 1 .. MaxPuts] : doomed' = {} /\ Readable' = Readable \cup {r}
  <1>1. ASSUME NEW ok \in BOOLEAN, NEW t \in Times, DeleteRow(t, ok), doomed' = {RowAt(FindIndex(t))}
        PROVE  FlashInv' /\ (spoilt' \/ Readable' = Readable \/ Readable' = Readable \ doomed')
    <2>1. PICK s \in Slot : s = FindIndex(t)
      BY <1>1, SlotFound DEF DeleteRow
    <2> QED
      BY <1>1, <2>1, DeleteStep DEF DeleteRow
  <1>2. ASSUME NEW ok \in BOOLEAN, NEW s \in Slot, DeleteIdx(s, ok), doomed' = {RowAt(s)}
        PROVE  FlashInv' /\ (spoilt' \/ Readable' = Readable \/ Readable' = Readable \ doomed')
    BY <1>2, DeleteStep
  <1>3. ASSUME NEW ok \in BOOLEAN, ResetErase(ok),
               doomed' = {RowAt(s) : s \in {q \in Slot : tlb.slot[q].page < PerSection}}
        PROVE  FlashInv' /\ (spoilt' \/ Readable' = Readable \ doomed')
    BY <1>3, ResetEraseStep
  <1>4. ASSUME NEW ok \in BOOLEAN, ResetTlb(ok), doomed' = Readable
        PROVE  FlashInv' /\ Readable' = Readable \ doomed'
    BY <1>4, ResetTlbStep
  <1>5. ASSUME NEW ok \in BOOLEAN, SetRow(ok), doomed' = {}
        PROVE  /\ FlashInv'
               /\ \/ spoilt' \/ Readable' = Readable
                  \/ \E r \in [time : Times, id : 1 .. MaxPuts] : doomed' = {} /\ Readable' = Readable \cup {r}
    BY <1>5, SetRowStep
  <1>6. ASSUME \/ \E ok \in BOOLEAN :
                      \/ \E t \in Times, p \in Page : SetSlot(t, p, ok)
                      \/ \E erased \in BOOLEAN : Rebuild(ok, erased)
                      \/ SetCount(ok) \/ RebuildNext(ok) \/ RebuildCount(ok) \/ RebuildRow(ok) \/ RebuildDone(ok)
               \/ SetNoSlot \/ Restart \/ UNCHANGED flashVars
        PROVE  FlashInv' /\ (spoilt' \/ Readable' = Readable)
    BY <1>6, SetSlotStep, SetNoSlotStep, SetCountStep, RebuildStep, RebuildNextStep, RebuildCountStep,
       RebuildRowStep, RebuildDoneStep, RestartStep, FlashStutter
  <1> QED
    BY <1>1, <1>2, <1>3, <1>4, <1>5, <1>6, FlashCases

LEMMA FlashInvariant == FlashSpec => []FlashInv
  <1>1. FlashInv /\ [FlashNext]_flashVars => FlashInv'
    BY FlashStep
  <1> QED
    BY <1>1, FlashInvInit, PTL DEF FlashSpec

(* storage_flash.c:393-699: however many slots and pages there are, and    *)
(* wherever restarts fall, two slots of the flight plan never show one     *)
(* row, unless a restart fell between the slot and the count in FRAM, an   *)
(* access failed, a rebuild or reset was cut short, or a row was put       *)
(* outside the section.                                                    *)
THEOREM RowsOnceCorrect == FlashSpec => []RowsOnce
  <1>1. FlashInv => RowsOnce
    BY DEF FlashInv, Sound, RowsOnce
  <1> QED
    BY <1>1, FlashInvariant, PTL

(* storage_flash.c:393-699: until one of those faults the flight plan in   *)
(* flash implements the table repoData.c expects, through deletes,         *)
(* rebuilds of the section, resets and restarts.                           *)
THEOREM FlashImplements == FlashSpec => FlashIsTable
  <1>1. FlashInit => Readable = {} /\ spoilt = FALSE
    BY DEF FlashInit, NoRows, Readable, Shown
  <1>2. FlashInv /\ [FlashNext]_flashVars =>
            [(\E r \in [time : Times, id : 1 .. MaxPuts] \ Readable : Table!Put(r))
                 \/ Table!Drop \/ Table!Fault]_Readable
    <2> SUFFICES ASSUME FlashInv, [FlashNext]_flashVars, Readable' # Readable
                 PROVE  \/ \E r \in [time : Times, id : 1 .. MaxPuts] \ Readable : Table!Put(r)
                        \/ Table!Drop \/ Table!Fault
      OBVIOUS
    <2>1. FlashInv'
      BY FlashStep
    <2>2. CASE spoilt'
      <3>1. puts' \in 0 .. MaxPuts /\ spoilt' = TRUE
        BY <2>1, <2>2 DEF FlashInv, FlashType
      <3>2. Readable' \subseteq [time : Times, id : 1 .. puts']
        <4>1. (FlashType => Readable \subseteq [time : Times, id : 1 .. puts])'
          BY ReadableType, PTL
        <4> QED
          BY <2>1, <4>1 DEF FlashInv
      <3>3. Readable' \subseteq [time : Times, id : 1 .. MaxPuts]
        BY <3>1, <3>2, FlashAssumption
      <3> QED
        BY <3>1, <3>3 DEF Table!Fault
    <2>3. CASE Readable' = Readable \ doomed'
      BY <2>3 DEF Table!Drop
    <2>4. CASE \E r \in [time : Times, id : 1 .. MaxPuts] : doomed' = {} /\ Readable' = Readable \cup {r}
      <3>1. PICK r \in [time : Times, id : 1 .. MaxPuts] : doomed' = {} /\ Readable' = Readable \cup {r}
        BY <2>4
      <3>2. r \notin Readable /\ Table!Put(r)
        BY <3>1 DEF Table!Put
      <3> QED
        BY <3>2
    <2> QED
      BY <2>2, <2>3, <2>4, FlashStep
  <1> QED
    BY <1>1, <1>2, FlashInvariant, PTL DEF FlashSpec, FlashIsTable, Table!TableSpec

--------------------------------------------------------------------------------
(* Payload *)

(* The bytes of the sections of a payload, and the payload an address      *)
(* belongs to.                                                             *)
Room == Sections * SectionSize
Zone(a) == IF build = "sqlite" THEN a % Payloads ELSE a \div Room
CellSize(p) == IF build = "sqlite" THEN 1 ELSE SampleSize[p]

(* The sample has a place, and the place is one of its payload.            *)
Own(p, i) == Address(p, i) # -1 /\ Zone(Address(p, i)) = p

PayloadPcs == {"ready", "add", "index", "zeroIndex", "zeroAck", "resetIndex", "resetAck", "erase"}
PayloadOps == [pc : PayloadPcs, p : P, left : Nat]

PayloadType ==
    /\ build \in {"ram", "flash", "sqlite"}
    /\ mem \subseteq [at : Nat, size : Nat, v : Nat]
    /\ idx \in [P -> Nat] /\ ack \in [P -> Nat]
    /\ op \in PayloadOps
    /\ op.pc = "ready" => op = Ready
    /\ taken \in Nat /\ good \in [P -> Seq(Nat)]
    /\ \A p \in P : Len(good[p]) = idx[p]
    /\ doubt \subseteq P \X Int /\ over \in BOOLEAN

(* How far a command has come: samples are left to add, the indices so far *)
(* are zero.                                                               *)
Counts ==
    /\ op.pc \in {"add", "index"} => op.left >= 1
    /\ op.pc = "resetIndex" => \A q \in P : q < op.p => idx[q] = 0
    /\ op.pc \in {"resetAck", "erase"} => \A q \in P : idx[q] = 0

(* A cell of the memory holds a sample under an index, one in doubt, or    *)
(* the one being added; flash keeps what is beyond all sections.           *)
Live(q, j) ==
    \/ j < idx[q] \/ <<q, j>> \in doubt
    \/ op.pc = "index" /\ op.p = q /\ j = idx[q]
Home(c, q, j) == c.at = Address(q, j) /\ c.size = CellSize(q) /\ Own(q, j) /\ Live(q, j)
Outside(c) == build = "flash" /\ c.at >= Limit
CellsHome == ~over => \A c \in mem : Outside(c) \/ \E q \in P, j \in Nat : Home(c, q, j)

(* One cell holds the sample under its index, and the one being added.     *)
HeldGood(p, i) == Own(p, i) /\ \E c \in mem : c.v = good[p][i + 1] /\ Found(p, i) = {c}
HeldNew(p, i) == Own(p, i) /\ \E c \in mem : c.v = taken /\ Found(p, i) = {c}
GoodHeld == ~over => \A p \in P : \A i \in 0 .. idx[p] - 1 :
    <<p, i>> \in doubt \/ HeldGood(p, i)
NewHeld == ~over /\ op.pc = "index" => \A i \in Nat : i = idx[op.p] =>
    <<op.p, i>> \in doubt \/ HeldNew(op.p, i)
Emptied == op.pc = "zeroIndex" => \A c \in mem : Zone(c.at) # op.p

PayloadInv ==
    PayloadType /\ Counts /\ CellsHome /\ GoodHeld /\ NewHeld /\ Emptied /\ SentInOrder /\ AckBehind

--------------------------------------------------------------------------------
(* Where samples go *)

LEMMA Divided ==
    ASSUME NEW a \in Nat, NEW b \in Nat \ {0}
    PROVE  /\ a \div b \in Nat /\ a % b \in Nat /\ a % b < b
           /\ a = b * (a \div b) + (a % b)
  <1>1. a % b \in Nat /\ a % b < b
    OBVIOUS
  <1>2. a = b * (a \div b) + (a % b)
    OBVIOUS
  <1>3. a \div b \in Int
    OBVIOUS
  <1>4. a \div b >= 0
    <2>1. PICK d \in Int, x \in Nat : d = a \div b /\ x < b /\ a = b * d + x
      BY <1>1, <1>2, <1>3
    <2>2. ASSUME d <= -1 PROVE FALSE
      <3>1. PICK y \in Nat : d = -1 - y
        BY <2>1, <2>2
      <3>2. b * d = -b - b * y /\ b * y >= 0
        BY <3>1
      <3> QED BY <2>1, <3>2
    <2> QED BY <2>1, <2>2
  <1> QED BY <1>1, <1>2, <1>3, <1>4

LEMMA Quotient ==
    ASSUME NEW a \in Nat, NEW b \in Nat \ {0}, NEW q \in Nat
    PROVE  a \div b = q <=> (q * b <= a /\ a < q * b + b)
  <1>1. PICK d \in Nat, x \in Nat : d = a \div b /\ a = b * d + x /\ x < b
    BY Divided
  <1>2. ASSUME d < q PROVE ~(q * b <= a)
    <2>1. PICK y \in Nat \ {0} : q = d + y
      BY <1>2
    <2>2. q * b = d * b + y * b /\ y * b >= b
      BY <2>1
    <2> QED BY <1>1, <2>2
  <1>3. ASSUME q < d PROVE ~(a < q * b + b)
    <2>1. PICK y \in Nat \ {0} : d = q + y
      BY <1>3
    <2>2. d * b = q * b + y * b /\ y * b >= b /\ q * b \in Nat
      BY <2>1
    <2> QED BY <1>1, <2>2
  <1>4. d = q => q * b <= a /\ a < q * b + b
    BY <1>1
  <1> QED
    BY <1>1, <1>2, <1>3, <1>4

(* Quotients grow with what is divided.                                    *)
LEMMA QuotientGrows ==
    ASSUME NEW a \in Nat, NEW c \in Nat, NEW b \in Nat \ {0}, a <= c
    PROVE  a \div b <= c \div b
  <1>1. PICK d \in Nat, x \in Nat : d = a \div b /\ a = b * d + x /\ x < b
    BY Divided
  <1>2. PICK e \in Nat, y \in Nat : e = c \div b /\ c = b * e + y /\ y < b
    BY Divided
  <1>3. ASSUME e < d PROVE FALSE
    <2>1. PICK z \in Nat \ {0} : d = e + z
      BY <1>3
    <2>2. b * d = b * e + b * z /\ b * z >= b
      BY <2>1
    <2> QED BY <1>1, <1>2, <2>2
  <1> QED BY <1>1, <1>2, <1>3

LEMMA Sizes ==
    /\ Payloads \in Nat \ {0} /\ Sections \in Nat \ {0} /\ SectionSize \in Nat \ {0}
    /\ PageSize \in Nat \ {0} /\ Room \in Nat \ {0}
    /\ \E k \in Nat \ {0} : SectionSize = k * PageSize /\ SectionSize \div PageSize = k
  <1>1. /\ Payloads \in Nat \ {0} /\ Sections \in Nat \ {0} /\ SectionSize \in Nat \ {0}
        /\ PageSize \in Nat \ {0}
    BY PayloadAssumption
  <1>2. Room \in Nat \ {0}
    BY <1>1 DEF Room
  <1>3. PICK k \in Nat, x \in Nat : k = SectionSize \div PageSize /\ x = SectionSize % PageSize
                                   /\ SectionSize = PageSize * k + x
    BY <1>1, Divided
  <1>4. x = 0
    BY <1>3, PayloadAssumption
  <1>5. k # 0
    BY <1>1, <1>3, <1>4
  <1>6. PageSize * k = k * PageSize
    BY <1>1
  <1> QED
    BY <1>1, <1>2, <1>3, <1>4, <1>5, <1>6

LEMMA SampleFits ==
    ASSUME NEW p \in P
    PROVE  /\ SampleSize[p] \in Nat \ {0} /\ SampleSize[p] <= PageSize /\ PageSize <= SectionSize
           /\ SectionSize \div SampleSize[p] \in Nat \ {0} /\ PerPage(p) \in Nat \ {0}
           /\ p \in Nat /\ p + 1 <= Payloads
  <1>1. SampleSize[p] \in Nat \ {0} /\ SampleSize[p] <= PageSize
    BY PayloadAssumption DEF P
  <1>2. PageSize <= SectionSize
    BY Sizes
  <1>3. ASSUME NEW a \in Nat, SampleSize[p] <= a PROVE a \div SampleSize[p] \in Nat \ {0}
    <2>1. PICK d \in Nat, x \in Nat : d = a \div SampleSize[p] /\ a = SampleSize[p] * d + x /\ x < SampleSize[p]
      BY <1>1, Divided
    <2>2. d # 0
      BY <1>1, <1>3, <2>1
    <2> QED BY <2>1, <2>2
  <1>4. p \in Nat /\ p + 1 <= Payloads
    BY Sizes DEF P
  <1> QED
    BY <1>1, <1>2, <1>3, <1>4, Sizes DEF PerPage

(* The place of a sample in RAM: row r of section s of its payload.        *)
RamAt(p, i, s, r, n) ==
    /\ n = SectionSize \div SampleSize[p] /\ s = i \div n /\ r = i % n
    /\ i = n * s + r /\ r + 1 <= n
    /\ RamAddress(p, i) = (p * Sections + s) * SectionSize + r * SampleSize[p]
    /\ (r + 1) * SampleSize[p] <= SectionSize

LEMMA RamPlace ==
    ASSUME NEW p \in P, NEW i \in Nat, RamAddress(p, i) # -1
    PROVE  \E s, r, n \in Nat : RamAt(p, i, s, r, n)
  <1>1. PICK n \in Nat \ {0} : n = SectionSize \div SampleSize[p]
    BY SampleFits
  <1>2. PICK s \in Nat, r \in Nat : s = i \div n /\ r = i % n /\ i = n * s + r /\ r < n
    BY SMTT(60), Divided
  <1>3. RamAddress(p, i) = (p * Sections + s) * SectionSize + r * SampleSize[p]
    BY <1>1, <1>2 DEF RamAddress, RamSection, SectionAddress
  <1>4. n * SampleSize[p] <= SectionSize
    <2>0. /\ SectionSize = SampleSize[p] * (SectionSize \div SampleSize[p]) + (SectionSize % SampleSize[p])
          /\ SectionSize % SampleSize[p] \in Nat
      BY Divided, Sizes, SampleFits, Zenon
    <2>1. PICK x \in Nat : SectionSize = SampleSize[p] * n + x
      BY <1>1, <2>0, Zenon
    <2> QED BY <2>1, SampleFits
  <1>5. (r + 1) * SampleSize[p] <= n * SampleSize[p]
    <2>0. n - (r + 1) \in Nat /\ n = (r + 1) + (n - (r + 1)) /\ SampleSize[p] \in Nat
      BY <1>2, SampleFits
    <2>1. PICK y \in Nat, z \in Nat : n = (r + 1) + y /\ z = SampleSize[p]
      BY <2>0
    <2>2. ((r + 1) + y) * z = (r + 1) * z + y * z /\ y * z >= 0
      BY <2>1
    <2> QED BY <2>1, <2>2
  <1>6. (r + 1) * SampleSize[p] <= SectionSize
    <2>1. (r + 1) * SampleSize[p] \in Nat /\ n * SampleSize[p] \in Nat
      BY SampleFits
    <2> QED BY <1>4, <1>5, <2>1, Sizes
  <1>7. r + 1 <= n
    BY <1>2
  <1> QED
    BY <1>1, <1>2, <1>3, <1>6, <1>7, Zenon DEF RamAt

(* The place of a sample in flash: column r of page g, in section s.       *)
FlashAt(p, i, s, g, r, n, m) ==
    /\ n = PerPage(p) /\ m = n * (SectionSize \div PageSize) /\ m # 0 /\ n # 0
    /\ s = i \div m /\ g = i \div n /\ r = i % n
    /\ i = n * g + r /\ r + 1 <= n
    /\ FlashAddress(p, i) = (p * Sections + s) * SectionSize + g * PageSize + r * SampleSize[p]
    /\ (r + 1) * SampleSize[p] <= PageSize

LEMMA FlashPlace ==
    ASSUME NEW p \in P, NEW i \in Nat, FlashAddress(p, i) # -1
    PROVE  \E s, g, r, n, m \in Nat : FlashAt(p, i, s, g, r, n, m)
  <1>1. PICK n \in Nat \ {0} : n = PerPage(p)
    BY SampleFits
  <1>2. PICK g \in Nat, r \in Nat : g = i \div n /\ r = i % n /\ i = n * g + r /\ r < n
    BY Divided
  <1>3. PICK m \in Nat \ {0} : m = n * (SectionSize \div PageSize)
    <2>1. PICK k \in Nat \ {0} : k = SectionSize \div PageSize
      BY Sizes
    <2>2. n * k \in Nat \ {0}
      OBVIOUS
    <2> QED BY <2>1, <2>2
  <1>4. PICK s \in Nat : s = i \div m
    BY Divided
  <1>5. FlashAddress(p, i) = (p * Sections + s) * SectionSize + g * PageSize + r * SampleSize[p]
    BY <1>1, <1>2, <1>3, <1>4 DEF FlashAddress, FlashSection, SectionAddress
  <1>6. n * SampleSize[p] <= PageSize
    <2>0. /\ PageSize = SampleSize[p] * (PageSize \div SampleSize[p]) + (PageSize % SampleSize[p])
          /\ PageSize % SampleSize[p] \in Nat
      BY Divided, Sizes, SampleFits, Zenon
    <2>1. PICK x \in Nat : PageSize = SampleSize[p] * n + x
      BY <1>1, <2>0, Zenon DEF PerPage
    <2> QED BY <2>1, SampleFits
  <1>7. (r + 1) * SampleSize[p] <= n * SampleSize[p]
    <2>0. n - (r + 1) \in Nat /\ n = (r + 1) + (n - (r + 1)) /\ SampleSize[p] \in Nat
      BY <1>2, SampleFits
    <2>1. PICK y \in Nat, z \in Nat : n = (r + 1) + y /\ z = SampleSize[p]
      BY <2>0
    <2>2. ((r + 1) + y) * z = (r + 1) * z + y * z /\ y * z >= 0
      BY <2>1
    <2> QED BY <2>1, <2>2
  <1>8. (r + 1) * SampleSize[p] <= PageSize
    <2>1. (r + 1) * SampleSize[p] \in Nat /\ n * SampleSize[p] \in Nat
      BY SampleFits
    <2> QED BY <1>6, <1>7, <2>1, Sizes
  <1>9. r + 1 <= n /\ m # 0 /\ n # 0 /\ m \in Nat /\ n \in Nat
    BY <1>2
  <1> QED
    BY <1>1, <1>2, <1>3, <1>4, <1>5, <1>8, <1>9, Zenon DEF FlashAt

LEMMA TimesGrows ==
    ASSUME NEW a \in Nat, NEW b \in Nat, NEW c \in Nat, a <= b
    PROVE  a * c <= b * c /\ a * c \in Nat /\ b * c \in Nat /\ (a + 1) * c = a * c + c
  <1>1. b - a \in Nat /\ b = a + (b - a)
    OBVIOUS
  <1>2. PICK y \in Nat : b = a + y
    BY <1>1
  <1>3. b * c = a * c + y * c /\ y * c \in Nat /\ a * c \in Nat /\ (a + 1) * c = a * c + c
    BY <1>2
  <1> QED BY <1>3

(* Samples of a payload are stored behind each other.                      *)
LEMMA RamSpread ==
    ASSUME NEW p \in P, NEW i \in Nat, NEW j \in Nat, i < j,
           RamAddress(p, i) # -1, RamAddress(p, j) # -1
    PROVE  RamAddress(p, i) \in Nat /\ RamAddress(p, j) \in Nat
           /\ RamAddress(p, i) + SampleSize[p] <= RamAddress(p, j)
  <1>0. PICK t, u, n2 \in Nat : RamAt(p, j, t, u, n2)
    BY RamPlace, Zenon
  <1>1. PICK z \in Nat, A \in Nat, SS \in Nat : z = SampleSize[p] /\ A = p * Sections /\ SS = SectionSize
    <2>1. SampleSize[p] \in Nat /\ p * Sections \in Nat /\ SectionSize \in Nat
      BY SampleFits, Sizes
    <2> QED BY <2>1, Zenon
  <1>2. PICK s, r, n \in Nat : RamAt(p, i, s, r, n)
    BY RamPlace, Zenon
  <1>3. /\ t = j \div n /\ u = j % n
        /\ j = n * t + u /\ u + 1 <= n
        /\ RamAddress(p, j) = (p * Sections + t) * SectionSize + u * SampleSize[p]
    <2>1. n2 = n
      BY <1>2, <1>0, Zenon DEF RamAt
    <2> QED BY <1>0, <2>1, Zenon DEF RamAt
  <1>4. s <= t
    <2>1. n \in Nat \ {0} /\ i <= j
      <3>1. r + 1 <= n
        BY <1>2 DEF RamAt
      <3> QED BY <3>1
    <2> QED BY <1>2, <1>3, <2>1, QuotientGrows, Zenon DEF RamAt
  <1>5. /\ RamAddress(p, i) = (A + s) * SS + r * z /\ RamAddress(p, j) = (A + t) * SS + u * z
        /\ (r + 1) * z <= SS
    BY <1>1, <1>2, <1>3, Zenon DEF RamAt
  <1>6. PICK a, b, c, d \in Nat : /\ a = (A + s) * SS /\ b = r * z /\ c = (A + t) * SS /\ d = u * z
                                 /\ b + z <= SS
    <2>1. (A + s) * SS \in Nat /\ r * z \in Nat /\ (A + t) * SS \in Nat /\ u * z \in Nat
      OBVIOUS
    <2>2. (r + 1) * z = r * z + z
      OBVIOUS
    <2> QED BY <1>5, <2>1, <2>2
  <1>7. a + b + z <= c + d
    <2>1. CASE s = t
      <3>1. r + 1 <= u
        BY <1>2, <1>3, <2>1 DEF RamAt
      <3>2. (r + 1) * z <= u * z /\ (r + 1) * z = r * z + z
        BY <3>1, TimesGrows
      <3>3. b + z <= d /\ a = c
        BY <1>6, <2>1, <3>2
      <3> QED BY SMTT(60), <3>3
    <2>2. CASE s + 1 <= t
      <3>1. A + s + 1 <= A + t
        BY <2>2
      <3>2. (A + s + 1) * SS <= (A + t) * SS /\ (A + s + 1) * SS = (A + s) * SS + SS
        BY <3>1, TimesGrows
      <3>3. a + SS <= c
        BY <1>6, <3>2
      <3> QED BY <1>6, <3>3
    <2> QED BY <1>4, <2>1, <2>2
  <1>8. RamAddress(p, i) = a + b /\ RamAddress(p, j) = c + d
    BY <1>5, <1>6
  <1> QED BY <1>1, <1>7, <1>8

LEMMA FlashSpread ==
    ASSUME NEW p \in P, NEW i \in Nat, NEW j \in Nat, i < j,
           FlashAddress(p, i) # -1, FlashAddress(p, j) # -1
    PROVE  FlashAddress(p, i) \in Nat /\ FlashAddress(p, j) \in Nat
           /\ FlashAddress(p, i) + SampleSize[p] <= FlashAddress(p, j)
  <1>0. PICK t, h, u, n2, m2 \in Nat : FlashAt(p, j, t, h, u, n2, m2)
    BY FlashPlace, Zenon
  <1>1. PICK z \in Nat, A \in Nat, SS \in Nat, PS \in Nat :
            z = SampleSize[p] /\ A = p * Sections /\ SS = SectionSize /\ PS = PageSize
    <2>1. SampleSize[p] \in Nat /\ p * Sections \in Nat /\ SectionSize \in Nat /\ PageSize \in Nat
      BY SampleFits, Sizes
    <2> QED BY <2>1, Zenon
  <1>2. PICK s, g, r, n, m \in Nat : FlashAt(p, i, s, g, r, n, m)
    BY FlashPlace, Zenon
  <1>3. /\ t = j \div m /\ h = j \div n /\ u = j % n
        /\ j = n * h + u /\ u + 1 <= n
        /\ FlashAddress(p, j) = (p * Sections + t) * SectionSize + h * PageSize + u * SampleSize[p]
    <2>1. n2 = n /\ m2 = m
      BY <1>2, <1>0, Zenon DEF FlashAt
    <2> QED BY <1>0, <2>1, Zenon DEF FlashAt
  <1>4. s <= t /\ g <= h
    <2>1. n \in Nat \ {0} /\ m \in Nat \ {0} /\ i <= j
      BY <1>2 DEF FlashAt
    <2> QED BY <1>2, <1>3, <2>1, QuotientGrows, Zenon DEF FlashAt
  <1>5. /\ FlashAddress(p, i) = (A + s) * SS + g * PS + r * z
        /\ FlashAddress(p, j) = (A + t) * SS + h * PS + u * z
        /\ (r + 1) * z <= PS
    BY <1>1, <1>2, <1>3, Zenon DEF FlashAt
  <1>6. PICK a, b, c, d, e, f \in Nat :
            /\ a = (A + s) * SS /\ b = r * z /\ c = (A + t) * SS /\ d = u * z
            /\ e = g * PS /\ f = h * PS /\ b + z <= PS /\ a <= c
    <2>1. /\ (A + s) * SS \in Nat /\ r * z \in Nat /\ (A + t) * SS \in Nat /\ u * z \in Nat
          /\ g * PS \in Nat /\ h * PS \in Nat
      OBVIOUS
    <2>2. (r + 1) * z = r * z + z
      OBVIOUS
    <2>3. (A + s) * SS <= (A + t) * SS
      BY <1>4, TimesGrows
    <2> QED BY <1>5, <2>1, <2>2, <2>3
  <1>7. a + e + b + z <= c + f + d
    <2>1. CASE g = h
      <3>1. r + 1 <= u
        BY <1>2, <1>3, <2>1 DEF FlashAt
      <3>2. (r + 1) * z <= u * z /\ (r + 1) * z = r * z + z
        BY <3>1, TimesGrows
      <3>3. b + z <= d /\ e = f
        BY <1>6, <2>1, <3>2
      <3> QED BY <1>6, <3>3
    <2>2. CASE g + 1 <= h
      <3>1. (g + 1) * PS <= h * PS /\ (g + 1) * PS = g * PS + PS
        BY <2>2, TimesGrows
      <3>2. e + PS <= f
        BY <1>6, <3>1
      <3> QED BY <1>6, <3>2
    <2> QED BY <1>4, <2>1, <2>2
  <1>8. FlashAddress(p, i) = a + e + b /\ FlashAddress(p, j) = c + f + d
    BY <1>5, <1>6
  <1> QED BY <1>1, <1>7, <1>8

LEMMA AddressRam ==
    ASSUME build = "ram", NEW p \in P, NEW i \in Nat, Address(p, i) # -1
    PROVE  Address(p, i) = RamAddress(p, i) /\ RamAddress(p, i) # -1
  BY DEF Address

LEMMA AddressFlash ==
    ASSUME build = "flash", NEW p \in P, NEW i \in Nat, Address(p, i) # -1
    PROVE  /\ Address(p, i) = FlashAddress(p, i) /\ FlashAddress(p, i) # -1
           /\ Aligned(Address(p, i), SampleSize[p])
  BY DEF Address

LEMMA AddressRow ==
    ASSUME build = "sqlite", NEW p \in P, NEW i \in Nat
    PROVE  Address(p, i) = i * Payloads + p /\ Address(p, i) \in Nat /\ Zone(Address(p, i)) = p
  <1>1. Address(p, i) = i * Payloads + p
    BY DEF Address
  <1>2. p \in Nat /\ p < Payloads /\ Payloads \in Nat \ {0}
    BY SampleFits, Sizes
  <1>3. PICK n \in Nat \ {0}, a \in Nat, b \in Nat : n = Payloads /\ b = i * n /\ a = b + p
    <2>1. i * Payloads \in Nat /\ i * Payloads + p \in Nat
      BY <1>2
    <2> QED BY <1>2, <2>1
  <1>4. a % n = p
    <2>1. a \div n = i
      BY <1>2, <1>3, Quotient
    <2>2. a = n * i + (a % n) /\ a % n \in Nat
      BY <2>1, Divided
    <2>3. n * i = b
      BY <1>3
    <2> QED BY <1>2, <1>3, <2>2, <2>3
  <1> QED BY <1>1, <1>2, <1>3, <1>4 DEF Zone

LEMMA AddressNat ==
    ASSUME build \in {"ram", "flash", "sqlite"}, NEW p \in P, NEW i \in Nat, Address(p, i) # -1
    PROVE  Address(p, i) \in Nat
  <1>1. CASE build = "ram"
    <2>1. RamAddress(p, i) # -1 /\ Address(p, i) = RamAddress(p, i)
      BY <1>1, AddressRam
    <2>4. PICK s, r, n \in Nat : RamAt(p, i, s, r, n)
      BY <2>1, RamPlace, Zenon
    <2>2. RamAddress(p, i) = (p * Sections + s) * SectionSize + r * SampleSize[p]
      BY <2>4 DEF RamAt
    <2>3. (p * Sections + s) * SectionSize \in Nat /\ r * SampleSize[p] \in Nat
      BY SampleFits, Sizes
    <2> QED BY <2>1, <2>2, <2>3
  <1>2. CASE build = "flash"
    <2>1. FlashAddress(p, i) # -1 /\ Address(p, i) = FlashAddress(p, i)
      BY <1>2, AddressFlash
    <2>2. PICK s, g, r, n, m \in Nat : FlashAt(p, i, s, g, r, n, m)
      BY <2>1, FlashPlace, Zenon
    <2>3. (p * Sections + s) * SectionSize \in Nat /\ r * SampleSize[p] \in Nat /\ g * PageSize \in Nat
      BY SampleFits, Sizes
    <2>4. FlashAddress(p, i) = (p * Sections + s) * SectionSize + g * PageSize + r * SampleSize[p]
      BY <2>2 DEF FlashAt
    <2> QED BY <2>1, <2>3, <2>4
  <1>3. CASE build = "sqlite"
    BY <1>3, AddressRow
  <1> QED BY <1>1, <1>2, <1>3

LEMMA Spread ==
    ASSUME build \in {"ram", "flash"}, NEW p \in P, NEW i \in Nat, NEW j \in Nat, i < j,
           Address(p, i) # -1, Address(p, j) # -1
    PROVE  Address(p, i) + SampleSize[p] <= Address(p, j)
  <1>1. CASE build = "ram"
    BY <1>1, AddressRam, RamSpread
  <1>2. CASE build = "flash"
    BY <1>2, AddressFlash, FlashSpread
  <1> QED BY <1>1, <1>2

(* The sections of a payload in bytes.                                     *)
LEMMA Bytes ==
    ASSUME NEW p \in P
    PROVE  /\ p * Sections \in Nat /\ p * Room = (p * Sections) * SectionSize /\ p * Room \in Nat
           /\ p * Room + Room = (p * Sections + Sections) * SectionSize
           /\ p * Room + Room <= Limit
  <1>1. PICK S \in Nat, L \in Nat, n \in Nat : S = Sections /\ L = SectionSize /\ n = Payloads /\ p + 1 <= n /\ p \in Nat
    BY Sizes, SampleFits
  <1>2. p * S \in Nat /\ p * (S * L) = (p * S) * L /\ p * (S * L) \in Nat /\ S * L \in Nat
        /\ p * (S * L) + S * L = (p * S + S) * L
    BY <1>1
  <1>3. (p + 1) * (S * L) <= n * (S * L) /\ (p + 1) * (S * L) = p * (S * L) + S * L
    BY <1>1, <1>2, TimesGrows
  <1>4. n * S * L = n * (S * L)
    OBVIOUS
  <1> QED BY <1>1, <1>2, <1>3, <1>4 DEF Room, Limit

(* A sample in the sections of its payload lies in them as a whole.        *)
LEMMA Within ==
    ASSUME build \in {"ram", "flash"}, NEW p \in P, NEW i \in Nat, Own(p, i)
    PROVE  p * Room <= Address(p, i) /\ Address(p, i) + SampleSize[p] <= p * Room + Room
  <1>0. PICK a \in Nat, z \in Nat, A \in Nat, S \in Nat, L \in Nat :
            /\ a = Address(p, i) /\ z = SampleSize[p] /\ A = p * Sections /\ S = Sections /\ L = SectionSize
            /\ a # -1
    <2>1. Address(p, i) \in Nat /\ Address(p, i) # -1
      BY AddressNat DEF Own
    <2>2. SampleSize[p] \in Nat /\ p * Sections \in Nat /\ Sections \in Nat /\ SectionSize \in Nat
      BY SampleFits, Sizes
    <2> QED BY <2>1, <2>2, Zenon
  <1>1. p * Room <= a /\ a < p * Room + Room
    <2>1. a \div Room = p
      BY <1>0 DEF Own, Zone
    <2> QED BY <2>1, Quotient, Sizes, SampleFits
  <1>2. p * Room + Room = (A + S) * L
    BY <1>0, Bytes
  <1>3. CASE build = "ram"
    <2>0. RamAddress(p, i) # -1 /\ a = RamAddress(p, i)
      BY <1>0, <1>3, AddressRam
    <2>1. PICK s, r, n \in Nat : RamAt(p, i, s, r, n)
      BY <2>0, RamPlace, Zenon
    <2>2. a = (A + s) * L + r * z /\ (r + 1) * z <= L
      BY <1>0, <2>0, <2>1, Zenon DEF RamAt
    <2>3. PICK b, c, d \in Nat : b = (A + s) * L /\ c = r * z /\ d = (A + S) * L /\ c + z <= L /\ a = b + c
      <3>1. (A + s) * L \in Nat /\ r * z \in Nat /\ (A + S) * L \in Nat /\ (r + 1) * z = r * z + z
        OBVIOUS
      <3> QED BY <2>2, <3>1
    <2>4. s + 1 <= S
      <3>1. ASSUME S <= s PROVE FALSE
        <4>1. A + S <= A + s
          BY <3>1
        <4>2. (A + S) * L <= (A + s) * L
          BY <4>1, TimesGrows
        <4>3. d <= b /\ a < d
          BY <1>1, <1>2, <2>3, <4>2
        <4> QED BY <2>3, <4>3
      <3> QED BY <3>1
    <2>5. b + L <= d
      <3>1. A + s + 1 <= A + S
        BY <2>4
      <3>2. (A + s + 1) * L <= (A + S) * L /\ (A + s + 1) * L = (A + s) * L + L
        BY <3>1, TimesGrows
      <3> QED BY <2>3, <3>2
    <2>6. a + z <= d
      BY <2>3, <2>5
    <2> QED BY <1>0, <1>1, <1>2, <2>3, <2>6
  <1>4. CASE build = "flash"
    <2>1. PICK g \in Nat \ {0}, k \in Nat \ {0} : g = PageSize /\ L = k * g
      BY <1>0, Sizes
    <2>2. (a + z) \div g <= a \div g
      BY <1>0, <1>4, <2>1, AddressFlash DEF Aligned
    <2>3. PICK e \in Nat, d \in Nat : e = (a + z) \div g /\ d = a \div g /\ e <= d
      BY SMTT(60), <2>2, Divided
    <2>4. a + z < e * g + g /\ d * g <= a
      BY <2>3, Quotient
    <2>5. e * g <= d * g /\ e * g \in Nat /\ d * g \in Nat /\ (d + 1) * g = d * g + g
      BY <2>3, TimesGrows
    <2>6. PICK M \in Nat : M = (A + S) * k /\ M * g = (A + S) * L
      <3>1. (A + S) * k \in Nat /\ ((A + S) * k) * g = (A + S) * (k * g)
        OBVIOUS
      <3> QED BY <2>1, <3>1
    <2>7. d + 1 <= M
      <3>1. ASSUME M <= d PROVE FALSE
        <4>1. M * g <= d * g /\ M * g \in Nat
          BY <3>1, TimesGrows
        <4> QED BY <1>1, <1>2, <2>4, <2>5, <2>6, <4>1
      <3> QED BY <3>1
    <2>8. d * g + g <= M * g /\ M * g \in Nat
      BY <2>5, <2>7, TimesGrows
    <2>9. a + z <= M * g
      BY <2>4, <2>5, <2>8
    <2> QED BY <1>0, <1>1, <1>2, <2>6, <2>9
  <1> QED BY <1>3, <1>4

(* Two samples never share a byte, or a row.                               *)
LEMMA Clear ==
    ASSUME build \in {"ram", "flash", "sqlite"}, NEW p \in P, NEW q \in P, NEW i \in Nat, NEW j \in Nat,
           Own(p, i), Own(q, j), p # q \/ i # j
    PROVE  \/ Address(p, i) + CellSize(p) <= Address(q, j)
           \/ Address(q, j) + CellSize(q) <= Address(p, i)
  <1>1. Address(p, i) \in Nat /\ Address(q, j) \in Nat /\ Address(p, i) # -1 /\ Address(q, j) # -1
    BY AddressNat DEF Own
  <1>2. p \in Nat /\ q \in Nat /\ SampleSize[p] \in Nat /\ SampleSize[q] \in Nat
    BY SampleFits
  <1>3. CASE build = "sqlite"
    <2>1. CASE p # q
      <3>1. Address(p, i) # Address(q, j)
        BY <1>3, <2>1 DEF Own
      <3> QED BY <1>1, <1>3, <3>1 DEF CellSize
    <2>2. CASE p = q
      <3>1. PICK n \in Nat \ {0} : n = Payloads
        BY Sizes
      <3>2. Address(p, i) = i * n + p /\ Address(q, j) = j * n + p
        BY <1>3, <2>2, <3>1, AddressRow
      <3>3. i * n # j * n /\ i * n \in Nat /\ j * n \in Nat
        <4>1. CASE i < j
          <5>1. (i + 1) * n <= j * n /\ (i + 1) * n = i * n + n /\ i * n \in Nat /\ j * n \in Nat
            BY <4>1, TimesGrows
          <5> QED BY <5>1
        <4>2. CASE j < i
          <5>1. (j + 1) * n <= i * n /\ (j + 1) * n = j * n + n /\ i * n \in Nat /\ j * n \in Nat
            BY <4>2, TimesGrows
          <5> QED BY <5>1
        <4> QED BY <2>2, <4>1, <4>2
      <3> QED BY <1>1, <1>2, <1>3, <3>2, <3>3 DEF CellSize
    <2> QED BY <2>1, <2>2
  <1>4. CASE build \in {"ram", "flash"}
    <2>1. CASE p # q
      <3>1. /\ p * Room <= Address(p, i) /\ Address(p, i) + SampleSize[p] <= p * Room + Room
            /\ q * Room <= Address(q, j) /\ Address(q, j) + SampleSize[q] <= q * Room + Room
        BY <1>4, Within
      <3>2. PICK R \in Nat, b \in Nat, c \in Nat : R = Room /\ b = p * R /\ c = q * R
        <4>1. Room \in Nat /\ p * Room \in Nat /\ q * Room \in Nat
          BY Sizes, Bytes
        <4> QED BY <4>1, Zenon
      <3>3. p < q => b + R <= c
        <4>1. p < q => (p + 1) * R <= q * R /\ (p + 1) * R = p * R + R
          BY <1>2, TimesGrows
        <4> QED BY <3>2, <4>1
      <3>4. q < p => c + R <= b
        <4>1. q < p => (q + 1) * R <= p * R /\ (q + 1) * R = q * R + R
          BY <1>2, TimesGrows
        <4> QED BY <3>2, <4>1
      <3> QED BY <1>1, <1>2, <1>4, <2>1, <3>1, <3>2, <3>3, <3>4 DEF CellSize
    <2>2. CASE p = q
      <3>1. i < j => Address(p, i) + SampleSize[p] <= Address(p, j)
        BY <1>1, <1>4, <2>2, Spread
      <3>2. j < i => Address(p, j) + SampleSize[p] <= Address(p, i)
        BY <1>1, <1>4, <2>2, Spread
      <3> QED BY <1>4, <2>2, <3>1, <3>2 DEF CellSize
    <2> QED BY <2>1, <2>2
  <1> QED BY <1>3, <1>4

LEMMA CellSizeNat ==
    ASSUME NEW p \in P
    PROVE  CellSize(p) \in Nat \ {0}
  BY SampleFits DEF CellSize

(* Erasing the sections of a payload erases what belongs to it.            *)
LEMMA FlashZone ==
    ASSUME NEW a \in Nat, NEW p \in P
    PROVE  (\E i \in 0 .. Sections - 1 : a \div SectionSize = i + p * Sections) <=> a \div Room = p
  <1>1. PICK S \in Nat \ {0}, L \in Nat \ {0}, A \in Nat : S = Sections /\ L = SectionSize /\ A = p * Sections
    BY Sizes, Bytes
  <1>2. PICK d \in Nat : d = a \div L /\ d * L <= a /\ a < d * L + L
    <2>1. PICK d \in Nat : d = a \div L
      BY Divided
    <2> QED BY <2>1, Quotient
  <1>3. a \div Room = p <=> A * L <= a /\ a < (A + S) * L
    <2>1. p * Room = A * L /\ p * Room + Room = (A + S) * L
      BY <1>1, Bytes
    <2>2. a \div Room = p <=> p * Room <= a /\ a < p * Room + Room
      BY Sizes, SampleFits, Quotient
    <2> QED BY <2>1, <2>2
  <1>4. PICK b, c, e \in Nat : b = A * L /\ c = (A + S) * L /\ e = d * L
    <2>1. A * L \in Nat /\ (A + S) * L \in Nat /\ d * L \in Nat
      OBVIOUS
    <2> QED BY <2>1
  <1>5. A <= d => b <= e
    BY <1>4, TimesGrows
  <1>6. d < A => e + L <= b
    <2>1. d < A => (d + 1) * L <= A * L /\ (d + 1) * L = d * L + L
      BY TimesGrows
    <2> QED BY <1>4, <2>1
  <1>7. d < A + S => e + L <= c
    <2>1. d < A + S => (d + 1) * L <= (A + S) * L /\ (d + 1) * L = d * L + L
      BY TimesGrows
    <2> QED BY <1>4, <2>1
  <1>8. A + S <= d => c <= e
    BY <1>4, TimesGrows
  <1>9. (A <= d /\ d < A + S) <=> (b <= a /\ a < c)
    BY <1>2, <1>4, <1>5, <1>6, <1>7, <1>8
  <1>10. (\E i \in 0 .. S - 1 : d = i + A) <=> (A <= d /\ d < A + S)
    <2>1. ASSUME A <= d, d < A + S PROVE \E i \in 0 .. S - 1 : d = i + A
      <3>1. d - A \in 0 .. S - 1 /\ d = (d - A) + A
        BY <2>1
      <3> QED BY <3>1
    <2> QED BY <2>1
  <1> QED BY <1>1, <1>2, <1>3, <1>4, <1>9, <1>10

LEMMA KeptZone ==
    ASSUME build \in {"ram", "flash", "sqlite"}, NEW p \in P, NEW c, c.at \in Nat
    PROVE  Kept(c, p) <=> Zone(c.at) # p
  <1>1. CASE build = "ram"
    BY <1>1 DEF Kept, KeptRam, Zone, Room
  <1>2. CASE build = "flash"
    <2>1. Kept(c, p) <=> KeptFlash(c, p)
      BY <1>2 DEF Kept
    <2>2. KeptFlash(c, p) <=> ~\E i \in 0 .. Sections - 1 : c.at \div SectionSize = i + p * Sections
      BY DEF KeptFlash
    <2>3. Zone(c.at) = c.at \div Room
      BY <1>2 DEF Zone
    <2> QED BY <2>1, <2>2, <2>3, FlashZone
  <1>3. CASE build = "sqlite"
    BY <1>3 DEF Kept, KeptRow, Zone
  <1> QED BY <1>1, <1>2, <1>3

LEMMA Beyond ==
    ASSUME NEW a \in Nat, \A p \in P : a \div Room # p
    PROVE  a >= Limit
  <1>1. PICK R \in Nat \ {0}, n \in Nat : R = Room /\ n = Payloads
    BY Sizes
  <1>2. PICK d \in Nat : d = a \div R /\ d * R <= a
    <2>1. PICK d \in Nat : d = a \div R
      BY Divided
    <2> QED BY <2>1, Quotient
  <1>3. n <= d
    BY <1>1, <1>2 DEF P
  <1>4. n * R <= d * R /\ n * R \in Nat /\ d * R \in Nat
    BY <1>3, TimesGrows
  <1>5. Limit = n * R
    <2>1. PICK S \in Nat, L \in Nat : S = Sections /\ L = SectionSize
      BY Sizes
    <2>2. n * S * L = n * (S * L)
      OBVIOUS
    <2> QED BY <1>1, <2>1, <2>2 DEF Limit, Room
  <1> QED BY <1>2, <1>4, <1>5

--------------------------------------------------------------------------------
(* Types and counts *)

Cell == [at : Nat, size : Nat, v : Nat]
PayloadNums == PayloadType /\ Counts

LEMMA OpRecord ==
    ASSUME PayloadType
    PROVE  /\ op = [pc |-> op.pc, p |-> op.p, left |-> op.left]
           /\ op.p \in P /\ op.left \in Nat
           /\ op.pc \in {"ready", "add", "index", "zeroIndex", "zeroAck", "resetIndex", "resetAck", "erase"}
           /\ \A x : /\ [op EXCEPT !.pc = x] = [pc |-> x, p |-> op.p, left |-> op.left]
  BY DEF PayloadType, PayloadOps, PayloadPcs

LEMMA ReadyType == Ready = [pc |-> "ready", p |-> 0, left |-> 0] /\ 0 \in P
  <1>1. 0 \in P
    BY Sizes DEF P
  <1> QED BY <1>1 DEF Ready

(* The commands that move no sample and no index: acknowledge, telemetry.  *)
Quiet ==
    /\ op = Ready /\ UNCHANGED <<build, mem, idx, op, taken, good, doubt, over>>
    /\ ack' \in [P -> Nat]

LEMMA QuietSteps ==
    ASSUME PayloadType, NEW p \in P,
           \/ tm_send_last(p) \/ tm_send_all(p) \/ tm_send_from(p, 1)
           \/ tm_get_single(p, 0) \/ tm_get_last(p) \/ tm_dump(p)
           \/ \E k \in 1 .. 2 : tm_set_ack(p, k)
    PROVE  Quiet
  <1>1. CASE \E k \in 1 .. 2 : tm_set_ack(p, k)
    <2>1. PICK k \in 1 .. 2 : tm_set_ack(p, k)
      BY <1>1
    <2>2. (IF k > idx[p] THEN idx[p] ELSE k) \in Nat
      BY DEF PayloadType
    <2>3. ack' = [ack EXCEPT ![p] = IF k > idx[p] THEN idx[p] ELSE k]
      BY <2>1 DEF tm_set_ack
    <2>4. ack' \in [P -> Nat]
      BY <2>2, <2>3 DEF PayloadType
    <2> QED BY <2>1, <2>4 DEF Quiet, tm_set_ack
  <1>2. CASE ~\E k \in 1 .. 2 : tm_set_ack(p, k)
    <2>1. \/ \E a, b : tm_send_tel_from_to(a, b, p)
          \/ \E a, b : Printed(a, b)
      BY <1>2 DEF tm_send_last, tm_send_all, tm_send_from, tm_get_single, tm_get_last, tm_dump
    <2>2. op = Ready /\ UNCHANGED <<build, mem, idx, ack, op, taken, good, doubt, over>>
      BY <2>1 DEF tm_send_tel_from_to, Printed
    <2> QED BY <2>2 DEF Quiet, PayloadType
  <1> QED BY <1>1, <1>2

LEMMA AddedType ==
    ASSUME PayloadType, op.left >= 1
    PROVE  \/ Added = Ready
           \/ Added = [pc |-> "add", p |-> op.p, left |-> op.left - 1] /\ op.left - 1 >= 1 /\ op.left - 1 \in Nat
  <1>1. op.left \in Nat
    BY OpRecord
  <1> QED BY <1>1 DEF Added

LEMMA NumsAddSample ==
    ASSUME PayloadNums, dat_add_payload_sample
    PROVE  /\ PayloadNums' /\ UNCHANGED <<build, idx, ack, good, doubt, sent>> /\ taken' = taken + 1
           /\ op.pc = "add"
           /\ \/ op'.pc \in {"ready", "add"} /\ UNCHANGED <<mem, over>>
              \/ /\ op' = [pc |-> "index", p |-> op.p, left |-> op.left]
                 /\ Address(op.p, idx[op.p]) # -1
                 /\ mem' = Store(op.p, Address(op.p, idx[op.p]), taken + 1)
                 /\ over' = (over \/ (build # "sqlite" /\ Address(op.p, idx[op.p]) \div (Sections * SectionSize) # op.p))
  <1>0. PayloadType /\ Counts
    BY DEF PayloadNums
  <1>1. /\ op.pc = "add" /\ UNCHANGED <<build, idx, ack, good, doubt, sent>> /\ taken' = taken + 1
        /\ op.p \in P /\ idx[op.p] \in Nat /\ op.left \in Nat
    BY <1>0, OpRecord DEF dat_add_payload_sample, PayloadType
  <1>2. PICK a : a = Address(op.p, idx[op.p])
    OBVIOUS
  <1>3. taken \in Nat /\ \A p \in P : idx[p] \in Nat
    BY <1>0 DEF PayloadType
  <1>4. op.left >= 1
    BY <1>0, <1>1 DEF Counts
  <1>5. CASE a = -1
    <2>1. op' = Added /\ UNCHANGED <<mem, over>>
      BY <1>2, <1>5 DEF dat_add_payload_sample
    <2>2. \/ op' = [pc |-> "ready", p |-> 0, left |-> 0] /\ op' = Ready
          \/ op' = [pc |-> "add", p |-> op.p, left |-> op.left - 1] /\ op.left - 1 >= 1 /\ op.left - 1 \in Nat
      BY <1>0, <1>4, <2>1, AddedType, ReadyType
    <2>6. /\ op' \in PayloadOps
          /\ op'.pc = "ready" => op' = Ready
      BY <1>1, <2>2, ReadyType DEF PayloadOps, PayloadPcs
    <2>3. PayloadType'
      BY <1>0, <1>1, <1>3, <2>1, <2>6 DEF PayloadType
    <2>4. op'.pc \in {"ready", "add"}
      BY <2>2
    <2>5. Counts'
      <3>1. CASE op' = [pc |-> "ready", p |-> 0, left |-> 0]
        BY <1>1, <1>3, <1>4, <3>1 DEF Counts
      <3>2. CASE op' = [pc |-> "add", p |-> op.p, left |-> op.left - 1] /\ op.left - 1 >= 1
        BY <1>1, <1>3, <1>4, <3>2 DEF Counts
      <3> QED BY <2>2, <3>1, <3>2
    <2> QED BY <1>1, <2>1, <2>3, <2>4, <2>5 DEF PayloadNums
  <1>6. CASE a # -1
    <2>1. /\ mem' = Store(op.p, a, taken + 1) /\ op' = [op EXCEPT !.pc = "index"]
          /\ over' = (over \/ (build # "sqlite" /\ a \div (Sections * SectionSize) # op.p))
      BY <1>2, <1>6 DEF dat_add_payload_sample
    <2>2. op' = [pc |-> "index", p |-> op.p, left |-> op.left]
      BY <1>0, <2>1, OpRecord
    <2>3. a \in Nat /\ SampleSize[op.p] \in Nat
      BY <1>0, <1>1, <1>2, <1>6, AddressNat, SampleFits DEF PayloadType
    <2>4. mem' \subseteq Cell
      <3>1. mem \subseteq Cell
        BY <1>0 DEF PayloadType, Cell
      <3>2. Store(op.p, a, taken + 1) \subseteq Cell
        BY <1>3, <2>3, <3>1 DEF Store, StoreRam, StoreFlash, StoreRow, Overwritten, Cell
      <3> QED BY <2>1, <3>2
    <2>5. over' \in BOOLEAN
      BY <2>1
    <2>6. PayloadType'
      BY <1>0, <1>1, <1>3, <2>2, <2>4, <2>5 DEF PayloadType, Cell, PayloadOps, PayloadPcs
    <2>7. Counts'
      BY <1>1, <1>3, <1>4, <2>2 DEF Counts
    <2> QED BY <1>1, <1>2, <1>6, <2>1, <2>2, <2>6, <2>7 DEF PayloadNums
  <1> QED BY <1>5, <1>6

LEMMA NumsAddIndex ==
    ASSUME PayloadNums, AddIndex
    PROVE  /\ PayloadNums' /\ UNCHANGED <<build, mem, ack, taken, doubt, over, sent>> /\ op.pc = "index"
           /\ op'.pc \in {"ready", "add"}
           /\ idx' = [idx EXCEPT ![op.p] = idx[op.p] + 1]
           /\ good' = [good EXCEPT ![op.p] = Append(good[op.p], taken)]
  <1>0. PayloadType /\ Counts
    BY DEF PayloadNums
  <1>1. /\ op.pc = "index" /\ UNCHANGED <<build, mem, ack, taken, doubt, over, sent>>
        /\ op.p \in P /\ idx[op.p] \in Nat /\ op.left \in Nat /\ op' = Added
        /\ idx' = [idx EXCEPT ![op.p] = idx[op.p] + 1]
        /\ good' = [good EXCEPT ![op.p] = Append(good[op.p], taken)]
    BY <1>0, OpRecord DEF AddIndex, PayloadType
  <1>3. taken \in Nat /\ \A p \in P : idx[p] \in Nat /\ good[p] \in Seq(Nat) /\ Len(good[p]) = idx[p]
    BY <1>0 DEF PayloadType
  <1>4. op.left >= 1
    BY <1>0, <1>1 DEF Counts
  <1>5. \/ op' = [pc |-> "ready", p |-> 0, left |-> 0] /\ op' = Ready
        \/ op' = [pc |-> "add", p |-> op.p, left |-> op.left - 1] /\ op.left - 1 >= 1 /\ op.left - 1 \in Nat
    BY <1>0, <1>1, <1>4, AddedType, ReadyType
  <1>6. /\ op' \in PayloadOps
        /\ op'.pc = "ready" => op' = Ready
    BY <1>1, <1>5, ReadyType DEF PayloadOps, PayloadPcs
  <1>7. /\ idx' \in [P -> Nat] /\ \A p \in P : idx'[p] = IF p = op.p THEN idx[p] + 1 ELSE idx[p]
    BY <1>0, <1>1 DEF PayloadType
  <1>8. /\ good' \in [P -> Seq(Nat)]
        /\ \A p \in P : good'[p] = IF p = op.p THEN Append(good[p], taken) ELSE good[p]
    BY <1>0, <1>1, <1>3 DEF PayloadType
  <1>9. \A p \in P : Len(good'[p]) = idx'[p]
    BY SMTT(60), <1>3, <1>7, <1>8
  <1>10. PayloadType'
    BY <1>0, <1>1, <1>6, <1>7, <1>8, <1>9 DEF PayloadType
  <1>11. Counts'
    <2>2. CASE op' = [pc |-> "ready", p |-> 0, left |-> 0]
      BY <1>1, <2>2 DEF Counts
    <2>3. CASE op' = [pc |-> "add", p |-> op.p, left |-> op.left - 1] /\ op.left - 1 >= 1
      BY <1>1, <2>3 DEF Counts
    <2> QED BY <1>5, <2>2, <2>3
  <1>12. op'.pc \in {"ready", "add"}
    BY <1>5
  <1> QED BY <1>1, <1>10, <1>11, <1>12 DEF PayloadNums

(* What it means to write an index, or an acknowledge.                     *)
LEMMA IndexWritten ==
    ASSUME PayloadType, NEW p \in P, NEW k \in Nat, WriteIndex(p, k)
    PROVE  /\ idx' \in [P -> Nat] /\ \A q \in P : idx'[q] = IF q = p THEN k ELSE idx[q]
           /\ good' \in [P -> Seq(Nat)] /\ \A q \in P : Len(good'[q]) = idx'[q]
           /\ \A q \in P : q # p => good'[q] = good[q]
           /\ \A i \in Nat : i < k /\ i < idx[p] => good'[p][i + 1] = good[p][i + 1]
           /\ doubt' \subseteq P \X Int /\ doubt \subseteq doubt'
           /\ \A i \in Nat : (i < k) # (i < idx[p]) => <<p, i>> \in doubt'
           /\ k < ack[p] => <<p, -1>> \in doubt'
  <1> DEFINE g == [i \in 1 .. k |-> IF i <= idx[p] THEN good[p][i] ELSE 0]
  <1>0. idx[p] \in Nat /\ ack[p] \in Nat /\ good[p] \in Seq(Nat) /\ Len(good[p]) = idx[p]
    BY DEF PayloadType
  <1>1. idx' \in [P -> Nat] /\ \A q \in P : idx'[q] = IF q = p THEN k ELSE idx[q]
    BY DEF WriteIndex, PayloadType
  <1>2. g \in Seq(Nat) /\ Len(g) = k /\ \A i \in Nat : i < k /\ i < idx[p] => g[i + 1] = good[p][i + 1]
    <2>1. \A i \in 1 .. k : g[i] \in Nat
      BY <1>0
    <2>2. \A i \in Nat : i < k /\ i < idx[p] => i + 1 \in 1 .. k /\ i + 1 <= idx[p]
      BY <1>0
    <2> QED BY <2>1, <2>2
  <1> HIDE DEF g
  <1>3. good' = [good EXCEPT ![p] = g]
    BY DEF WriteIndex, g
  <1>4. good'[p] = g /\ (\A q \in P : q # p => good'[q] = good[q]) /\ good' \in [P -> Seq(Nat)]
    BY <1>2, <1>3 DEF PayloadType
  <1>5. \A q \in P : Len(good'[q]) = idx'[q]
    BY <1>1, <1>2, <1>4 DEF PayloadType
  <1>6. doubt \subseteq doubt' /\ (k < ack[p] => <<p, -1>> \in doubt')
    BY DEF WriteIndex
  <1>7. doubt' \subseteq P \X Int
    BY <1>0 DEF WriteIndex, Places, Least, Greatest, PayloadType
  <1>8. ASSUME NEW i \in Nat, (i < k) # (i < idx[p])
        PROVE  <<p, i>> \in doubt'
    <2>1. i \in Least(k, idx[p]) .. Greatest(k, idx[p]) - 1
      BY <1>0, <1>8 DEF Least, Greatest
    <2> QED BY <2>1 DEF WriteIndex, Places
  <1> QED BY <1>1, <1>2, <1>4, <1>5, <1>6, <1>7, <1>8

LEMMA AckWritten ==
    ASSUME PayloadType, NEW p \in P, NEW k \in Nat, WriteAck(p, k)
    PROVE  /\ ack' \in [P -> Nat] /\ \A q \in P : ack'[q] = IF q = p THEN k ELSE ack[q]
           /\ doubt' \subseteq P \X Int
           /\ \A t \in doubt : t # <<p, -1>> => t \in doubt'
           /\ k <= idx[p] \/ <<p, -1>> \in doubt'
  <1>1. idx[p] \in Nat
    BY DEF PayloadType
  <1> QED BY <1>1 DEF WriteAck, PayloadType

(* A step of ResetIndex: the next payload, or the acknowledges.            *)
LEMMA ResetIndexStep ==
    ASSUME PayloadType, ResetIndex
    PROVE  /\ op.p \in P /\ op.left \in Nat /\ WriteIndex(op.p, 0) /\ op.pc = "resetIndex"
           /\ UNCHANGED <<build, mem, ack, taken, over, sent>>
           /\ \/ /\ op' = [pc |-> "resetAck", p |-> 0, left |-> op.left]
                 /\ 0 \in P /\ \A q \in P : q = op.p \/ q < op.p
              \/ op' = [pc |-> "resetIndex", p |-> op.p + 1, left |-> op.left] /\ op.p + 1 \in P
  <1>1. /\ op.p \in P /\ op.left \in Nat /\ WriteIndex(op.p, 0) /\ op.pc = "resetIndex"
        /\ UNCHANGED <<build, mem, ack, taken, over, sent>>
    BY OpRecord DEF ResetIndex
  <1>2. CASE IsLast(op.p)
    <2>1. op' = [pc |-> "resetAck", p |-> 0, left |-> op.left]
      BY <1>2 DEF ResetIndex
    <2>2. \A q \in P : q = op.p \/ q < op.p
      BY <1>1, <1>2, Sizes DEF IsLast, P
    <2> QED BY <1>1, <2>1, <2>2, ReadyType
  <1>3. CASE ~IsLast(op.p)
    <2>1. op.p + 1 \in P
      BY <1>1, <1>3, Sizes DEF IsLast, P
    <2>2. op' = [pc |-> "resetIndex", p |-> op.p + 1, left |-> op.left]
      BY <1>3 DEF ResetIndex
    <2> QED BY <1>1, <2>1, <2>2
  <1> QED BY <1>2, <1>3

LEMMA ResetAckStep ==
    ASSUME PayloadType, ResetAck
    PROVE  /\ op.p \in P /\ op.left \in Nat /\ WriteAck(op.p, 0) /\ op.pc = "resetAck"
           /\ UNCHANGED <<build, mem, idx, taken, good, over, sent>>
           /\ \/ op' = [pc |-> "resetAck", p |-> op.p + 1, left |-> op.left] /\ op.p + 1 \in P
              \/ op' = [pc |-> "erase", p |-> op.p, left |-> op.left]
              \/ op' = [pc |-> "ready", p |-> 0, left |-> 0] /\ op' = Ready /\ 0 \in P
  <1>1. /\ op.p \in P /\ op.left \in Nat /\ WriteAck(op.p, 0) /\ op.pc = "resetAck"
        /\ UNCHANGED <<build, mem, idx, taken, good, over, sent>>
    BY OpRecord DEF ResetAck
  <1>2. CASE ~IsLast(op.p)
    <2>1. op' = [pc |-> "resetAck", p |-> op.p + 1, left |-> op.left]
      BY <1>2 DEF ResetAck
    <2>2. op.p + 1 \in P
      BY <1>1, <1>2, Sizes DEF IsLast, P
    <2> QED BY <1>1, <2>1, <2>2
  <1>3. CASE IsLast(op.p) /\ op.left = 1
    <2>1. op' = [pc |-> "erase", p |-> op.p, left |-> op.left]
      BY <1>3 DEF ResetAck
    <2> QED BY <1>1, <2>1
  <1>4. CASE IsLast(op.p) /\ op.left # 1
    <2>1. op' = Ready
      BY <1>4 DEF ResetAck
    <2> QED BY <1>1, <2>1, ReadyType
  <1> QED BY <1>2, <1>3, <1>4

(* The other commands leave the types and the counts alone.                *)
LEMMA NumsOther ==
    ASSUME PayloadNums,
           \/ Quiet
           \/ \E p \in P, n \in 1 .. 2 : tm_parse_payload(p, n)
           \/ \E p \in P : dat_delete_payload(p)
           \/ \E p \in P, k \in {0, 2} : drp_update_sys_var_idx(p, k)
           \/ \E n \in 0 .. 1 : ResetVars(n)
           \/ ZeroIndex \/ ZeroAck \/ ResetIndex \/ ResetAck \/ dat_delete_memory_sections
           \/ RestartPayload
    PROVE  PayloadNums'
  <1>0. PayloadType /\ Counts
    BY DEF PayloadNums
  <1>1. taken \in Nat /\ \A p \in P : idx[p] \in Nat /\ ack[p] \in Nat
    BY <1>0 DEF PayloadType
  <1>2. CASE Quiet
    <2>1. Ready.pc = "ready"
      BY ReadyType
    <2> QED BY <1>0, <1>2, <2>1 DEF Quiet, PayloadNums, PayloadType, Counts
  <1>3. ASSUME NEW p \in P, NEW n \in 1 .. 2, tm_parse_payload(p, n)
        PROVE  PayloadNums'
    <2>1. /\ op' = [pc |-> "add", p |-> p, left |-> n] /\ n \in Nat
          /\ UNCHANGED <<build, mem, idx, ack, taken, good, doubt, over>>
      BY <1>3 DEF tm_parse_payload
    <2>2. PayloadType'
      BY <1>0, <2>1 DEF PayloadType, PayloadOps, PayloadPcs
    <2>3. Counts'
      BY <2>1 DEF Counts
    <2> QED BY <2>2, <2>3 DEF PayloadNums
  <1>4. ASSUME NEW p \in P, dat_delete_payload(p)
        PROVE  PayloadNums'
    <2>1. /\ op' = [pc |-> "zeroIndex", p |-> p, left |-> 0] /\ mem' \subseteq mem
          /\ UNCHANGED <<build, idx, ack, taken, good, over>>
          /\ doubt' = doubt \cup Places(p, 0, idx[p])
      BY <1>4 DEF dat_delete_payload
    <2>2. doubt' \subseteq P \X Int
      BY <1>0, <1>1, <2>1 DEF PayloadType, Places
    <2>3. PayloadType'
      BY <1>0, <2>1, <2>2 DEF PayloadType, PayloadOps, PayloadPcs
    <2>4. Counts'
      BY <2>1 DEF Counts
    <2> QED BY <2>3, <2>4 DEF PayloadNums
  <1>5. CASE ZeroIndex
    <2>1. /\ op' = [pc |-> "zeroAck", p |-> op.p, left |-> op.left] /\ op.p \in P /\ op.left \in Nat
          /\ idx' = [idx EXCEPT ![op.p] = 0] /\ good' = [good EXCEPT ![op.p] = <<>>]
          /\ doubt' \subseteq doubt \cup {<<op.p, -1>>} /\ UNCHANGED <<build, mem, ack, taken, over>>
      BY <1>0, <1>5, OpRecord DEF ZeroIndex
    <2>2. idx' \in [P -> Nat] /\ \A p \in P : idx'[p] = IF p = op.p THEN 0 ELSE idx[p]
      BY <1>0, <2>1 DEF PayloadType
    <2>3. <<>> \in Seq(Nat) /\ Len(<<>>) = 0
      OBVIOUS
    <2>4. good' \in [P -> Seq(Nat)] /\ \A p \in P : good'[p] = IF p = op.p THEN <<>> ELSE good[p]
      BY <1>0, <2>1, <2>3 DEF PayloadType
    <2>5. \A p \in P : Len(good'[p]) = idx'[p]
      BY <1>0, <2>2, <2>3, <2>4 DEF PayloadType
    <2>8. doubt' \subseteq P \X Int
      BY <1>0, <2>1 DEF PayloadType
    <2>6. PayloadType'
      BY <1>0, <2>1, <2>2, <2>4, <2>5, <2>8 DEF PayloadType, PayloadOps, PayloadPcs
    <2>7. Counts'
      BY <2>1 DEF Counts
    <2> QED BY <2>6, <2>7 DEF PayloadNums
  <1>6. CASE ZeroAck
    <2>1. /\ op' = Ready /\ op' = [pc |-> "ready", p |-> 0, left |-> 0] /\ 0 \in P
          /\ op.p \in P /\ WriteAck(op.p, 0)
          /\ UNCHANGED <<build, mem, idx, good, taken, over>>
      BY <1>0, <1>6, OpRecord, ReadyType DEF ZeroAck
    <2>2. ack' \in [P -> Nat] /\ doubt' \subseteq P \X Int
      BY <1>0, <2>1, AckWritten
    <2>4. op' \in PayloadOps
      BY <2>1 DEF PayloadOps, PayloadPcs
    <2>5. PayloadType'
      BY <1>0, <2>1, <2>2, <2>4 DEF PayloadType
    <2>3. Counts'
      BY <2>1 DEF Counts
    <2> QED BY <2>5, <2>3 DEF PayloadNums
  <1>7. ASSUME NEW n \in 0 .. 1, ResetVars(n)
        PROVE  PayloadNums'
    <2>1. /\ op' = [pc |-> "resetIndex", p |-> 0, left |-> n] /\ 0 \in P /\ n \in Nat
          /\ UNCHANGED <<build, mem, idx, ack, taken, good, doubt, over>>
      BY <1>7, ReadyType DEF ResetVars
    <2>2. PayloadType'
      BY <1>0, <2>1 DEF PayloadType, PayloadOps, PayloadPcs
    <2>3. \A q \in P : ~(q < 0)
      BY DEF P
    <2>4. Counts'
      BY <2>1, <2>3 DEF Counts
    <2> QED BY <2>2, <2>4 DEF PayloadNums
  <1>8. CASE ResetIndex
    <2>1. /\ op.p \in P /\ op.left \in Nat /\ WriteIndex(op.p, 0) /\ op.pc = "resetIndex"
          /\ UNCHANGED <<build, mem, ack, taken, over, sent>>
          /\ \/ /\ op' = [pc |-> "resetAck", p |-> 0, left |-> op.left]
                /\ 0 \in P /\ \A q \in P : q = op.p \/ q < op.p
             \/ op' = [pc |-> "resetIndex", p |-> op.p + 1, left |-> op.left] /\ op.p + 1 \in P
      BY <1>0, <1>8, ResetIndexStep
    <2>2. /\ idx' \in [P -> Nat] /\ \A q \in P : idx'[q] = IF q = op.p THEN 0 ELSE idx[q]
          /\ good' \in [P -> Seq(Nat)] /\ \A q \in P : Len(good'[q]) = idx'[q]
          /\ doubt' \subseteq P \X Int
      BY ZenonT(60), <1>0, <2>1, IndexWritten
    <2>3. op' \in PayloadOps /\ op'.pc # "ready"
      BY <2>1 DEF PayloadOps, PayloadPcs
    <2>4. PayloadType'
      BY <1>0, <2>1, <2>2, <2>3 DEF PayloadType
    <2>5. \A q \in P : q < op.p \/ q = op.p => idx'[q] = 0
      BY <1>0, <2>1, <2>2 DEF Counts
    <2>6. \A q \in P : q < op.p + 1 => q < op.p \/ q = op.p
      BY <2>1 DEF P
    <2>7. Counts'
      BY <2>1, <2>5, <2>6 DEF Counts
    <2> QED BY <2>4, <2>7 DEF PayloadNums
  <1>9. CASE ResetAck
    <2>1. /\ op.p \in P /\ op.left \in Nat /\ WriteAck(op.p, 0) /\ op.pc = "resetAck"
          /\ UNCHANGED <<build, mem, idx, taken, good, over, sent>>
          /\ \/ op' = [pc |-> "resetAck", p |-> op.p + 1, left |-> op.left] /\ op.p + 1 \in P
             \/ op' = [pc |-> "erase", p |-> op.p, left |-> op.left]
             \/ op' = [pc |-> "ready", p |-> 0, left |-> 0] /\ op' = Ready /\ 0 \in P
      BY <1>0, <1>9, ResetAckStep
    <2>2. ack' \in [P -> Nat] /\ doubt' \subseteq P \X Int
      BY <1>0, <2>1, AckWritten
    <2>3. op' \in PayloadOps /\ (op'.pc = "ready" => op' = Ready)
      BY <2>1 DEF PayloadOps, PayloadPcs
    <2>4. PayloadType'
      BY <1>0, <2>1, <2>2, <2>3 DEF PayloadType
    <2>5. Counts'
      BY <1>0, <2>1 DEF Counts
    <2> QED BY <2>4, <2>5 DEF PayloadNums
  <1>10. CASE dat_delete_memory_sections
    <2>1. /\ op' = Ready /\ op' = [pc |-> "ready", p |-> 0, left |-> 0] /\ 0 \in P
          /\ mem' \subseteq mem /\ doubt' \subseteq doubt /\ over' = FALSE /\ idx' = [p \in P |-> 0]
          /\ UNCHANGED <<build, ack, taken, good>> /\ \A p \in P : idx[p] = 0
      BY <1>0, <1>10, ReadyType DEF dat_delete_memory_sections, AllErased, Counts
    <2>2. idx' \in [P -> Nat] /\ \A p \in P : Len(good'[p]) = idx'[p]
      BY <1>0, <2>1 DEF PayloadType
    <2>3. op' \in PayloadOps
      BY <2>1 DEF PayloadOps, PayloadPcs
    <2>5. UNCHANGED <<build, ack, taken, good>> /\ mem' \subseteq mem /\ doubt' \subseteq doubt
          /\ over' = FALSE /\ op' = Ready
      BY <2>1
    <2>4. PayloadType'
      BY <1>0, <2>2, <2>3, <2>5 DEF PayloadType
    <2>6. Counts'
      BY <2>1 DEF Counts
    <2> QED BY <2>4, <2>6 DEF PayloadNums
  <1>11. CASE RestartPayload
    <2>1. /\ op' = Ready /\ op' = [pc |-> "ready", p |-> 0, left |-> 0] /\ 0 \in P
          /\ UNCHANGED <<build, mem, idx, ack, taken, good, over>>
      BY <1>11, ReadyType DEF RestartPayload
    <2>2. doubt' \subseteq P \X Int
      <3>1. op.p \in P /\ idx[op.p] \in Nat
        BY <1>0, OpRecord DEF PayloadType
      <3> QED BY <1>0, <1>11, <3>1 DEF RestartPayload, PayloadType
    <2>3. op' \in PayloadOps
      BY <2>1 DEF PayloadOps, PayloadPcs
    <2>4. PayloadType'
      BY <1>0, <2>1, <2>2, <2>3 DEF PayloadType
    <2>5. Counts'
      BY <2>1 DEF Counts
    <2> QED BY <2>4, <2>5 DEF PayloadNums
  <1>12. ASSUME NEW p \in P, NEW k \in {0, 2}, drp_update_sys_var_idx(p, k)
         PROVE  PayloadNums'
    <2>1. /\ op = Ready /\ UNCHANGED <<build, mem, op, taken, over>> /\ k \in Nat
          /\ (WriteIndex(p, k) /\ UNCHANGED ack) \/ (WriteAck(p, k) /\ UNCHANGED <<idx, good>>)
      BY <1>12 DEF drp_update_sys_var_idx
    <2>2. /\ idx' \in [P -> Nat] /\ good' \in [P -> Seq(Nat)] /\ \A q \in P : Len(good'[q]) = idx'[q]
          /\ ack' \in [P -> Nat] /\ doubt' \subseteq P \X Int
      <3>1. CASE WriteIndex(p, k) /\ UNCHANGED ack
        BY <1>0, <2>1, <3>1, IndexWritten DEF PayloadType
      <3>2. CASE WriteAck(p, k) /\ UNCHANGED <<idx, good>>
        BY <1>0, <2>1, <3>2, AckWritten DEF PayloadType
      <3> QED BY <2>1, <3>1, <3>2
    <2>3. PayloadType'
      BY <1>0, <2>1, <2>2 DEF PayloadType
    <2>4. Counts'
      BY <2>1, ReadyType DEF Counts
    <2> QED BY <2>3, <2>4 DEF PayloadNums
  <1> QED BY <1>2, <1>3, <1>4, <1>5, <1>6, <1>7, <1>8, <1>9, <1>10, <1>11, <1>12

--------------------------------------------------------------------------------
(* The samples in memory *)

MemInv == CellsHome /\ GoodHeld /\ NewHeld /\ Emptied

LEMMA SameBuild ==
    ASSUME UNCHANGED build
    PROVE  /\ \A p, i : Address(p, i)' = Address(p, i) /\ (Own(p, i)' <=> Own(p, i))
           /\ \A p : CellSize(p)' = CellSize(p)
           /\ \A a : Zone(a)' = Zone(a)
           /\ \A c : Outside(c)' <=> Outside(c)
  <1>1. ASSUME NEW p, NEW i PROVE Address(p, i)' = Address(p, i)
    BY DEF Address
  <1>2. ASSUME NEW a PROVE Zone(a)' = Zone(a)
    BY DEF Zone
  <1>3. ASSUME NEW p, NEW i PROVE Own(p, i)' <=> Own(p, i)
    BY <1>1, <1>2 DEF Own
  <1>4. ASSUME NEW p PROVE CellSize(p)' = CellSize(p)
    BY DEF CellSize
  <1>5. ASSUME NEW c PROVE Outside(c)' <=> Outside(c)
    BY DEF Outside
  <1> QED BY <1>1, <1>2, <1>3, <1>4, <1>5

(* The memory and the indices stay, and the samples in doubt stay in it.   *)
LEMMA SameMem ==
    ASSUME MemInv, UNCHANGED <<build, mem, over, idx, good>>,
           op'.pc \notin {"index", "zeroIndex"},
           \A q \in P, j \in Nat : Live(q, j) => Live(q, j)',
           \A p \in P : \A i \in 0 .. idx[p] - 1 : <<p, i>> \in doubt => <<p, i>> \in doubt'
    PROVE  MemInv'
  <1>1. CellsHome'
    <2> SUFFICES ASSUME ~over', NEW c \in mem'
                 PROVE  Outside(c)' \/ \E q \in P, j \in Nat : Home(c, q, j)'
      BY DEF CellsHome
    <2>1. Outside(c) \/ \E q \in P, j \in Nat : Home(c, q, j)
      BY DEF MemInv, CellsHome
    <2>2. CASE Outside(c)
      BY <2>2, SameBuild
    <2>3. CASE \E q \in P, j \in Nat : Home(c, q, j)
      <3>1. PICK q \in P, j \in Nat : Home(c, q, j)
        BY <2>3
      <3>2. c.at = Address(q, j)' /\ c.size = CellSize(q)' /\ Own(q, j)' /\ Live(q, j)'
        BY <3>1, SameBuild DEF Home
      <3>3. Home(c, q, j)'
        BY <3>2 DEF Home
      <3> QED BY <3>3
    <2> QED BY <2>1, <2>2, <2>3
  <1>2. \A p, i : HeldGood(p, i)' <=> HeldGood(p, i)
    BY SameBuild DEF HeldGood, Found
  <1>3. GoodHeld'
    <2> SUFFICES ASSUME ~over', NEW p \in P, NEW i \in 0 .. idx'[p] - 1
                 PROVE  <<p, i>> \in doubt' \/ HeldGood(p, i)'
      BY DEF GoodHeld
    <2>1. <<p, i>> \in doubt \/ HeldGood(p, i)
      BY DEF MemInv, GoodHeld
    <2> QED BY <1>2, <2>1
  <1>4. NewHeld' /\ Emptied'
    BY DEF NewHeld, Emptied
  <1> QED BY <1>1, <1>3, <1>4 DEF MemInv

(* A cell in memory keeps clear of a place, unless that is in doubt.       *)
LEMMA CellClear ==
    ASSUME PayloadNums, MemInv, ~over, op.pc = "add", NEW p \in P, NEW i \in Nat, i = idx[p], Own(p, i),
           NEW c \in mem
    PROVE  \/ c.at # Address(p, i) /\ Apart(c, Address(p, i), CellSize(p))
           \/ c.at = Address(p, i) /\ <<p, i>> \in doubt
  <1>0. build \in {"ram", "flash", "sqlite"} /\ c.at \in Nat /\ c.size \in Nat
    BY DEF PayloadNums, PayloadType
  <1>1. Address(p, i) \in Nat /\ CellSize(p) \in Nat \ {0}
    BY <1>0, AddressNat, CellSizeNat DEF Own
  <1>2. CASE Outside(c)
    <2>1. build = "flash" /\ c.at >= Limit
      BY <1>2 DEF Outside
    <2>2. Address(p, i) + SampleSize[p] <= p * Room + Room /\ p * Room + Room <= Limit
      BY <2>1, Within, Bytes
    <2>3. CellSize(p) = SampleSize[p]
      BY <2>1 DEF CellSize
    <2>4. PICK m \in Nat, l \in Nat : m = p * Room + Room /\ l = Limit
      <3>1. p * Room + Room \in Nat /\ Limit \in Nat
        BY Bytes, Sizes DEF Limit
      <3> QED BY <3>1
    <2>5. Address(p, i) + CellSize(p) <= c.at
      BY <1>0, <1>1, <2>1, <2>2, <2>3, <2>4
    <2> QED BY <1>0, <1>1, <2>5 DEF Apart
  <1>3. ASSUME NEW q \in P, NEW j \in Nat, Home(c, q, j)
        PROVE  \/ c.at # Address(p, i) /\ Apart(c, Address(p, i), CellSize(p))
               \/ c.at = Address(p, i) /\ <<p, i>> \in doubt
    <2>0. j \in Nat /\ c.at = Address(q, j) /\ c.size = CellSize(q) /\ Own(q, j) /\ Live(q, j)
      BY <1>3 DEF Home
    <2>1. CASE p # q \/ i # j
      <3>1. \/ Address(p, i) + CellSize(p) <= Address(q, j)
            \/ Address(q, j) + CellSize(q) <= Address(p, i)
        BY <1>0, <2>0, <2>1, Clear
      <3>2. CellSize(q) \in Nat \ {0}
        BY CellSizeNat
      <3> QED BY <1>0, <1>1, <2>0, <3>1, <3>2 DEF Apart
    <2>2. CASE p = q /\ i = j
      BY <2>0, <2>2 DEF Live
    <2> QED BY <2>1, <2>2
  <1>4. Outside(c) \/ \E q \in P, j \in Nat : Home(c, q, j)
    BY DEF MemInv, CellsHome
  <1> QED BY <1>2, <1>3, <1>4

LEMMA StoreCell ==
    ASSUME PayloadNums, build \in {"ram", "flash", "sqlite"}, NEW p \in P, NEW a \in Nat, NEW v \in Nat
    PROVE  \E new : /\ new.at = a /\ new.size = CellSize(p)
                    /\ \E kept : /\ kept = mem \/ kept = {c \in mem : Apart(c, a, CellSize(p))}
                                 /\ Store(p, a, v) = kept \cup {new} /\ (kept = mem => new.v = v)
  <1>1. CASE build = "sqlite"
    <2> DEFINE new == [at |-> a, size |-> 1, v |-> v]
    <2>1. Store(p, a, v) = mem \cup {new} /\ CellSize(p) = 1
      BY <1>1 DEF Store, StoreRow, CellSize
    <2>2. new.at = a /\ new.size = 1 /\ new.v = v
      OBVIOUS
    <2> HIDE DEF new
    <2> QED BY <2>1, <2>2
  <1>2. CASE build = "ram"
    <2> DEFINE kept == {c \in mem : Apart(c, a, CellSize(p))}
               new == [at |-> a, size |-> SampleSize[p], v |-> v]
    <2>1. Store(p, a, v) = kept \cup {new} /\ CellSize(p) = SampleSize[p]
      BY <1>2 DEF Store, StoreRam, Overwritten, CellSize
    <2>2. new.at = a /\ new.size = SampleSize[p] /\ new.v = v
      OBVIOUS
    <2> HIDE DEF new
    <2> QED BY <2>1, <2>2
  <1>3. CASE build = "flash"
    <2> DEFINE kept == {c \in mem : Apart(c, a, CellSize(p))}
               new == [at |-> a, size |-> SampleSize[p], v |-> IF kept = mem THEN v ELSE 0]
    <2>1. Store(p, a, v) = kept \cup {new} /\ CellSize(p) = SampleSize[p]
      BY <1>3 DEF Store, StoreFlash, Overwritten, CellSize
    <2>2. new.at = a /\ new.size = SampleSize[p] /\ (kept = mem => new.v = v)
      OBVIOUS
    <2> HIDE DEF new
    <2> QED BY <2>1, <2>2
  <1> QED BY <1>1, <1>2, <1>3

LEMMA MemStore ==
    ASSUME PayloadNums, MemInv, op.pc = "add", UNCHANGED <<build, idx, good, doubt>>, taken' = taken + 1,
           op' = [pc |-> "index", p |-> op.p, left |-> op.left],
           Address(op.p, idx[op.p]) # -1,
           mem' = Store(op.p, Address(op.p, idx[op.p]), taken + 1),
           over' = (over \/ (build # "sqlite" /\ Address(op.p, idx[op.p]) \div (Sections * SectionSize) # op.p))
    PROVE  MemInv'
  <1>1. CASE over'
    BY <1>1 DEF MemInv, CellsHome, GoodHeld, NewHeld, Emptied
  <1>2. CASE ~over'
    <2>0. /\ build \in {"ram", "flash", "sqlite"} /\ taken \in Nat
          /\ op'.pc = "index" /\ op'.p = op.p
      BY DEF PayloadNums, PayloadType
    <2>1. PICK p \in P, i \in Nat : p = op.p /\ i = idx[p]
      BY OpRecord DEF PayloadNums, PayloadType
    <2>2. ~over /\ Own(p, i)
      <3>1. ~over /\ (build = "sqlite" \/ Address(p, i) \div Room = p)
        BY <1>2, <2>1 DEF Room
      <3>2. Zone(Address(p, i)) = p
        BY <2>0, <3>1, AddressRow DEF Zone
      <3> QED BY <2>1, <3>1, <3>2 DEF Own
    <2>3. PICK a \in Nat : a = Address(p, i)
      BY <2>0, <2>2, AddressNat DEF Own
    <2>4. PICK new, kept :
              /\ new.at = a /\ new.size = CellSize(p)
              /\ kept = mem \/ kept = {c \in mem : Apart(c, a, CellSize(p))}
              /\ mem' = kept \cup {new} /\ (kept = mem => new.v = taken + 1)
      <3>1. taken + 1 \in Nat /\ mem' = Store(p, a, taken + 1)
        BY <2>0, <2>1, <2>3
      <3>2. PICK new : /\ new.at = a /\ new.size = CellSize(p)
                    /\ \E kept : /\ kept = mem \/ kept = {c \in mem : Apart(c, a, CellSize(p))}
                                 /\ Store(p, a, taken + 1) = kept \cup {new} /\ (kept = mem => new.v = taken + 1)
        BY ZenonT(60), <2>0, <3>1, StoreCell
      <3> QED BY <3>1, <3>2, Zenon
    <2>5. \A c \in mem : (c.at # a /\ Apart(c, a, CellSize(p))) \/ (c.at = a /\ <<p, i>> \in doubt)
      BY <2>1, <2>2, <2>3, CellClear
    <2>6. CellSize(p) \in Nat \ {0}
      BY CellSizeNat
    <2>7. CellsHome'
      <3> SUFFICES ASSUME NEW c \in mem'
                   PROVE  Outside(c)' \/ \E q \in P, j \in Nat : Home(c, q, j)'
        BY DEF CellsHome
      <3>1. CASE c = new
        <4>1. Live(p, i)'
          BY <2>0, <2>1 DEF Live
        <4>2. c.at = Address(p, i)' /\ c.size = CellSize(p)' /\ Own(p, i)'
          BY <2>2, <2>3, <2>4, <3>1, SameBuild
        <4>3. Home(c, p, i)'
          BY <4>1, <4>2 DEF Home
        <4> QED BY <4>3
      <3>2. CASE c \in mem
        <4>1. Outside(c) \/ \E q \in P, j \in Nat : Home(c, q, j)
          BY <2>2, <3>2 DEF MemInv, CellsHome
        <4>2. CASE Outside(c)
          BY <4>2, SameBuild
        <4>3. ASSUME NEW q \in P, NEW j \in Nat, Home(c, q, j) PROVE Home(c, q, j)'
          <5>1. Live(q, j)'
            BY <4>3 DEF Home, Live
          <5>2. c.at = Address(q, j)' /\ c.size = CellSize(q)' /\ Own(q, j)'
            BY <4>3, SameBuild DEF Home
          <5> QED BY <5>1, <5>2 DEF Home
        <4> QED BY <4>1, <4>2, <4>3
      <3> QED BY <2>4, <3>1, <3>2
    <2>8. GoodHeld'
      <3> SUFFICES ASSUME NEW q \in P, NEW k \in 0 .. idx'[q] - 1, <<q, k>> \notin doubt'
                   PROVE  HeldGood(q, k)'
        BY DEF GoodHeld
      <3>0. idx[q] \in Nat /\ k \in Nat /\ k \in 0 .. idx[q] - 1
        BY DEF PayloadNums, PayloadType
      <3>1. HeldGood(q, k)
        BY <2>2, <3>0 DEF MemInv, GoodHeld
      <3>2. PICK c \in mem : c.v = good[q][k + 1] /\ Found(q, k) = {c}
        BY <3>1 DEF HeldGood
      <3>3. Own(q, k) /\ (p # q \/ i # k)
        BY <2>1, <3>0, <3>1 DEF HeldGood
      <3>4. Address(q, k) # a
        <4>1. Address(q, k) \in Nat /\ CellSize(q) \in Nat \ {0}
          BY <2>0, <3>0, <3>3, AddressNat, CellSizeNat DEF Own
        <4>2. a + CellSize(p) <= Address(q, k) \/ Address(q, k) + CellSize(q) <= a
          BY <2>0, <2>2, <2>3, <3>0, <3>3, Clear
        <4> QED BY <2>6, <4>1, <4>2
      <3>5. c.at = Address(q, k) /\ \A d \in mem : d.at = Address(q, k) => d = c
        BY <3>2 DEF Found
      <3>6. c \in mem'
        <4>1. Apart(c, a, CellSize(p))
          BY <2>5, <3>4, <3>5
        <4> QED BY <2>4, <4>1
      <3>7. Found(q, k)' = {c}
        <4>1. Address(q, k)' = Address(q, k)
          BY SameBuild
        <4>2. \A d \in mem' : d.at = Address(q, k) => d = c
          BY <2>4, <3>4, <3>5
        <4>3. Found(q, k)' = {d \in mem' : d.at = Address(q, k)}
          BY <4>1 DEF Found
        <4> QED BY <3>5, <3>6, <4>2, <4>3
      <3> QED BY <3>2, <3>3, <3>6, <3>7, SameBuild DEF HeldGood
    <2>9. NewHeld'
      <3> SUFFICES ASSUME <<p, i>> \notin doubt'
                   PROVE  HeldNew(p, i)'
        BY <2>0, <2>1 DEF NewHeld
      <3>1. \A c \in mem : c.at # a /\ Apart(c, a, CellSize(p))
        BY <2>5
      <3>2. kept = mem
        BY <2>4, <3>1
      <3>3. new.v = taken' /\ new \in mem' /\ new.at = a
        BY <2>4, <3>2
      <3>4. Found(p, i)' = {new}
        <4>1. Found(p, i)' = {d \in mem' : d.at = a}
          BY <2>3, SameBuild DEF Found
        <4> QED BY <2>4, <3>1, <3>2, <3>3, <4>1
      <3>5. Own(p, i)'
        BY <2>2, SameBuild
      <3> QED BY <3>3, <3>4, <3>5 DEF HeldNew
    <2>10. Emptied'
      BY <2>0 DEF Emptied
    <2> QED BY <2>7, <2>8, <2>9, <2>10 DEF MemInv
  <1> QED BY <1>1, <1>2

LEMMA MemAddIndex ==
    ASSUME PayloadNums, MemInv, UNCHANGED <<build, mem, taken, doubt, over>>, op.pc = "index",
           op'.pc \in {"ready", "add"},
           idx' = [idx EXCEPT ![op.p] = idx[op.p] + 1],
           good' = [good EXCEPT ![op.p] = Append(good[op.p], taken)]
    PROVE  MemInv'
  <1>0. PICK p \in P, i \in Nat : p = op.p /\ i = idx[p]
    BY OpRecord DEF PayloadNums, PayloadType
  <1>1. /\ \A q \in P : idx'[q] = IF q = p THEN idx[q] + 1 ELSE idx[q]
        /\ \A q \in P : idx[q] \in Nat /\ good[q] \in Seq(Nat) /\ Len(good[q]) = idx[q] /\ taken \in Nat
    BY <1>0 DEF PayloadNums, PayloadType
  <1>2. \A q \in P : q # p => good'[q] = good[q]
    BY <1>0 DEF PayloadNums, PayloadType
  <1>3. good'[p] = Append(good[p], taken)
    BY <1>0 DEF PayloadNums, PayloadType
  <1>4. good'[p][i + 1] = taken /\ \A k \in 1 .. i : good'[p][k] = good[p][k]
    BY <1>0, <1>1, <1>3
  <1>5. CellsHome'
    <2> SUFFICES ASSUME ~over', NEW c \in mem'
                 PROVE  Outside(c)' \/ \E q \in P, j \in Nat : Home(c, q, j)'
      BY DEF CellsHome
    <2>1. Outside(c) \/ \E q \in P, j \in Nat : Home(c, q, j)
      BY DEF MemInv, CellsHome
    <2>2. CASE Outside(c)
      BY <2>2, SameBuild
    <2>3. ASSUME NEW q \in P, NEW j \in Nat, Home(c, q, j) PROVE Home(c, q, j)'
      <3>1. j < idx[q] \/ <<q, j>> \in doubt \/ (q = p /\ j = i)
        BY <1>0, <2>3 DEF Home, Live
      <3>2. j < idx'[q] \/ <<q, j>> \in doubt'
        BY <1>0, <1>1, <3>1
      <3>3. c.at = Address(q, j)' /\ c.size = CellSize(q)' /\ Own(q, j)'
        BY <2>3, SameBuild DEF Home
      <3> QED BY <3>2, <3>3 DEF Home, Live
    <2> QED BY <2>1, <2>2, <2>3
  <1>6. GoodHeld'
    <2> SUFFICES ASSUME ~over', NEW q \in P, NEW k \in 0 .. idx'[q] - 1, <<q, k>> \notin doubt'
                 PROVE  HeldGood(q, k)'
      BY DEF GoodHeld
    <2>0. k \in Nat /\ Found(q, k)' = Found(q, k) /\ (Own(q, k)' <=> Own(q, k))
      BY <1>1, SameBuild DEF Found
    <2>1. CASE q = p /\ k = i
      <3>1. HeldNew(p, i)
        BY <1>0, <2>1 DEF MemInv, NewHeld
      <3> QED BY <1>4, <2>0, <2>1, <3>1 DEF HeldNew, HeldGood
    <2>2. CASE ~(q = p /\ k = i)
      <3>1. k \in 0 .. idx[q] - 1
        BY <1>0, <1>1, <2>2
      <3>2. HeldGood(q, k)
        BY <3>1 DEF MemInv, GoodHeld
      <3>3. good'[q][k + 1] = good[q][k + 1]
        BY SMTT(60), <1>0, <1>1, <1>2, <1>4, <3>1
      <3> QED BY <2>0, <3>2, <3>3 DEF HeldGood
    <2> QED BY <2>1, <2>2
  <1>7. NewHeld' /\ Emptied'
    BY DEF NewHeld, Emptied
  <1> QED BY <1>5, <1>6, <1>7 DEF MemInv

LEMMA MemDelete ==
    ASSUME PayloadNums, MemInv, NEW p \in P, dat_delete_payload(p)
    PROVE  MemInv'
  <1>0. /\ op.pc = "ready" /\ op'.pc = "zeroIndex" /\ op'.p = p
        /\ UNCHANGED <<build, idx, taken, good, over>>
        /\ doubt' = doubt \cup Places(p, 0, idx[p]) /\ idx[p] \in Nat
    BY ReadyType DEF dat_delete_payload, PayloadNums, PayloadType
  <1>1. \A c \in mem : c.at \in Nat
    BY DEF PayloadNums, PayloadType
  <1>2. mem' \subseteq mem /\ \A c \in mem : c \in mem' <=> Zone(c.at) # p
    <2>1. \A c \in mem : Kept(c, p) <=> Zone(c.at) # p
      BY <1>1, KeptZone DEF PayloadNums, PayloadType
    <2> QED BY <2>1 DEF dat_delete_payload
  <1>3. CellsHome'
    <2> SUFFICES ASSUME ~over', NEW c \in mem'
                 PROVE  Outside(c)' \/ \E q \in P, j \in Nat : Home(c, q, j)'
      BY DEF CellsHome
    <2>1. Outside(c) \/ \E q \in P, j \in Nat : Home(c, q, j)
      BY <1>0, <1>2 DEF MemInv, CellsHome
    <2>2. CASE Outside(c)
      BY <1>0, <2>2, SameBuild
    <2>3. ASSUME NEW q \in P, NEW j \in Nat, Home(c, q, j) PROVE Home(c, q, j)'
      <3>1. Live(q, j)'
        BY <1>0, <2>3 DEF Home, Live
      <3>2. c.at = Address(q, j)' /\ c.size = CellSize(q)' /\ Own(q, j)'
        BY <1>0, <2>3, SameBuild DEF Home
      <3> QED BY <3>1, <3>2 DEF Home
    <2> QED BY <2>1, <2>2, <2>3
  <1>4. GoodHeld'
    <2> SUFFICES ASSUME ~over', NEW q \in P, NEW k \in 0 .. idx'[q] - 1, <<q, k>> \notin doubt'
                 PROVE  HeldGood(q, k)'
      BY DEF GoodHeld
    <2>0. q # p
      BY <1>0 DEF Places
    <2>1. HeldGood(q, k)
      BY <1>0 DEF MemInv, GoodHeld
    <2>2. PICK c \in mem : c.v = good[q][k + 1] /\ Found(q, k) = {c}
      BY <2>1 DEF HeldGood
    <2>3. c.at = Address(q, k) /\ Own(q, k)
      BY <2>1, <2>2 DEF Found, HeldGood
    <2>4. c \in mem'
      BY <1>2, <2>0, <2>3 DEF Own
    <2>5. Address(q, k)' = Address(q, k) /\ Own(q, k)'
      BY <1>0, <2>3, SameBuild
    <2>6. Found(q, k)' = {c}
      BY <1>2, <2>2, <2>3, <2>4, <2>5 DEF Found
    <2> QED BY <1>0, <2>2, <2>4, <2>5, <2>6 DEF HeldGood
  <1>5. NewHeld'
    BY <1>0 DEF NewHeld
  <1>6. Emptied'
    BY <1>0, <1>2, SameBuild DEF Emptied
  <1> QED BY <1>3, <1>4, <1>5, <1>6 DEF MemInv

LEMMA MemZeroIndex ==
    ASSUME PayloadNums, MemInv, ZeroIndex
    PROVE  MemInv'
  <1>0. PICK p \in P : p = op.p
    BY OpRecord DEF PayloadNums
  <1>1. /\ op.pc = "zeroIndex" /\ op'.pc = "zeroAck" /\ UNCHANGED <<build, mem, over>>
        /\ doubt' = {t \in doubt : t[1] # p} \cup {<<p, -1>>}
        /\ \A q \in P : idx'[q] = (IF q = p THEN 0 ELSE idx[q]) /\ idx[q] \in Nat
        /\ \A q \in P : q # p => good'[q] = good[q]
    BY <1>0, OpRecord DEF ZeroIndex, PayloadNums, PayloadType
  <1>2. \A q \in P, j \in Int : q # p => (<<q, j>> \in doubt' <=> <<q, j>> \in doubt)
    BY <1>1
  <1>3. CellsHome'
    <2> SUFFICES ASSUME ~over', NEW c \in mem'
                 PROVE  Outside(c)' \/ \E q \in P, j \in Nat : Home(c, q, j)'
      BY DEF CellsHome
    <2>1. Outside(c) \/ \E q \in P, j \in Nat : Home(c, q, j)
      BY <1>1 DEF MemInv, CellsHome
    <2>2. CASE Outside(c)
      BY <1>1, <2>2, SameBuild
    <2>3. ASSUME NEW q \in P, NEW j \in Nat, Home(c, q, j) PROVE Home(c, q, j)'
      <3>1. q # p
        <4>1. Zone(c.at) = q
          BY <2>3 DEF Home, Own
        <4>2. Zone(c.at) # p
          BY <1>0, <1>1 DEF MemInv, Emptied
        <4> QED BY <4>1, <4>2
      <3>2. Live(q, j)'
        BY <1>1, <1>2, <2>3, <3>1 DEF Home, Live
      <3>3. c.at = Address(q, j)' /\ c.size = CellSize(q)' /\ Own(q, j)'
        BY <1>1, <2>3, SameBuild DEF Home
      <3> QED BY <3>2, <3>3 DEF Home
    <2> QED BY <2>1, <2>2, <2>3
  <1>4. GoodHeld'
    <2> SUFFICES ASSUME ~over', NEW q \in P, NEW k \in 0 .. idx'[q] - 1, <<q, k>> \notin doubt'
                 PROVE  HeldGood(q, k)'
      BY DEF GoodHeld
    <2>1. q # p
      BY <1>1
    <2>2. HeldGood(q, k)
      BY <1>0, <1>1, <1>2, <2>1 DEF MemInv, GoodHeld
    <2>3. Found(q, k)' = Found(q, k) /\ (Own(q, k)' <=> Own(q, k)) /\ good'[q] = good[q]
      BY <1>1, <2>1, SameBuild DEF Found
    <2> QED BY <1>1, <2>2, <2>3 DEF HeldGood
  <1>5. NewHeld' /\ Emptied'
    BY <1>1 DEF NewHeld, Emptied
  <1> QED BY <1>3, <1>4, <1>5 DEF MemInv

(* An index is written: what it uncovers or covers falls in doubt.         *)
LEMMA MemWriteIndex ==
    ASSUME PayloadNums, MemInv, UNCHANGED <<build, mem, over>>, op.pc # "index",
           op'.pc \notin {"index", "zeroIndex"}, NEW p \in P, NEW k \in Nat, WriteIndex(p, k)
    PROVE  MemInv'
  <1>0. /\ \A q \in P : idx'[q] = (IF q = p THEN k ELSE idx[q]) /\ idx[q] \in Nat
        /\ \A q \in P : q # p => good'[q] = good[q]
        /\ \A i \in Nat : i < k /\ i < idx[p] => good'[p][i + 1] = good[p][i + 1]
        /\ doubt \subseteq doubt'
        /\ \A i \in Nat : (i < k) # (i < idx[p]) => <<p, i>> \in doubt'
    BY ZenonT(60), IndexWritten DEF PayloadNums, PayloadType
  <1>1. CellsHome'
    <2> SUFFICES ASSUME ~over', NEW c \in mem'
                 PROVE  Outside(c)' \/ \E q \in P, j \in Nat : Home(c, q, j)'
      BY DEF CellsHome
    <2>1. Outside(c) \/ \E q \in P, j \in Nat : Home(c, q, j)
      BY DEF MemInv, CellsHome
    <2>2. CASE Outside(c)
      BY <2>2, SameBuild
    <2>3. ASSUME NEW q \in P, NEW j \in Nat, Home(c, q, j) PROVE Home(c, q, j)'
      <3>1. j < idx[q] \/ <<q, j>> \in doubt
        BY <2>3 DEF Home, Live
      <3>2. j < idx'[q] \/ <<q, j>> \in doubt'
        BY <1>0, <3>1
      <3>3. c.at = Address(q, j)' /\ c.size = CellSize(q)' /\ Own(q, j)'
        BY <2>3, SameBuild DEF Home
      <3> QED BY <3>2, <3>3 DEF Home, Live
    <2> QED BY <2>1, <2>2, <2>3
  <1>2. GoodHeld'
    <2> SUFFICES ASSUME ~over', NEW q \in P, NEW i \in 0 .. idx'[q] - 1, <<q, i>> \notin doubt'
                 PROVE  HeldGood(q, i)'
      BY DEF GoodHeld
    <2>1. i \in Nat /\ i < idx'[q] /\ i \in 0 .. idx[q] - 1 /\ <<q, i>> \notin doubt
      BY <1>0
    <2>2. HeldGood(q, i)
      BY <2>1 DEF MemInv, GoodHeld
    <2>3. good'[q][i + 1] = good[q][i + 1]
      BY <1>0, <2>1
    <2>4. Found(q, i)' = Found(q, i) /\ (Own(q, i)' <=> Own(q, i))
      BY SameBuild DEF Found
    <2> QED BY <2>2, <2>3, <2>4 DEF HeldGood
  <1>3. NewHeld' /\ Emptied'
    BY DEF NewHeld, Emptied
  <1> QED BY <1>1, <1>2, <1>3 DEF MemInv

LEMMA MemIndexWritten ==
    ASSUME PayloadNums, MemInv,
           ResetIndex \/ \E p \in P, k \in {0, 2} : drp_update_sys_var_idx(p, k)
    PROVE  MemInv'
  <1>1. CASE ResetIndex
    <2>1. /\ op.p \in P /\ WriteIndex(op.p, 0) /\ op.pc = "resetIndex" /\ UNCHANGED <<build, mem, over>>
          /\ op'.pc \in {"resetAck", "resetIndex"}
      BY <1>1, ResetIndexStep DEF PayloadNums
    <2> QED BY <2>1, MemWriteIndex
  <1>2. ASSUME NEW p \in P, NEW k \in {0, 2}, drp_update_sys_var_idx(p, k)
        PROVE  MemInv'
    <2>1. op.pc = "ready" /\ op' = op /\ UNCHANGED <<build, mem, over>> /\ k \in Nat
      BY <1>2, ReadyType DEF drp_update_sys_var_idx
    <2>2. CASE WriteIndex(p, k)
      BY <2>1, <2>2, MemWriteIndex
    <2>3. CASE WriteAck(p, k) /\ UNCHANGED <<idx, good>>
      <3>1. \A q \in P, j \in Int : j # -1 => (<<q, j>> \in doubt => <<q, j>> \in doubt')
        BY <2>1, <2>3, AckWritten DEF PayloadNums
      <3>2. \A q \in P, j \in Nat : Live(q, j) => Live(q, j)'
        BY <2>1, <2>3, <3>1 DEF Live
      <3>3. \A q \in P : \A i \in 0 .. idx[q] - 1 : <<q, i>> \in doubt => <<q, i>> \in doubt'
        BY <3>1
      <3> QED BY <2>1, <2>3, <3>2, <3>3, SameMem
    <2> QED BY <1>2, <2>2, <2>3 DEF drp_update_sys_var_idx
  <1> QED BY <1>1, <1>2

LEMMA MemErase ==
    ASSUME PayloadNums, MemInv, dat_delete_memory_sections
    PROVE  MemInv'
  <1>1. /\ op'.pc = "ready" /\ UNCHANGED build /\ mem' = AllErased /\ \A p \in P : idx'[p] = 0
    BY ReadyType DEF dat_delete_memory_sections
  <1>2. CellsHome'
    <2> SUFFICES ASSUME NEW c \in mem' PROVE Outside(c)'
      BY DEF CellsHome
    <2>1. build = "flash" /\ c \in mem /\ \A p \in P : KeptFlash(c, p)
      BY <1>1 DEF AllErased
    <2>2. c.at \in Nat
      BY <2>1 DEF PayloadNums, PayloadType
    <2>3. \A p \in P : c.at \div Room # p
      BY <2>1, <2>2, FlashZone DEF KeptFlash
    <2>4. Outside(c)
      BY <2>1, <2>2, <2>3, Beyond DEF Outside
    <2> QED BY <1>1, <2>4, SameBuild
  <1>3. GoodHeld'
    BY <1>1 DEF GoodHeld
  <1>4. NewHeld' /\ Emptied'
    BY <1>1 DEF NewHeld, Emptied
  <1> QED BY <1>2, <1>3, <1>4 DEF MemInv

(* Steps that move no sample: what a restart cuts short falls in doubt.    *)
LEMMA MemRest ==
    ASSUME PayloadNums, MemInv,
           \/ Quiet
           \/ \E p \in P, n \in 1 .. 2 : tm_parse_payload(p, n)
           \/ \E n \in 0 .. 1 : ResetVars(n)
           \/ ZeroAck \/ ResetAck \/ RestartPayload
    PROVE  MemInv'
  <1>0. Ready.pc = "ready"
    BY ReadyType
  <1>1. CASE Quiet
    <2>1. /\ op.pc = "ready" /\ op'.pc = "ready" /\ UNCHANGED <<build, mem, idx, op, taken, good, doubt, over>>
      BY <1>0, <1>1 DEF Quiet
    <2>2. \A q \in P, j \in Nat : Live(q, j) => Live(q, j)'
      BY <2>1 DEF Live
    <2> QED BY <2>1, <2>2, SameMem
  <1>2. CASE (\E p \in P, n \in 1 .. 2 : tm_parse_payload(p, n)) \/ (\E n \in 0 .. 1 : ResetVars(n))
    <2>1. /\ op.pc = "ready" /\ op'.pc \in {"add", "resetIndex"}
          /\ UNCHANGED <<build, mem, idx, taken, good, doubt, over>>
      BY <1>0, <1>2 DEF tm_parse_payload, ResetVars
    <2>2. \A q \in P, j \in Nat : Live(q, j) => Live(q, j)'
      BY <2>1 DEF Live
    <2> QED BY <2>1, <2>2, SameMem
  <1>3. CASE ZeroAck \/ ResetAck
    <2>1. /\ op.pc \in {"zeroAck", "resetAck"} /\ op'.pc \in {"ready", "resetAck", "erase"}
          /\ op.p \in P /\ WriteAck(op.p, 0)
          /\ UNCHANGED <<build, mem, idx, taken, good, over>>
      <3>1. CASE ZeroAck
        BY <1>0, <3>1, OpRecord DEF ZeroAck, PayloadNums
      <3>2. CASE ResetAck
        BY <3>2, ResetAckStep DEF PayloadNums
      <3> QED BY <1>3, <3>1, <3>2
    <2>2. \A q \in P, j \in Nat : <<q, j>> \in doubt => <<q, j>> \in doubt'
      <3>1. \A t \in doubt : t # <<op.p, -1>> => t \in doubt'
        BY <2>1, AckWritten DEF PayloadNums
      <3>2. \A q \in P, j \in Nat : <<q, j>> # <<op.p, -1>>
        OBVIOUS
      <3> QED BY <3>1, <3>2
    <2>3. \A q \in P, j \in Nat : Live(q, j) => Live(q, j)'
      BY <2>1, <2>2 DEF Live
    <2> QED BY <2>1, <2>2, <2>3, SameMem
  <1>4. CASE RestartPayload
    <2>0. PICK p \in P : p = op.p
      BY OpRecord DEF PayloadNums
    <2>1. /\ op'.pc = "ready" /\ doubt \subseteq doubt' /\ UNCHANGED <<build, mem, idx, taken, good, over>>
          /\ op.pc = "index" => <<p, idx[p]>> \in doubt'
      BY <1>0, <1>4, <2>0 DEF RestartPayload
    <2>2. \A q \in P, j \in Nat : Live(q, j) => Live(q, j)'
      <3> SUFFICES ASSUME NEW q \in P, NEW j \in Nat, Live(q, j)
                   PROVE  j < idx'[q] \/ <<q, j>> \in doubt'
        BY DEF Live
      <3>1. j < idx[q] \/ <<q, j>> \in doubt \/ (op.pc = "index" /\ q = p /\ j = idx[q])
        BY <2>0 DEF Live
      <3> QED BY <2>1, <3>1
    <2> QED BY <2>1, <2>2, SameMem
  <1> QED BY <1>1, <1>2, <1>3, <1>4

LEMMA MemAddSample ==
    ASSUME PayloadNums, MemInv, dat_add_payload_sample
    PROVE  MemInv'
  <1>1. CASE op'.pc \in {"ready", "add"} /\ UNCHANGED <<mem, over>>
    <2>1. op.pc = "add" /\ UNCHANGED <<build, idx, good, doubt>>
      BY NumsAddSample
    <2>2. \A q \in P, j \in Nat : Live(q, j) => Live(q, j)'
      BY <2>1 DEF Live
    <2> QED BY <1>1, <2>1, <2>2, SameMem
  <1>2. CASE ~(op'.pc \in {"ready", "add"} /\ UNCHANGED <<mem, over>>)
    BY <1>2, NumsAddSample, MemStore
  <1> QED BY <1>1, <1>2

--------------------------------------------------------------------------------
(* What is acknowledged *)

LEMMA AckNext ==
    ASSUME PayloadNums, AckBehind, PayloadNext
    PROVE  AckBehind'
  <1>0. /\ PayloadType /\ Counts /\ Ready.pc = "ready"
        /\ \A p \in P : idx[p] \in Nat /\ ack[p] \in Nat
    BY ReadyType DEF PayloadNums, PayloadType
  <1>1. ASSUME UNCHANGED ack, \A p \in P : idx'[p] >= idx[p] /\ idx'[p] \in Nat,
               \A p \in P : <<p, -1>> \in doubt => <<p, -1>> \in doubt'
        PROVE  AckBehind'
    <2> SUFFICES ASSUME NEW p \in P
                 PROVE  ack[p] <= idx'[p] \/ <<p, -1>> \in doubt'
      BY <1>1 DEF AckBehind
    <2>1. ack[p] <= idx[p] \/ <<p, -1>> \in doubt
      BY DEF AckBehind
    <2>2. idx'[p] >= idx[p] /\ idx'[p] \in Nat /\ idx[p] \in Nat /\ ack[p] \in Nat
      BY <1>0, <1>1
    <2> QED BY <1>1, <2>1, <2>2
  <1>2. ASSUME NEW p \in P, NEW k \in 1 .. 2, tm_set_ack(p, k)
        PROVE  AckBehind'
    <2>1. /\ UNCHANGED <<idx, doubt>> /\ \A q \in P : q # p => ack'[q] = ack[q]
          /\ ack'[p] = IF k > idx[p] THEN idx[p] ELSE k
      BY <1>0, <1>2 DEF tm_set_ack, PayloadType
    <2>2. ack'[p] <= idx[p]
      BY <1>0, <2>1
    <2> QED BY <1>0, <2>1, <2>2 DEF AckBehind
  <1>3. ASSUME NEW p \in P,
               \/ tm_send_last(p) \/ tm_send_all(p) \/ tm_send_from(p, 1)
               \/ tm_get_single(p, 0) \/ tm_get_last(p) \/ tm_dump(p)
        PROVE  AckBehind'
    <2>1. \/ \E a, b : tm_send_tel_from_to(a, b, p)
          \/ \E a, b : Printed(a, b)
      BY <1>3 DEF tm_send_last, tm_send_all, tm_send_from, tm_get_single, tm_get_last, tm_dump
    <2>2. UNCHANGED <<ack, idx, doubt>>
      BY <2>1 DEF tm_send_tel_from_to, Printed
    <2> QED BY <1>0, <1>1, <2>2
  <1>4. CASE \/ \E p \in P : take_sample(p) \/ tm_parse_payload(p, 2) \/ obc_get_sensors \/ drp_reset_payload(p)
             \/ drp_reset_status \/ drp_execute_before_flight \/ RestartPayload
    <2>1. UNCHANGED <<ack, idx>> /\ doubt \subseteq doubt'
      BY <1>4 DEF take_sample, tm_parse_payload, obc_get_sensors, drp_reset_payload, dat_delete_payload,
                  drp_reset_status, drp_execute_before_flight, ResetVars, RestartPayload
    <2> QED BY <1>0, <1>1, <2>1
  <1>5. CASE dat_add_payload_sample
    BY <1>0, <1>1, <1>5, NumsAddSample
  <1>6. CASE AddIndex
    <2>1. UNCHANGED <<ack, doubt>> /\ idx' = [idx EXCEPT ![op.p] = idx[op.p] + 1]
      BY <1>6, NumsAddIndex
    <2>2. \A p \in P : idx'[p] >= idx[p] /\ idx'[p] \in Nat
      BY <1>0, <2>1 DEF PayloadType
    <2> QED BY <1>1, <2>1, <2>2
  <1>7. CASE ZeroIndex
    <2>1. /\ UNCHANGED ack /\ <<op.p, -1>> \in doubt'
          /\ \A q \in P : q # op.p => idx'[q] = idx[q]
          /\ \A q \in P : q # op.p => (<<q, -1>> \in doubt => <<q, -1>> \in doubt')
      BY <1>0, <1>7, OpRecord DEF ZeroIndex, PayloadType
    <2> QED BY <1>0, <2>1 DEF AckBehind
  <1>8. ASSUME NEW p \in P, NEW k \in Nat, WriteAck(p, k), UNCHANGED idx
        PROVE  AckBehind'
    <2>1. /\ \A q \in P : ack'[q] = IF q = p THEN k ELSE ack[q]
          /\ \A t \in doubt : t # <<p, -1>> => t \in doubt'
          /\ k <= idx[p] \/ <<p, -1>> \in doubt'
      BY <1>0, <1>8, AckWritten
    <2>2. \A q \in P : q # p => (<<q, -1>> \in doubt => <<q, -1>> \in doubt')
      BY <2>1
    <2>3. SUFFICES ASSUME NEW q \in P
                   PROVE  ack'[q] <= idx[q] \/ <<q, -1>> \in doubt'
      BY <1>8 DEF AckBehind
    <2>4. ack[q] <= idx[q] \/ <<q, -1>> \in doubt
      BY DEF AckBehind
    <2> QED BY <1>0, <2>1, <2>2, <2>4
  <1>9. ASSUME NEW p \in P, NEW k \in Nat, WriteIndex(p, k), UNCHANGED ack
        PROVE  AckBehind'
    <2>1. /\ \A q \in P : idx'[q] = IF q = p THEN k ELSE idx[q]
          /\ doubt \subseteq doubt' /\ (k < ack[p] => <<p, -1>> \in doubt')
      BY <1>0, <1>9, IndexWritten
    <2>2. SUFFICES ASSUME NEW q \in P
                   PROVE  ack[q] <= idx'[q] \/ <<q, -1>> \in doubt'
      BY <1>9 DEF AckBehind
    <2>4. ack[q] <= idx[q] \/ <<q, -1>> \in doubt
      BY DEF AckBehind
    <2> QED BY <1>0, <2>1, <2>4
  <1>10. CASE ZeroAck \/ ResetAck
    <2>1. op.p \in P /\ WriteAck(op.p, 0) /\ UNCHANGED idx
      BY <1>0, <1>10, OpRecord DEF ZeroAck, ResetAck
    <2> QED BY <1>8, <2>1
  <1>11. CASE ResetIndex
    <2>1. op.p \in P /\ WriteIndex(op.p, 0) /\ UNCHANGED ack
      BY <1>0, <1>11, OpRecord DEF ResetIndex
    <2> QED BY <1>9, <2>1
  <1>12. ASSUME NEW p \in P, NEW k \in {0, 2}, drp_update_sys_var_idx(p, k)
         PROVE  AckBehind'
    <2>1. k \in Nat /\ ((WriteIndex(p, k) /\ UNCHANGED ack) \/ (WriteAck(p, k) /\ UNCHANGED <<idx, good>>))
      BY <1>12 DEF drp_update_sys_var_idx
    <2> QED BY <1>8, <1>9, <2>1
  <1>13. CASE dat_delete_memory_sections
    <2>1. /\ UNCHANGED ack /\ \A p \in P : idx'[p] = 0 /\ idx[p] = 0
          /\ \A p \in P : <<p, -1>> \in doubt => <<p, -1>> \in doubt'
      BY <1>0, <1>13 DEF dat_delete_memory_sections, Counts
    <2> QED BY <1>1, <2>1
  <1> QED
    BY <1>2, <1>3, <1>4, <1>5, <1>6, <1>7, <1>10, <1>11, <1>12, <1>13, ReadyType DEF PayloadNext

--------------------------------------------------------------------------------
(* What telemetry sends *)

(* A sample that is held is readable, and read as it was added.            *)
LEMMA FetchHeld ==
    ASSUME PayloadNums, NEW p \in P, NEW i \in Nat, HeldGood(p, i)
    PROVE  Fetch(p, i) = good[p][i + 1] /\ CanRead(p, i)
  <1>1. PICK c \in mem : c.v = good[p][i + 1] /\ Found(p, i) = {c}
    BY DEF HeldGood
  <1>2. c.v \in Nat
    BY DEF PayloadNums, PayloadType
  <1>3. Oldest({c}) = c
    BY <1>2 DEF Oldest
  <1>4. Address(p, i) # -1 /\ Found(p, i) # {}
    BY <1>1 DEF HeldGood, Own
  <1>5. build \in {"ram", "flash", "sqlite"}
    BY DEF PayloadNums, PayloadType
  <1> QED BY <1>1, <1>3, <1>4, <1>5 DEF Fetch, FetchRam, FetchFlash, FetchRow, CanRead

LEMMA KeptHeld ==
    ASSUME PayloadNums, MemInv
    PROVE  SamplesKept
  <1> SUFFICES ASSUME ~over, NEW p \in P, NEW i \in 0 .. idx[p] - 1
               PROVE  <<p, i>> \in doubt \/ Fetch(p, i) = good[p][i + 1]
    BY DEF SamplesKept
  <1>2. <<p, i>> \in doubt \/ HeldGood(p, i)
    BY DEF MemInv, GoodHeld
  <1>3. i \in Nat
    BY DEF PayloadNums, PayloadType
  <1> QED BY <1>2, <1>3, FetchHeld

LEMMA Slice ==
    ASSUME NEW g \in Seq(Nat), NEW a \in Nat, NEW e \in Nat, a < e, e <= Len(g)
    PROVE  /\ SubSeq(g, a + 1, e) \in Seq(Nat) /\ Len(SubSeq(g, a + 1, e)) = e - a
           /\ \A k \in 1 .. e - a : SubSeq(g, a + 1, e)[k] = g[a + k]
  <1>1. \A k \in a + 1 .. e : g[k] \in Nat
    <2> SUFFICES ASSUME NEW k \in a + 1 .. e PROVE k \in 1 .. Len(g)
      OBVIOUS
    <2> QED OBVIOUS
  <1>2. a + 1 \in Int /\ e \in Int /\ a + 1 <= e /\ e - (a + 1) + 1 = e - a
    OBVIOUS
  <1>3. /\ SubSeq(g, a + 1, e) \in Seq(Nat) /\ Len(SubSeq(g, a + 1, e)) = e - a
        /\ \A k \in 1 .. e - (a + 1) + 1 : SubSeq(g, a + 1, e)[k] = g[a + 1 + k - 1]
    BY <1>1, <1>2, SubSeqProperties
  <1>4. \A k \in 1 .. e - a : a + 1 + k - 1 = a + k
    OBVIOUS
  <1> QED BY <1>2, <1>3, <1>4

(* The samples asked for are there, one after the other.                   *)
LEMMA AskedHeld ==
    ASSUME PayloadNums, MemInv, NEW p \in P, NEW start \in Nat, NEW end \in Nat,
           Asked(p, start, end) # <<>>
    PROVE  /\ start < end /\ end <= idx[p] /\ DOMAIN Asked(p, start, end) = 1 .. end - start
           /\ \A k \in 1 .. end - start :
                CanRead(p, start + k - 1) /\ Fetch(p, start + k - 1) = Asked(p, start, end)[k]
  <1>1. /\ ~over /\ end <= idx[p] /\ \A i \in 0 .. idx[p] - 1 : <<p, i>> \notin doubt
        /\ Asked(p, start, end) = SubSeq(good[p], start + 1, end)
    <2>1. ~(over \/ end > Len(good[p]) \/ \E t \in doubt : t[1] = p)
      BY DEF Asked
    <2>2. Len(good[p]) = idx[p] /\ idx[p] \in Nat
      BY DEF PayloadNums, PayloadType
    <2>3. \A i \in 0 .. idx[p] - 1 : <<p, i>> \notin doubt
      BY <2>1
    <2> QED BY SMTT(60), <2>1, <2>2, <2>3 DEF Asked
  <1>2. good[p] \in Seq(Nat) /\ Len(good[p]) = idx[p] /\ idx[p] \in Nat
    BY DEF PayloadNums, PayloadType
  <1>3. start < end
    <2> SUFFICES ASSUME end < start + 1 PROVE FALSE
      OBVIOUS
    <2>1. SubSeq(good[p], start + 1, end) = <<>>
      BY SubSeqEmpty
    <2> QED BY <1>1, <2>1
  <1>4. /\ DOMAIN Asked(p, start, end) = 1 .. end - start
        /\ \A k \in 1 .. end - start : Asked(p, start, end)[k] = good[p][start + k]
    <2> DEFINE s == SubSeq(good[p], start + 1, end)
    <2>2. s \in Seq(Nat) /\ Len(s) = end - start /\ \A k \in 1 .. end - start : s[k] = good[p][start + k]
      BY ZenonT(60), <1>1, <1>2, <1>3, Slice
    <2>3. DOMAIN s = 1 .. end - start
      BY <2>2
    <2> QED BY <1>1, <2>2, <2>3
  <1>5. ASSUME NEW k \in 1 .. end - start
        PROVE  CanRead(p, start + k - 1) /\ Fetch(p, start + k - 1) = Asked(p, start, end)[k]
    <2>1. PICK i \in Nat : i = start + k - 1 /\ i \in 0 .. idx[p] - 1 /\ i + 1 = start + k
      <3>1. start + k - 1 \in Nat /\ start + k - 1 \in 0 .. idx[p] - 1
        BY <1>1, <1>2, <1>3
      <3> QED BY <3>1
    <2>3. HeldGood(p, i)
      BY <1>1, <2>1 DEF MemInv, GoodHeld
    <2>4. Fetch(p, i) = good[p][i + 1] /\ CanRead(p, i)
      BY <2>3, FetchHeld
    <2> QED BY <1>4, <2>1, <2>4
  <1> QED BY <1>1, <1>3, <1>4, <1>5

(* Frames of m samples each take n samples: all but the last are full.     *)
LEMMA FramesFull ==
    ASSUME NEW n \in Nat \ {0}, NEW m \in Nat \ {0},
           NEW f \in 1 .. (n + m - 1) \div m
    PROVE  /\ (f - 1) * m \in Nat /\ f \in Nat
           /\ f < (n + m - 1) \div m => n - (f - 1) * m >= m
  <1>1. PICK q \in Nat, x \in Nat : q = (n + m - 1) \div m /\ n + m - 1 = m * q + x /\ x < m
    BY Divided
  <1>2. PICK g \in Nat : f = g + 1 /\ f - 1 = g
    <2>1. f - 1 \in Nat /\ f = (f - 1) + 1
      BY <1>1
    <2> QED BY <2>1
  <1>3. g * m \in Nat
    OBVIOUS
  <1>4. ASSUME f < q PROVE n - g * m >= m
    <2>1. g + 2 <= q /\ g + 2 \in Nat
      BY <1>1, <1>2, <1>4
    <2>2. (g + 2) * m <= q * m
      BY <2>1, TimesGrows
    <2>3. (g + 2) * m = g * m + m + m /\ q * m = m * q
      BY <1>1, <1>2
    <2>4. PICK u \in Nat, w \in Nat : u = g * m /\ w = m * q
      BY <1>3
    <2> QED BY <1>1, <2>2, <2>3, <2>4
  <1> QED BY <1>1, <1>2, <1>3, <1>4

LEMMA PerFrameNat ==
    ASSUME NEW p \in P
    PROVE  PerFrame(p) \in Nat \ {0}
  <1>1. SampleSize[p] \in Nat \ {0} /\ FrameBytes \in Nat /\ SampleSize[p] <= FrameBytes
    BY PayloadAssumption DEF P
  <1>2. PICK d \in Nat, x \in Nat : d = FrameBytes \div SampleSize[p]
                                   /\ FrameBytes = SampleSize[p] * d + x /\ x < SampleSize[p]
    BY <1>1, Divided
  <1>3. d # 0
    BY <1>1, <1>2
  <1> QED BY <1>2, <1>3 DEF PerFrame

(* A frame of tm_send_tel_from_to, sample by sample.                       *)
FrameLen(n, m, f) == IF n - (f - 1) * m < m THEN n - (f - 1) * m ELSE m

LEMMA SentFromTo ==
    ASSUME PayloadNums, MemInv, NEW p \in P, NEW start \in Nat, NEW end \in Nat,
           tm_send_tel_from_to(start, end, p)
    PROVE  SentInOrder'
  <1> SUFFICES ASSUME sent'.asked # <<>>
               PROVE  \A f \in DOMAIN sent'.frames :
                         /\ f < Len(sent'.frames) => Len(sent'.frames[f]) = sent'.per
                         /\ \A j \in DOMAIN sent'.frames[f] :
                               /\ (f - 1) * sent'.per + j \in DOMAIN sent'.asked
                               /\ sent'.frames[f][j] = sent'.asked[(f - 1) * sent'.per + j]
    BY DEF SentInOrder
  <1> DEFINE F == FramesFromTo(start, end, p)
  <1>0. PICK m \in Nat \ {0} : m = PerFrame(p)
    BY PerFrameNat
  <1>1. \E k \in 0 .. Len(F) :
          sent' = [frames |-> SubSeq(F, 1, k), asked |-> Asked(p, start, end), per |-> m]
    <2>1. PICK k \in 0 .. Len(F) : Sent(SubSeq(F, 1, k), Asked(p, start, end), m)
      BY <1>0 DEF tm_send_tel_from_to
    <2>2. Asked(p, start, end) # <<>>
      BY <2>1 DEF Sent, Nothing
    <2> QED BY <2>1, <2>2 DEF Sent
  <1>2. PICK len \in 0 .. Len(F) :
          sent' = [frames |-> SubSeq(F, 1, len), asked |-> Asked(p, start, end), per |-> m]
    BY <1>1
  <1>3. sent'.frames = SubSeq(F, 1, len) /\ sent'.asked = Asked(p, start, end) /\ sent'.per = m
    BY <1>2
  <1>4. /\ start < end /\ end <= idx[p] /\ DOMAIN Asked(p, start, end) = 1 .. end - start
        /\ \A k \in 1 .. end - start : Fetch(p, start + k - 1) = Asked(p, start, end)[k]
    BY <1>1, <1>3, AskedHeld
  <1>5. PICK n \in Nat \ {0} : n = end - start
    <2>1. end - start \in Nat \ {0}
      BY <1>4
    <2> QED BY <2>1
  <1>6. PICK q \in Nat : q = (n + m - 1) \div m
    BY SMTT(60), Divided
  <1>7. idx[p] \in Nat
    BY DEF PayloadNums, PayloadType
  <1>8. F = [f \in 1 .. q |-> [j \in 1 .. FrameLen(n, m, f) |->
                Recent(p, n + (idx[p] - end) - ((f - 1) * m + j - 1 + 1))]]
    BY <1>0, <1>5, <1>6 DEF FramesFromTo, FrameLen
  <1> DEFINE T == {F[f] : f \in 1 .. q}
  <1>9. Len(F) = q /\ F \in Seq(T)
    <2>1. F \in [1 .. q -> T]
      BY <1>8
    <2> HIDE DEF F, T
    <2> QED BY <2>1
  <1> HIDE DEF F, T
  <1>10. /\ SubSeq(F, 1, len) \in Seq(T) /\ Len(SubSeq(F, 1, len)) = len /\ len \in Nat /\ len <= q
         /\ \A f \in 1 .. len : SubSeq(F, 1, len)[f] = F[f]
    BY <1>6, <1>9
  <1>11. SUFFICES ASSUME NEW f \in 1 .. len
                  PROVE  /\ f < len => Len(F[f]) = m
                         /\ \A j \in DOMAIN F[f] :
                               /\ (f - 1) * m + j \in 1 .. n
                               /\ F[f][j] = Asked(p, start, end)[(f - 1) * m + j]
    BY SMTT(60), <1>3, <1>4, <1>5, <1>10
  <1>12. f \in 1 .. q /\ (f < len => f < q)
    BY <1>6, <1>10
  <1>13. PICK u \in Nat : u = (f - 1) * m /\ (f < q => n - u >= m)
    BY <1>6, <1>12, FramesFull
  <1>14. F[f] = [j \in 1 .. FrameLen(n, m, f) |-> Recent(p, n + (idx[p] - end) - (u + j - 1 + 1))]
    BY <1>8, <1>12, <1>13
  <1>15. FrameLen(n, m, f) = IF n - u < m THEN n - u ELSE m
    BY <1>13 DEF FrameLen
  <1>16. ASSUME f < len PROVE Len(F[f]) = m
    <2>1. FrameLen(n, m, f) = m
      BY <1>12, <1>13, <1>15, <1>16
    <2> QED BY <1>14, <2>1
  <1>17. ASSUME NEW j \in DOMAIN F[f]
         PROVE  u + j \in 1 .. n /\ F[f][j] = Asked(p, start, end)[u + j]
    <2>1. j \in 1 .. FrameLen(n, m, f)
      BY <1>14
    <2>2. j \in Nat /\ j >= 1 /\ u + j <= n
      BY <1>15, <2>1
    <2>3. F[f][j] = Recent(p, n + (idx[p] - end) - (u + j - 1 + 1))
      BY <1>14, <2>1
    <2>4. idx[p] - 1 - (n + (idx[p] - end) - (u + j - 1 + 1)) = start + (u + j) - 1
      BY SMTT(60), <1>5, <1>7, <2>2
    <2>5. start + (u + j) - 1 >= 0
      BY <2>2
    <2>6. F[f][j] = Fetch(p, start + (u + j) - 1)
      BY <2>3, <2>4, <2>5 DEF Recent
    <2>7. u + j \in 1 .. n
      BY <2>2
    <2> QED BY <1>4, <1>5, <2>6, <2>7
  <1> QED BY <1>13, <1>16, <1>17

(* The samples printed, a frame each.                                      *)
LEMMA SentPrinted ==
    ASSUME PayloadNums, MemInv, NEW p \in P, NEW start \in Nat, NEW end \in Nat, NEW samples,
           Printed(samples, Asked(p, start, end)),
           Asked(p, start, end) # <<>> =>
              /\ DOMAIN samples = 1 .. end - start
              /\ \A k \in 1 .. end - start : samples[k] = <<Fetch(p, start + k - 1)>>
    PROVE  SentInOrder'
  <1> SUFFICES ASSUME sent'.asked # <<>>, NEW f \in DOMAIN sent'.frames
               PROVE  /\ Len(sent'.frames[f]) = sent'.per
                      /\ \A j \in DOMAIN sent'.frames[f] :
                            /\ (f - 1) * sent'.per + j \in DOMAIN sent'.asked
                            /\ sent'.frames[f][j] = sent'.asked[(f - 1) * sent'.per + j]
    BY DEF SentInOrder
  <1>1. sent'.frames = samples /\ sent'.asked = Asked(p, start, end) /\ sent'.per = 1
    <2>1. Asked(p, start, end) # <<>>
      BY DEF Printed, Sent, Nothing
    <2> QED BY <2>1 DEF Printed, Sent
  <1>2. /\ start < end /\ DOMAIN Asked(p, start, end) = 1 .. end - start
        /\ \A k \in 1 .. end - start : Fetch(p, start + k - 1) = Asked(p, start, end)[k]
    BY <1>1, AskedHeld
  <1>3. f \in 1 .. end - start /\ samples[f] = <<Asked(p, start, end)[f]>>
    <2>1. f \in 1 .. end - start
      BY <1>1
    <2> QED BY <1>1, <1>2, <2>1
  <1>4. DOMAIN samples[f] = {1} /\ Len(samples[f]) = 1 /\ samples[f][1] = Asked(p, start, end)[f]
    BY <1>3
  <1>5. (f - 1) * 1 + 1 = f
    BY <1>3
  <1> QED BY <1>1, <1>2, <1>3, <1>4, <1>5

LEMMA SentNext ==
    ASSUME PayloadNums, MemInv, SentInOrder, PayloadNext
    PROVE  SentInOrder'
  <1>1. ASSUME UNCHANGED sent PROVE SentInOrder'
    BY <1>1 DEF SentInOrder
  <1>2. ASSUME sent' = Nothing PROVE SentInOrder'
    BY <1>2 DEF SentInOrder, Nothing
  <1>3. ASSUME NEW p \in P, tm_send_last(p) \/ tm_send_all(p) \/ tm_send_from(p, 1)
        PROVE  SentInOrder'
    <2>1. idx[p] \in Nat /\ ack[p] \in Nat
      BY DEF PayloadNums, PayloadType
    <2>2. CASE tm_send_last(p)
      <3>1. idx[p] - Least(PerFrame(p), idx[p]) \in Nat
        BY <2>1, PerFrameNat DEF Least
      <3> QED BY <2>1, <2>2, <3>1, SentFromTo DEF tm_send_last
    <2>3. CASE tm_send_all(p)
      BY <2>1, <2>3, SentFromTo DEF tm_send_all
    <2>4. CASE tm_send_from(p, 1)
      <3>1. Least(ack[p] + 1, idx[p]) \in Nat
        BY <2>1 DEF Least
      <3> QED BY <2>1, <2>4, <3>1, SentFromTo DEF tm_send_from
    <2> QED BY <1>3, <2>2, <2>3, <2>4
  <1>4. ASSUME NEW p \in P, tm_get_single(p, 0) \/ tm_get_last(p) \/ tm_dump(p)
        PROVE  SentInOrder'
    <2>1. idx[p] \in Nat
      BY DEF PayloadNums, PayloadType
    <2>2. ASSUME NEW i \in Nat, Printed(<<<<Fetch(p, i)>>>>, Asked(p, i, i + 1))
          PROVE  SentInOrder'
      <3> DEFINE s == <<<<Fetch(p, i)>>>>
      <3>1. i + 1 \in Nat /\ i + 1 - i = 1 /\ i + 1 - 1 = i
        OBVIOUS
      <3>2. DOMAIN s = 1 .. i + 1 - i /\ \A k \in 1 .. i + 1 - i : s[k] = <<Fetch(p, i + k - 1)>>
        BY <3>1
      <3>3. Printed(s, Asked(p, i, i + 1))
        BY <2>2
      <3> HIDE DEF s
      <3>4. PICK e \in Nat : e = i + 1
        BY <3>1
      <3>5. Printed(s, Asked(p, i, e)) /\ DOMAIN s = 1 .. e - i
            /\ \A k \in 1 .. e - i : s[k] = <<Fetch(p, i + k - 1)>>
        BY <3>2, <3>3, <3>4
      <3> QED BY <3>5, SentPrinted
    <2>3. CASE tm_get_single(p, 0)
      BY <2>2, <2>3 DEF tm_get_single
    <2>4. CASE tm_get_last(p)
      <3>1. PICK i \in Nat : i = idx[p] - 1 /\ idx[p] = i + 1 /\ idx[p] - 1 - 0 = i
        <4>1. idx[p] - 1 \in Nat /\ idx[p] = (idx[p] - 1) + 1 /\ idx[p] - 1 - 0 = idx[p] - 1
          BY <2>1, <2>4 DEF tm_get_last
        <4> QED BY <4>1
      <3>2. Recent(p, 0) = Fetch(p, i)
        BY <2>1, <3>1 DEF Recent
      <3>3. Printed(<<<<Fetch(p, i)>>>>, Asked(p, i, i + 1))
        BY <2>4, <3>1, <3>2 DEF tm_get_last
      <3> QED BY <2>2, <3>3
    <2>5. CASE tm_dump(p)
      <3> DEFINE s == [k \in 1 .. idx[p] |-> IF CanRead(p, k - 1) THEN <<Fetch(p, k - 1)>> ELSE <<>>]
      <3>1. Printed(s, Asked(p, 0, idx[p])) /\ op = Ready
        BY <2>5 DEF tm_dump, Printed
      <3>2. ASSUME Asked(p, 0, idx[p]) # <<>>
            PROVE  /\ DOMAIN s = 1 .. idx[p] - 0
                   /\ \A k \in 1 .. idx[p] - 0 : s[k] = <<Fetch(p, 0 + k - 1)>>
        <4>1. \A k \in 1 .. idx[p] - 0 : CanRead(p, 0 + k - 1)
          BY <2>1, <3>2, AskedHeld
        <4>2. idx[p] - 0 = idx[p] /\ \A k \in 1 .. idx[p] : 0 + k - 1 = k - 1
          BY <2>1
        <4> QED BY <4>1, <4>2
      <3> HIDE DEF s
      <3> QED BY <2>1, <3>1, <3>2, SentPrinted
    <2> QED BY <1>4, <2>3, <2>4, <2>5
  <1>5. ASSUME NEW p \in P, take_sample(p) \/ tm_parse_payload(p, 2) \/ obc_get_sensors
                            \/ drp_reset_payload(p) \/ drp_execute_before_flight \/ drp_reset_status
                            \/ (\E k \in 1 .. 2 : tm_set_ack(p, k))
                            \/ (\E k \in {0, 2} : drp_update_sys_var_idx(p, k))
        PROVE  SentInOrder'
    <2>1. sent' = Nothing
      BY <1>5 DEF take_sample, tm_parse_payload, obc_get_sensors, drp_reset_payload, dat_delete_payload,
                  drp_execute_before_flight, drp_reset_status, ResetVars, tm_set_ack, drp_update_sys_var_idx
    <2> QED BY <1>2, <2>1
  <1>6. CASE \/ dat_add_payload_sample \/ AddIndex \/ ZeroIndex \/ ZeroAck
             \/ ResetIndex \/ ResetAck \/ dat_delete_memory_sections \/ RestartPayload
    <2>1. UNCHANGED sent
      BY <1>6 DEF dat_add_payload_sample, AddIndex, ZeroIndex, ZeroAck, ResetIndex, ResetAck,
                  dat_delete_memory_sections, RestartPayload
    <2> QED BY <1>1, <2>1
  <1> QED
    BY <1>3, <1>4, <1>5, <1>6, ReadyType DEF PayloadNext

--------------------------------------------------------------------------------
(* The inductive invariant *)

LEMMA PayloadInvInit == PayloadInit => PayloadInv
  <1> SUFFICES ASSUME PayloadInit PROVE PayloadInv
    OBVIOUS
  <1>1. \A p \in P : idx[p] = 0 /\ ack[p] = 0 /\ good[p] = <<>>
    BY DEF PayloadInit
  <1>2. PayloadType
    <2>1. <<>> \in Seq(Nat) /\ Len(<<>>) = 0
      OBVIOUS
    <2>2. good \in [P -> Seq(Nat)] /\ \A p \in P : Len(good[p]) = idx[p]
      BY <1>1, <2>1 DEF PayloadInit
    <2>3. op \in PayloadOps
      BY ReadyType DEF PayloadInit, PayloadOps, PayloadPcs
    <2> QED BY <2>2, <2>3 DEF PayloadType, PayloadInit
  <1>3. op.pc = "ready"
    BY ReadyType DEF PayloadInit
  <1>4. Counts
    BY <1>3 DEF Counts
  <1>5. mem = {} /\ \A p \in P : 0 .. idx[p] - 1 = {}
    BY <1>1 DEF PayloadInit
  <1>6. CellsHome /\ GoodHeld /\ NewHeld /\ Emptied
    BY <1>3, <1>5 DEF CellsHome, GoodHeld, NewHeld, Emptied
  <1>7. SentInOrder
    BY DEF PayloadInit, SentInOrder, Nothing
  <1>8. AckBehind
    <2>1. \A p \in P : ack[p] <= idx[p]
      BY <1>1
    <2> QED BY <2>1 DEF AckBehind
  <1> QED BY <1>2, <1>4, <1>6, <1>7, <1>8 DEF PayloadInv

LEMMA PayloadInvNext == PayloadInv /\ [PayloadNext]_payloadVars => PayloadInv'
  <1> SUFFICES ASSUME PayloadInv, [PayloadNext]_payloadVars PROVE PayloadInv'
    OBVIOUS
  <1>0. PayloadNums /\ MemInv /\ SentInOrder /\ AckBehind
    BY DEF PayloadInv, PayloadNums, MemInv
  <1>1. SUFFICES PayloadNums' /\ MemInv' /\ SentInOrder' /\ AckBehind'
    BY DEF PayloadInv, PayloadNums, MemInv
  <1>2. CASE UNCHANGED payloadVars
    <2>1. UNCHANGED <<build, mem, idx, ack, op, taken, good, doubt, over, sent>>
      BY <1>2 DEF payloadVars
    <2>2. PayloadNums'
      BY <1>0, <2>1 DEF PayloadNums, PayloadType, Counts
    <2>3. MemInv'
      BY <1>0, <2>1, SameBuild DEF MemInv, CellsHome, GoodHeld, NewHeld, Emptied, HeldGood, HeldNew, Found, Home, Live
    <2>4. SentInOrder' /\ AckBehind'
      BY <1>0, <2>1 DEF SentInOrder, AckBehind
    <2> QED BY <2>2, <2>3, <2>4
  <1>3. CASE PayloadNext
    <2>1. SentInOrder' /\ AckBehind'
      BY <1>0, <1>3, SentNext, AckNext
    <2>2. ASSUME Quiet PROVE PayloadNums' /\ MemInv'
      BY <1>0, <2>2, NumsOther, MemRest
    <2>3. ASSUME NEW p \in P, NEW n \in 1 .. 2, tm_parse_payload(p, n) PROVE PayloadNums' /\ MemInv'
      BY <1>0, <2>3, NumsOther, MemRest
    <2>4. ASSUME NEW p \in P, dat_delete_payload(p) PROVE PayloadNums' /\ MemInv'
      BY <1>0, <2>4, NumsOther, MemDelete
    <2>5. ASSUME ZeroIndex \/ ZeroAck \/ ResetIndex \/ ResetAck \/ dat_delete_memory_sections
                 \/ RestartPayload \/ (\E n \in 0 .. 1 : ResetVars(n))
                 \/ (\E p \in P, k \in {0, 2} : drp_update_sys_var_idx(p, k))
          PROVE  PayloadNums' /\ MemInv'
      BY <1>0, <2>5, NumsOther, MemRest, MemZeroIndex, MemIndexWritten, MemErase
    <2>12. ASSUME drp_reset_status \/ drp_execute_before_flight
           PROVE  PayloadNums' /\ MemInv'
      BY <2>5, <2>12 DEF drp_reset_status, drp_execute_before_flight
    <2>6. ASSUME dat_add_payload_sample PROVE PayloadNums' /\ MemInv'
      BY <1>0, <2>6, NumsAddSample, MemAddSample
    <2>7. ASSUME AddIndex PROVE PayloadNums' /\ MemInv'
      BY <1>0, <2>7, NumsAddIndex, MemAddIndex
    <2>8. PayloadType
      BY <1>0 DEF PayloadNums
    <2>9. ASSUME NEW p \in P, take_sample(p) \/ tm_parse_payload(p, 2) \/ obc_get_sensors
          PROVE  PayloadNums' /\ MemInv'
      BY <2>3, <2>9, ReadyType DEF take_sample, obc_get_sensors
    <2>10. ASSUME NEW p \in P, drp_reset_payload(p)
           PROVE  PayloadNums' /\ MemInv'
      BY <2>4, <2>10 DEF drp_reset_payload
    <2>11. ASSUME NEW p \in P,
                  \/ tm_send_last(p) \/ tm_send_all(p) \/ tm_send_from(p, 1)
                  \/ tm_get_single(p, 0) \/ tm_get_last(p) \/ tm_dump(p)
                  \/ \E k \in 1 .. 2 : tm_set_ack(p, k)
           PROVE  PayloadNums' /\ MemInv'
      BY <2>2, <2>8, <2>11, QuietSteps
    <2> QED
      BY <1>3, <2>1, <2>5, <2>6, <2>7, <2>9, <2>10, <2>11, <2>12, ReadyType DEF PayloadNext
  <1> QED BY <1>2, <1>3

(* The samples of each payload are read back as they were added, telemetry *)
(* sends those not acknowledged yet, whole and in order, and the           *)
(* acknowledge stays behind the index; but for the places a restart or a   *)
(* number written by ground left in doubt, and as long as no sample was    *)
(* stored outside its sections.  For any number of payloads, sizes of      *)
(* samples, pages and sections, in all three memories.                     *)
THEOREM SamplesCorrect == PayloadSpec => []SamplesSent
  <1>1. PayloadInv => SamplesSent
    BY KeptHeld DEF PayloadInv, PayloadNums, MemInv, SamplesSent
  <1> QED
    BY <1>1, PayloadInvInit, PayloadInvNext, PTL DEF PayloadSpec

==================================================================================
