---------------------------- MODULE StatusRepoProofs ----------------------------
(***************************************************************************)
(* Proofs about StatusRepo: for any number of tasks, variables and values, *)
(* with and without triple writing, in RAM and in persistent storage.      *)
(***************************************************************************)
EXTENDS StatusRepo, TLAPS

(* The cells of the copies: inside the table, and never shared. *)
LEMMA CopyCases == \A c \in CopyNumbers : c = 0 \/ (Copies = 3 /\ c \in {1, 2})
  BY StatusAssumption DEF CopyNumbers

LEMMA CellInTable ==
    ASSUME NEW x \in Vars, NEW c \in CopyNumbers
    PROVE  StoreCell(x, c) \in Cells /\ LoadCell(x, c) = StoreCell(x, c)
  BY StatusAssumption, CopyCases DEF Vars, Cells, StoreCell, LoadCell

LEMMA CellsDistinct ==
    ASSUME NEW x \in Vars, NEW c \in CopyNumbers, NEW y \in Vars, NEW d \in CopyNumbers,
           StoreCell(x, c) = StoreCell(y, d)
    PROVE  x = y /\ c = d
  BY StatusAssumption, CopyCases DEF Vars, StoreCell

LEMMA CellOwner ==
    ASSUME NEW x \in Vars, NEW c \in CopyNumbers
    PROVE  StoreCell(x, c) % LastVar = x
  BY StatusAssumption, CopyCases DEF Vars, StoreCell

(* The actions, without the quantifiers of Next. *)
LEMMA NextCases ==
    ASSUME [Next]_vars
    PROVE  \/ \E t \in Tasks, x \in Vars, v \in Values : SetStatusVar(t, x, v)
           \/ \E t \in Tasks, x \in Vars : GetStatusVar(t, x)
           \/ \E t \in Tasks : ResetStatusVars(t) \/ Take(t) \/ Store(t) \/ SetDone(t)
           \/ \E t \in Tasks : Load(t) \/ GetDone(t)
           \/ \E a \in Cells, v \in Values : Corrupt(a, v)
           \/ Restart
           \/ UNCHANGED vars
  BY DEF Next, Step

--------------------------------------------------------------------------------
(* Type correctness *)

LEMMA Defaults == 0 \in Vars /\ DefaultOf(0) \in Values /\ Blank \in [CopyNumbers -> Values]
  BY StatusAssumption DEF Vars, Blank

LEMMA FreshTable == [a \in Cells |-> DefaultOf(a % LastVar)] \in [Cells -> Values]
<1>1. \A a \in Cells : a % LastVar \in Vars
  BY StatusAssumption DEF Cells, Vars
<1> QED
  BY <1>1, StatusAssumption

LEMMA TypeNext == TypeOK /\ [Next]_vars => TypeOK'
<1> SUFFICES ASSUME TypeOK, [Next]_vars PROVE TypeOK'
  OBVIOUS
<1> USE StatusAssumption, Defaults DEF TypeOK, locals, history
<1>1. ASSUME NEW t \in Tasks, NEW x \in Vars, NEW v \in Values, SetStatusVar(t, x, v)
      PROVE  TypeOK'
  BY <1>1 DEF SetStatusVar
<1>2. ASSUME NEW t \in Tasks, NEW x \in Vars, GetStatusVar(t, x) PROVE TypeOK'
  BY <1>2 DEF GetStatusVar
<1>3. ASSUME NEW t \in Tasks, ResetStatusVars(t) PROVE TypeOK'
  BY <1>3 DEF ResetStatusVars
<1>4. ASSUME NEW t \in Tasks, Take(t) PROVE TypeOK'
  BY <1>4 DEF Take
<1>5. ASSUME NEW t \in Tasks, Store(t) PROVE TypeOK'
  <2>1. k[t] + 1 \in 0 .. Copies
    BY <1>5 DEF Store
  <2>2. k' \in [Tasks -> 0 .. Copies] /\ table' \in [Cells -> Values] /\ bad' \in SUBSET Cells
    BY <1>5, <2>1 DEF Store
  <2> QED BY <1>5, <2>2 DEF Store
<1>6. ASSUME NEW t \in Tasks, SetDone(t) PROVE TypeOK'
  <2>1. CASE MoreToReset(t)
    <3>1. idx[t] + 1 \in Vars /\ DefaultOf(idx[t] + 1) \in Values
      BY <2>1 DEF MoreToReset, Vars
    <3>0. /\ idx' = [idx EXCEPT ![t] = idx[t] + 1]
          /\ val' = [val EXCEPT ![t] = DefaultOf(idx[t] + 1)]
          /\ k' = [k EXCEPT ![t] = 0]
      BY <1>6, <2>1, Zenon DEF SetDone
    <3>2. idx' \in [Tasks -> Vars] /\ val' \in [Tasks -> Values] /\ k' \in [Tasks -> 0 .. Copies]
      BY <3>0, <3>1
    <3>3. committed' \in [Vars -> Values] /\ torn' \in [Vars -> SUBSET Values]
      BY <1>6 DEF SetDone
    <3> QED BY <1>6, <2>1, <3>2, <3>3 DEF SetDone
  <2>2. CASE ~MoreToReset(t)
    <3>0. Return(t)
      BY <1>6, <2>2, Zenon DEF SetDone
    <3>1. /\ pc' \in [Tasks -> {"idle", "set", "store", "get", "load"}]
          /\ k' \in [Tasks -> 0 .. Copies]
          /\ idx' \in [Tasks -> Vars] /\ val' \in [Tasks -> Values]
          /\ loaded' \in [Tasks -> [CopyNumbers -> Values]]
      BY <3>0 DEF Return
    <3>2. whole' \in [Tasks -> BOOLEAN]
      BY <3>0 DEF Return
    <3>3. committed' \in [Vars -> Values] /\ torn' \in [Vars -> SUBSET Values]
      BY <1>6 DEF SetDone
    <3> QED BY <1>6, <3>1, <3>2, <3>3 DEF SetDone
  <2> QED BY <2>1, <2>2
<1>7. ASSUME NEW t \in Tasks, Load(t) PROVE TypeOK'
  <2>1. k[t] \in CopyNumbers
    BY <1>7 DEF Load, CopyNumbers
  <2>2. table[LoadCell(idx[t], k[t])] \in Values
    BY <2>1, CellInTable
  <2> QED BY <1>7, <2>1, <2>2 DEF Load
<1>8. ASSUME NEW t \in Tasks, GetDone(t) PROVE TypeOK'
  BY <1>8 DEF GetDone, Return
<1>9. ASSUME NEW a \in Cells, NEW v \in Values, Corrupt(a, v) PROVE TypeOK'
  BY <1>9 DEF Corrupt
<1>10. CASE Restart
  <2>1. \A x \in Vars : {val[t] : t \in InWrite(x)} \subseteq Values
    BY DEF InWrite
  <2>2. CASE KeepTable
    BY <1>10, <2>1, <2>2 DEF Restart, KeepTable
  <2>3. CASE LoseTable
    BY <1>10, <2>3, FreshTable DEF Restart, LoseTable
  <2> QED BY <1>10, <2>2, <2>3 DEF Restart
<1>11. CASE UNCHANGED vars
  BY <1>11 DEF vars
<1> QED
  BY NextCases, <1>1, <1>2, <1>3, <1>4, <1>5, <1>6, <1>7, <1>8, <1>9, <1>10, <1>11

(* repoData.c:135-216: every index that is stored to or loaded from is     *)
(* inside the table, and what is returned is one of the stored values.     *)
THEOREM TypeCorrect == Spec => []TypeOK
<1>1. Init => TypeOK
  BY StatusAssumption, Defaults, FreshTable DEF Init, TypeOK
<1> QED
  BY <1>1, TypeNext, PTL DEF Spec

--------------------------------------------------------------------------------
(* The inductive invariant *)

(* repo_data_sem is held over the stores and over the loads. *)
SemaphoreHeld ==
    \A t \in Tasks :
        /\ pc[t] \in {"store", "load"} <=> sem = t
        /\ pc[t] \notin {"store", "load"} => k[t] = 0

(* What a variable may hold outside of a write. *)
Sound(x) == {committed[x]} \cup torn[x]

(* The copies that a write has not reached hold what was there before... *)
NotReached ==
    \A x \in Vars, c \in CopyNumbers :
        (\A t \in Tasks : pc[t] = "store" /\ idx[t] = x => k[t] <= c)
            => StoreCell(x, c) \in bad \/ table[StoreCell(x, c)] \in Sound(x)

(* ... those it has reached hold what it writes... *)
Reached ==
    \A t \in Tasks, c \in CopyNumbers :
        pc[t] = "store" /\ c < k[t]
            => StoreCell(idx[t], c) \in bad \/ table[StoreCell(idx[t], c)] = val[t]

(* ... and what a read has loaded is what the variable holds. *)
LoadedSound ==
    \A t \in Tasks, c \in CopyNumbers :
        pc[t] = "load" /\ c < k[t]
            => StoreCell(idx[t], c) \in bad \/ loaded[t][c] \in Sound(idx[t])

IInv == TypeOK /\ SemaphoreHeld /\ NotReached /\ Reached /\ LoadedSound

LEMMA SemaphoreNext == TypeOK /\ SemaphoreHeld /\ [Next]_vars => SemaphoreHeld'
<1> SUFFICES ASSUME TypeOK, SemaphoreHeld, [Next]_vars PROVE SemaphoreHeld'
  OBVIOUS
<1>0. /\ pc \in [Tasks -> {"idle", "set", "store", "get", "load"}]
      /\ k \in [Tasks -> 0 .. Copies]
      /\ NoTask \notin Tasks
  BY StatusAssumption DEF TypeOK
<1> USE DEF SemaphoreHeld, locals, history
<1>1. ASSUME NEW t \in Tasks, NEW x \in Vars, NEW v \in Values, SetStatusVar(t, x, v)
      PROVE  SemaphoreHeld'
  BY <1>0, <1>1 DEF SetStatusVar
<1>2. ASSUME NEW t \in Tasks, NEW x \in Vars, GetStatusVar(t, x) PROVE SemaphoreHeld'
  BY <1>0, <1>2 DEF GetStatusVar
<1>3. ASSUME NEW t \in Tasks, ResetStatusVars(t) PROVE SemaphoreHeld'
  BY <1>0, <1>3 DEF ResetStatusVars
<1>4. ASSUME NEW t \in Tasks, Take(t) PROVE SemaphoreHeld'
  BY <1>0, <1>4 DEF Take
<1>5. ASSUME NEW t \in Tasks, Store(t) PROVE SemaphoreHeld'
  BY <1>0, <1>5 DEF Store
<1>6. ASSUME NEW t \in Tasks, SetDone(t) PROVE SemaphoreHeld'
  <2>1. /\ sem' = NoTask
        /\ k' = [k EXCEPT ![t] = 0]
        /\ \E step \in {"set", "idle"} : pc' = [pc EXCEPT ![t] = step]
        /\ pc[t] = "store"
    BY <1>6, Zenon DEF SetDone, Return
  <2> QED BY <1>0, <2>1
<1>7. ASSUME NEW t \in Tasks, Load(t) PROVE SemaphoreHeld'
  BY <1>0, <1>7 DEF Load
<1>8. ASSUME NEW t \in Tasks, GetDone(t) PROVE SemaphoreHeld'
  BY <1>0, <1>8 DEF GetDone, Return
<1>9. ASSUME NEW a \in Cells, NEW v \in Values, Corrupt(a, v) PROVE SemaphoreHeld'
  BY <1>9 DEF Corrupt
<1>10. CASE Restart
  BY <1>0, <1>10 DEF Restart
<1>11. CASE UNCHANGED vars
  BY <1>11 DEF vars
<1> QED
  BY NextCases, <1>1, <1>2, <1>3, <1>4, <1>5, <1>6, <1>7, <1>8, <1>9, <1>10, <1>11

(* Calls and takes leave the table and every write and read in progress as *)
(* they are.                                                               *)
LEMMA CallsKeep ==
    ASSUME IInv, NEW t \in Tasks,
           \/ \E x \in Vars, v \in Values : SetStatusVar(t, x, v)
           \/ \E x \in Vars : GetStatusVar(t, x)
           \/ ResetStatusVars(t)
           \/ Take(t)
    PROVE  NotReached' /\ Reached' /\ LoadedSound'
<1>0. /\ pc \in [Tasks -> {"idle", "set", "store", "get", "load"}]
      /\ k \in [Tasks -> 0 .. Copies]
      /\ idx \in [Tasks -> Vars]
      /\ val \in [Tasks -> Values]
      /\ CopyNumbers \subseteq Nat
  BY DEF IInv, TypeOK, CopyNumbers
<1>1. UNCHANGED <<table, bad, committed, torn, k, loaded>>
  BY DEF SetStatusVar, GetStatusVar, ResetStatusVars, Take, history
<1>2. \A u \in Tasks : u # t => pc'[u] = pc[u] /\ idx'[u] = idx[u] /\ val'[u] = val[u]
  BY <1>0 DEF SetStatusVar, GetStatusVar, ResetStatusVars, Take
<1>3. k[t] = 0 /\ pc[t] \notin {"store", "load"}
  BY <1>0 DEF SetStatusVar, GetStatusVar, ResetStatusVars, Take, IInv, SemaphoreHeld
<1>4. NotReached'
  BY <1>0, <1>1, <1>2, <1>3 DEF IInv, NotReached, Sound, StoreCell
<1>5. Reached'
  <2> SUFFICES ASSUME NEW u \in Tasks, NEW c \in CopyNumbers, pc'[u] = "store", c < k[u]
               PROVE  StoreCell(idx'[u], c) \in bad \/ table[StoreCell(idx'[u], c)] = val'[u]
    BY <1>1 DEF Reached, StoreCell
  <2>1. u # t
    BY <1>0, <1>3
  <2> QED BY <1>2, <2>1 DEF IInv, Reached
<1>6. LoadedSound'
  BY <1>0, <1>1, <1>2, <1>3 DEF IInv, LoadedSound, Sound, StoreCell
<1> QED
  BY <1>4, <1>5, <1>6

LEMMA StoreKeeps ==
    ASSUME IInv, NEW t \in Tasks, Store(t)
    PROVE  NotReached' /\ Reached' /\ LoadedSound'
<1> DEFINE cell == StoreCell(idx[t], k[t])
<1>0. /\ table \in [Cells -> Values]
      /\ k \in [Tasks -> 0 .. Copies]
      /\ idx \in [Tasks -> Vars]
      /\ Copies \in Nat
      /\ CopyNumbers \subseteq Nat
  BY StatusAssumption DEF IInv, TypeOK, CopyNumbers
<1>1. k[t] \in CopyNumbers /\ pc[t] = "store"
  BY <1>0 DEF Store, CopyNumbers
<1>2. /\ table' = [table EXCEPT ![cell] = val[t]]
      /\ bad' = bad \ {cell}
      /\ k' = [k EXCEPT ![t] = k[t] + 1]
      /\ UNCHANGED <<sem, pc, whole, idx, val, loaded, committed, torn>>
  BY DEF Store
<1>3. cell \in Cells
  BY <1>0, <1>1, CellInTable
<1>4. \A u \in Tasks : pc[u] \in {"store", "load"} => u = t
  BY <1>1 DEF IInv, SemaphoreHeld
<1>5. \A x \in Vars, c \in CopyNumbers : StoreCell(x, c) = cell => x = idx[t] /\ c = k[t]
  BY <1>0, <1>1, CellsDistinct
<1>6. \A x \in Vars, c \in CopyNumbers :
         StoreCell(x, c) # cell => /\ table'[StoreCell(x, c)] = table[StoreCell(x, c)]
                                   /\ StoreCell(x, c) \in bad' <=> StoreCell(x, c) \in bad
  BY <1>0, <1>2, <1>3, CellInTable
<1>7. NotReached'
  <2> SUFFICES ASSUME NEW x \in Vars, NEW c \in CopyNumbers,
                      \A u \in Tasks : pc[u] = "store" /\ idx[u] = x => k'[u] <= c
               PROVE  StoreCell(x, c) \in bad' \/ table'[StoreCell(x, c)] \in Sound(x)
    BY <1>2 DEF NotReached, Sound, StoreCell
  <2>1. \A u \in Tasks : pc[u] = "store" /\ idx[u] = x => k[u] <= c
    BY <1>0, <1>2, <1>4
  <2>2. StoreCell(x, c) # cell
    BY <1>0, <1>1, <1>2, <1>5
  <2> QED BY <1>6, <2>1, <2>2 DEF IInv, NotReached
<1>8. Reached'
  <2> SUFFICES ASSUME NEW c \in CopyNumbers, c < k[t] + 1
               PROVE  StoreCell(idx[t], c) \in bad' \/ table'[StoreCell(idx[t], c)] = val[t]
    BY <1>0, <1>2, <1>4 DEF Reached, StoreCell
  <2>1. CASE c = k[t]
    BY <1>0, <1>2, <1>3, <2>1
  <2>2. CASE c < k[t]
    <3>1. StoreCell(idx[t], c) # cell
      BY <1>0, <1>1, <1>5, <2>2
    <3> QED BY <1>0, <1>1, <1>6, <2>2, <3>1 DEF IInv, Reached
  <2> QED BY <1>0, <2>1, <2>2
<1>9. LoadedSound'
  BY <1>1, <1>2, <1>4 DEF LoadedSound
<1> QED
  BY <1>7, <1>8, <1>9

LEMMA SetDoneKeeps ==
    ASSUME IInv, NEW t \in Tasks, SetDone(t)
    PROVE  NotReached' /\ Reached' /\ LoadedSound'
<1>0. /\ pc \in [Tasks -> {"idle", "set", "store", "get", "load"}]
      /\ idx \in [Tasks -> Vars]
      /\ committed \in [Vars -> Values]
      /\ torn \in [Vars -> SUBSET Values]
      /\ k \in [Tasks -> 0 .. Copies]
  BY DEF IInv, TypeOK
<1>1. pc[t] = "store" /\ k[t] = Copies
  BY DEF SetDone
<1>2. /\ UNCHANGED <<table, bad>>
      /\ committed' = [committed EXCEPT ![idx[t]] = val[t]]
      /\ torn' = [torn EXCEPT ![idx[t]] = {}]
      /\ \E step \in {"set", "idle"} : pc' = [pc EXCEPT ![t] = step]
  BY Zenon DEF SetDone, Return
<1>3. \A u \in Tasks : pc'[u] \notin {"store", "load"}
  BY <1>0, <1>1, <1>2 DEF IInv, SemaphoreHeld
<1>4. NotReached'
  <2> SUFFICES ASSUME NEW x \in Vars, NEW c \in CopyNumbers
               PROVE  StoreCell(x, c) \in bad \/ table[StoreCell(x, c)] \in Sound(x)'
    BY <1>2 DEF NotReached, StoreCell
  <2>1. CASE x = idx[t]
    <3>1. c < k[t]
      BY <1>1, StatusAssumption DEF CopyNumbers
    <3>2. StoreCell(x, c) \in bad \/ table[StoreCell(x, c)] = val[t]
      BY <1>1, <2>1, <3>1 DEF IInv, Reached
    <3> QED BY <1>0, <1>2, <2>1, <3>2 DEF Sound
  <2>2. CASE x # idx[t]
    <3>1. Sound(x)' = Sound(x)
      BY <1>0, <1>2, <2>2 DEF Sound
    <3>2. \A u \in Tasks : pc[u] = "store" /\ idx[u] = x => k[u] <= c
      BY <1>1, <2>2 DEF IInv, SemaphoreHeld
    <3> QED BY <3>1, <3>2 DEF IInv, NotReached
  <2> QED BY <2>1, <2>2
<1>5. Reached' /\ LoadedSound'
  BY <1>3 DEF Reached, LoadedSound
<1> QED
  BY <1>4, <1>5

LEMMA LoadKeeps ==
    ASSUME IInv, NEW t \in Tasks, Load(t)
    PROVE  NotReached' /\ Reached' /\ LoadedSound'
<1>0. /\ k \in [Tasks -> 0 .. Copies]
      /\ idx \in [Tasks -> Vars]
      /\ loaded \in [Tasks -> [CopyNumbers -> Values]]
      /\ Copies \in Nat
      /\ CopyNumbers \subseteq Nat
  BY StatusAssumption DEF IInv, TypeOK, CopyNumbers
<1>1. k[t] \in CopyNumbers /\ pc[t] = "load"
  BY <1>0 DEF Load, CopyNumbers
<1>2. /\ loaded' = [loaded EXCEPT ![t][k[t]] = table[LoadCell(idx[t], k[t])]]
      /\ k' = [k EXCEPT ![t] = k[t] + 1]
      /\ UNCHANGED <<table, sem, pc, whole, idx, val, committed, torn, bad>>
  BY DEF Load, history
<1>3. \A u \in Tasks : pc[u] \in {"store", "load"} => u = t
  BY <1>1 DEF IInv, SemaphoreHeld
<1>4. NotReached' /\ Reached'
  BY <1>1, <1>2, <1>3 DEF IInv, NotReached, Reached, Sound, StoreCell
<1>5. LoadedSound'
  <2> SUFFICES ASSUME NEW c \in CopyNumbers, c < k[t] + 1
               PROVE  StoreCell(idx[t], c) \in bad \/ loaded'[t][c] \in Sound(idx[t])
    BY <1>0, <1>2, <1>3 DEF LoadedSound, Sound, StoreCell
  <2>1. CASE c = k[t]
    <3>1. loaded'[t][c] = table[StoreCell(idx[t], c)]
      BY <1>0, <1>2, <2>1, CellInTable
    <3>2. \A u \in Tasks : pc[u] # "store"
      BY <1>1, <1>3
    <3>3. StoreCell(idx[t], c) \in bad \/ table[StoreCell(idx[t], c)] \in Sound(idx[t])
      BY <1>0, <3>2 DEF IInv, NotReached
    <3> QED BY <3>1, <3>3
  <2>2. CASE c < k[t]
    <3>1. loaded'[t][c] = loaded[t][c]
      BY <1>0, <1>1, <1>2, <2>2
    <3> QED BY <1>1, <2>2, <3>1 DEF IInv, LoadedSound
  <2>3. c = k[t] \/ c < k[t]
    BY <1>0
  <2> QED BY <2>1, <2>2, <2>3
<1> QED
  BY <1>4, <1>5

LEMMA GetDoneKeeps ==
    ASSUME IInv, NEW t \in Tasks, GetDone(t)
    PROVE  NotReached' /\ Reached' /\ LoadedSound'
<1>0. pc \in [Tasks -> {"idle", "set", "store", "get", "load"}]
  BY DEF IInv, TypeOK
<1>1. /\ pc[t] = "load"
      /\ pc' = [pc EXCEPT ![t] = "idle"]
      /\ UNCHANGED <<table, committed, torn, bad>>
  BY DEF GetDone, Return, history
<1>2. \A u \in Tasks : pc[u] # "store" /\ pc'[u] \notin {"store", "load"}
  BY <1>0, <1>1 DEF IInv, SemaphoreHeld
<1> QED
  BY <1>1, <1>2 DEF IInv, NotReached, Reached, LoadedSound, Sound, StoreCell

LEMMA CorruptKeeps ==
    ASSUME IInv, NEW a \in Cells, NEW v \in Values, Corrupt(a, v)
    PROVE  NotReached' /\ Reached' /\ LoadedSound'
<1>0. table \in [Cells -> Values] /\ idx \in [Tasks -> Vars]
  BY DEF IInv, TypeOK
<1>1. /\ table' = [table EXCEPT ![a] = v]
      /\ bad' = bad \cup {a}
      /\ UNCHANGED <<sem, pc, idx, val, k, loaded, committed, torn>>
  BY DEF Corrupt, locals
<1>2. \A x \in Vars, c \in CopyNumbers :
         StoreCell(x, c) \notin bad' => /\ StoreCell(x, c) \notin bad
                                        /\ table'[StoreCell(x, c)] = table[StoreCell(x, c)]
  BY <1>0, <1>1, CellInTable
<1>3. NotReached'
  BY <1>1, <1>2 DEF IInv, NotReached, Sound, StoreCell
<1>4. Reached'
  BY <1>0, <1>1, <1>2 DEF IInv, Reached, StoreCell
<1>5. LoadedSound'
  BY <1>0, <1>1, <1>2 DEF IInv, LoadedSound, Sound, StoreCell
<1> QED
  BY <1>3, <1>4, <1>5

LEMMA RestartKeeps ==
    ASSUME IInv, Restart
    PROVE  NotReached' /\ Reached' /\ LoadedSound'
<1>0. /\ torn \in [Vars -> SUBSET Values]
      /\ k \in [Tasks -> 0 .. Copies]
      /\ idx \in [Tasks -> Vars]
      /\ CopyNumbers \subseteq Nat
  BY DEF IInv, TypeOK, CopyNumbers
<1>1. \A t \in Tasks : pc'[t] = "idle"
  BY DEF Restart
<1>2. Reached' /\ LoadedSound'
  BY <1>1 DEF Reached, LoadedSound
<1>3. CASE KeepTable
  <2>1. /\ UNCHANGED <<table, committed, bad>>
        /\ torn' = [x \in Vars |-> torn[x] \cup {val[t] : t \in InWrite(x)}]
    BY <1>3 DEF KeepTable
  <2> SUFFICES ASSUME NEW x \in Vars, NEW c \in CopyNumbers
               PROVE  StoreCell(x, c) \in bad \/ table[StoreCell(x, c)] \in Sound(x)'
    BY <1>2, <2>1 DEF NotReached, StoreCell
  <2>2. Sound(x) \subseteq Sound(x)' /\ {val[t] : t \in InWrite(x)} \subseteq Sound(x)'
    BY <2>1 DEF Sound
  <2>3. CASE \A t \in Tasks : pc[t] = "store" /\ idx[t] = x => k[t] <= c
    BY <2>2, <2>3 DEF IInv, NotReached
  <2>4. ASSUME NEW t \in Tasks, pc[t] = "store", idx[t] = x, ~(k[t] <= c)
        PROVE  StoreCell(x, c) \in bad \/ table[StoreCell(x, c)] \in Sound(x)'
    <3>1. c < k[t] /\ k[t] > 0
      BY <1>0, <2>4
    <3>2. StoreCell(x, c) \in bad \/ table[StoreCell(x, c)] = val[t]
      BY <2>4, <3>1 DEF IInv, Reached
    <3>3. val[t] \in Sound(x)'
      BY <2>2, <2>4, <3>1 DEF InWrite
    <3> QED BY <3>2, <3>3
  <2> QED BY <2>3, <2>4
<1>4. CASE LoseTable
  <2>1. /\ table' = [a \in Cells |-> DefaultOf(a % LastVar)]
        /\ committed' = [x \in Vars |-> DefaultOf(x)]
    BY <1>4 DEF LoseTable
  <2>2. \A x \in Vars, c \in CopyNumbers : table'[StoreCell(x, c)] = committed'[x]
    BY <2>1, CellInTable, CellOwner
  <2> QED BY <1>2, <2>2 DEF NotReached, Sound, StoreCell
<1> QED
  BY <1>3, <1>4 DEF Restart

LEMMA InvariantInit == Init => IInv
<1> SUFFICES ASSUME Init PROVE IInv
  OBVIOUS
<1>1. TypeOK
  BY StatusAssumption, Defaults, FreshTable DEF Init, TypeOK
<1>2. SemaphoreHeld /\ Reached /\ LoadedSound
  BY StatusAssumption DEF Init, SemaphoreHeld, Reached, LoadedSound
<1>3. \A x \in Vars, c \in CopyNumbers : table[StoreCell(x, c)] = committed[x]
  BY CellInTable, CellOwner DEF Init
<1>4. NotReached
  BY <1>3 DEF NotReached, Sound
<1> QED
  BY <1>1, <1>2, <1>4 DEF IInv

LEMMA InvariantNext == IInv /\ [Next]_vars => IInv'
<1> SUFFICES ASSUME IInv, [Next]_vars PROVE IInv'
  OBVIOUS
<1>1. TypeOK' /\ SemaphoreHeld'
  BY TypeNext, SemaphoreNext DEF IInv
<1>2. ASSUME UNCHANGED vars PROVE NotReached' /\ Reached' /\ LoadedSound'
  BY <1>2 DEF vars, locals, history, IInv, NotReached, Reached, LoadedSound, Sound, StoreCell
<1>3. NotReached' /\ Reached' /\ LoadedSound'
  BY NextCases, CallsKeep, StoreKeeps, SetDoneKeeps, LoadKeeps, GetDoneKeeps,
     CorruptKeeps, RestartKeeps, <1>2 DEF IInv
<1> QED
  BY <1>1, <1>3 DEF IInv

LEMMA Invariant == Spec => []IInv
  BY InvariantInit, InvariantNext, PTL DEF Spec

--------------------------------------------------------------------------------
(* The properties that follow from it *)

(* repoData.c:135-153: every sound cell holds a value of its own variable. *)
THEOREM CopiesCorrect == Spec => []CopiesIntact
<1>1. IInv => CopiesIntact
  <2> SUFFICES ASSUME IInv, NEW x \in Vars, NEW c \in CopyNumbers PROVE Intact(x, c)
    BY DEF CopiesIntact
  <2>0. k \in [Tasks -> 0 .. Copies] /\ CopyNumbers \subseteq Nat
    BY DEF IInv, TypeOK, CopyNumbers
  <2>1. CASE \A t \in Tasks : pc[t] = "store" /\ idx[t] = x => k[t] <= c
    BY <2>1, CellInTable DEF IInv, NotReached, Sound, Intact
  <2>2. ASSUME NEW t \in Tasks, pc[t] = "store", idx[t] = x, ~(k[t] <= c)
        PROVE  Intact(x, c)
    <3>1. c < k[t] /\ k[t] > 0
      BY <2>0, <2>2
    <3> QED BY <2>2, <3>1, CellInTable DEF IInv, Reached, Intact, InWrite
  <2> QED BY <2>1, <2>2
<1> QED
  BY <1>1, Invariant, PTL

(* repoData.c:170-199: a read returns the value last written although one  *)
(* of three copies is corrupted, and either value of a write that a power  *)
(* failure cut short.                                                      *)
THEOREM ReadsCorrect == Spec => []ReadsMasked
<1>1. IInv => ReadsMasked
  <2> SUFFICES ASSUME IInv, NEW t \in Tasks, pc[t] = "load", k[t] = Copies, Tolerated(idx[t])
               PROVE  Vote(loaded[t]) \in Sound(idx[t])
    BY DEF ReadsMasked, Sound
  <2> DEFINE x == idx[t]
             v == loaded[t]
  <2>1. \A c \in CopyNumbers : c \in Damage(x) \/ v[c] \in Sound(x)
    <3>1. x \in Vars
      BY DEF IInv, TypeOK
    <3>2. \A c \in CopyNumbers : LoadCell(x, c) = StoreCell(x, c)
      BY <3>1, CellInTable
    <3> QED BY <3>2, StatusAssumption DEF IInv, LoadedSound, Damage, CopyNumbers
  <2>2. CASE Copies = 1
    <3>1. 0 \in CopyNumbers /\ 0 \notin Damage(x)
      BY <2>2 DEF Tolerated, CopyNumbers
    <3> QED BY <2>1, <2>2, <3>1 DEF Vote
  <2>3. CASE Copies = 3
    <3>0. {0, 1, 2} \subseteq CopyNumbers
      BY <2>3 DEF CopyNumbers
    <3>1. CASE torn[x] # {}
      <4>1. Damage(x) = {}
        BY <2>3, <3>1 DEF Tolerated
      <4>2. v[0] \in Sound(x) /\ v[1] \in Sound(x) /\ v[2] \in Sound(x)
        BY <2>1, <3>0, <4>1
      <4> QED BY <4>2 DEF Vote
    <3>2. CASE torn[x] = {}
      <4>1. \A c, d \in Damage(x) : c = d
        BY <2>3, <3>2 DEF Tolerated
      <4>2. Sound(x) = {committed[x]}
        BY <3>2 DEF Sound
      <4>3. \/ v[0] = committed[x] /\ v[1] = committed[x]
            \/ v[0] = committed[x] /\ v[2] = committed[x]
            \/ v[1] = committed[x] /\ v[2] = committed[x]
        BY <2>1, <3>0, <4>1, <4>2
      <4> QED BY <2>3, <4>2, <4>3 DEF Vote
    <3> QED BY <3>1, <3>2
  <2> QED BY <2>2, <2>3, StatusAssumption
<1> QED
  BY <1>1, Invariant, PTL

================================================================================
