------------------------------ MODULE FieldModel ------------------------------
(***************************************************************************)
(* The geomagnetic field (igrf13.c): tables of coefficients are kept in    *)
(* arrays by degree and order, brought to a date by extrapsh or interpsh,  *)
(* and summed by shval3 with Legendre functions that are computed from one *)
(* another along the way.  The numbers are left out: what is kept is which *)
(* coefficient and which function every index means.                       *)
(***************************************************************************)
EXTENDS Integers, Sequences, SequencesExt

CONSTANTS Tables,      \* degrees <<max1, max2>>; this build has <<13, 8>>
          Dates,       \* dates asked for
          MaxCalls     \* bound on the calls of IgrfCalc

ASSUME FieldAssumption ==
    /\ Tables \subseteq (Nat \ {0}) \X (Nat \ {0})
    /\ Dates \subseteq Nat /\ MaxCalls \in Nat

VARIABLES
    table,    \* degrees of the base model and of its rate of change
    way,      \* which of extrapsh and interpsh brings it to a date
    step,     \* where calc_mag_coords is: <<"idle">>, <<"sum", 3 or 4>>
    sdate,    \* the date asked for
    gh,       \* gha (3) and ghb (4): what each index holds
    w,        \* shval3: k, n, m, l, the arrays p and sl, the terms added
    field,    \* x, y, z (3) and xtemp, ytemp, ztemp (4): the terms of the sums
    warn,     \* warn_H, warn_H_strong and warn_P
    calls     \* calls of IgrfCalc so far

fieldVars == <<table, way, step, sdate, gh, w, field, warn, calls>>

--------------------------------------------------------------------------------
(* The tables of the file: degree by degree and order by order, g and,     *)
(* unless the order is 0, h.  Index 1 is the first.                        *)
Coefficients(max) ==
    FlattenSeq([nn \in 1 .. max |->
        FlattenSeq([i \in 1 .. nn + 1 |->
            IF i = 1 THEN <<<<nn, 0, "g">>>> ELSE <<<<nn, i - 1, "g">>, <<nn, i - 1, "h">>>>])])

Size(n) == n * (n + 2)
Greater(a, b) == IF a > b THEN a ELSE b

(* A cell after the arithmetic: the coefficients it was made of. *)
Zero == [base |-> {}, rate |-> {}, at |-> 0]
Both(gh1, gh2, i, date) == [base |-> {gh1[i]}, rate |-> {gh2[i]}, at |-> date]

(* extrapsh: base + (date - epoch) * rate up to the smaller degree, beyond *)
(* it the one there is.                                                    *)
extrapsh(date, gh1, gh2, old) ==
    [i \in DOMAIN old |->
        IF i <= Len(gh1) /\ i <= Len(gh2) THEN Both(gh1, gh2, i, date)
        ELSE IF i <= Len(gh1) THEN [base |-> {gh1[i]}, rate |-> {}, at |-> 0]
        ELSE IF i <= Len(gh2) THEN [base |-> {}, rate |-> {gh2[i]}, at |-> date]
        ELSE old[i]]

(* interpsh: the same cells; beyond the smaller degree the other model     *)
(* counts as zero, so that the date is in every cell.                      *)
interpsh(date, gh1, gh2, old) ==
    [i \in DOMAIN old |->
        IF i <= Len(gh1) /\ i <= Len(gh2) THEN Both(gh1, gh2, i, date)
        ELSE IF i <= Len(gh1) THEN [base |-> {gh1[i]}, rate |-> {}, at |-> date]
        ELSE IF i <= Len(gh2) THEN [base |-> {}, rate |-> {gh2[i]}, at |-> date]
        ELSE old[i]]

--------------------------------------------------------------------------------
(* shval3 *)

(* The first four functions are given by their formulas. *)
Start ==
    [k |-> 1, n |-> 0, m |-> 1, l |-> 1, sl |-> 1,
     p |-> <<<<1, 0>>, <<1, 1>>, <<2, 0>>, <<2, 1>>>>, sum |-> <<>>]

(* The degree and the order at step k. *)
Degree(v) == IF v.n < v.m THEN [v EXCEPT !.m = 0, !.n = @ + 1] ELSE v

(* The function of index j, when it has been computed. *)
At(v, j) == IF j \in DOMAIN v.p THEN v.p[j] ELSE <<0, 0>>

(* Seeded fault: the function two degrees below is taken one index off. *)
LegendreOff(v) ==
    IF v.k < 5 THEN v
    ELSE LET below == IF v.m = v.n THEN At(v, v.k - v.n - 1) = <<v.n - 1, v.m - 1>>
                      ELSE /\ At(v, v.k - v.n) = <<v.n - 1, v.m>>
                           /\ v.m = v.n - 1 \/ At(v, v.k - 2 * v.n) = <<v.n - 2, v.m>>
         IN [v EXCEPT !.p = Append(@, IF below THEN <<v.n, v.m>> ELSE <<0, 0>>),
                      !.sl = IF v.m = v.n /\ @ = v.m - 1 THEN v.m ELSE @]

(* The recurrence: from order m - 1 of the degree below when m = n, else   *)
(* from order m of the two degrees below; the lower one has the factor 0   *)
(* when m = n - 1.  The sine and cosine of m follow those of m - 1.        *)
Legendre(v) ==
    IF v.k < 5 THEN v
    ELSE LET below == IF v.m = v.n THEN At(v, v.k - v.n - 1) = <<v.n - 1, v.m - 1>>
                      ELSE /\ At(v, v.k - v.n) = <<v.n - 1, v.m>>
                           /\ v.m = v.n - 1 \/ At(v, v.k - 2 * v.n + 1) = <<v.n - 2, v.m>>
         IN [v EXCEPT !.p = Append(@, IF below THEN <<v.n, v.m>> ELSE <<0, 0>>),
                      !.sl = IF v.m = v.n /\ @ = v.m - 1 THEN v.m ELSE @]

(* One coefficient is added for order 0 and two for the others. *)
Add(v, g) ==
    LET Term(i) == [p |-> At(v, v.k), coef |-> g[i], angle |-> v.m <= v.sl]
        terms == IF v.m = 0 THEN <<Term(v.l)>> ELSE <<Term(v.l), Term(v.l + 1)>>
    IN [v EXCEPT !.sum = @ \o terms, !.l = @ + Len(terms), !.m = @ + 1, !.k = @ + 1]

nmax == Greater(table[1], table[2])
npq == (nmax * (nmax + 3)) \div 2

Shval3Step ==
    /\ step[1] = "sum" /\ w.k <= npq
    /\ w' = Add(Legendre(Degree(w)), gh[step[2]])
    /\ UNCHANGED <<table, way, step, sdate, gh, field, warn, calls>>

(* The sums turned back to geodetic axes. *)
Shval3End ==
    /\ step[1] = "sum" /\ w.k > npq
    /\ field' = [field EXCEPT ![step[2]] = w.sum]
    /\ w' = Start
    /\ step' = IF step[2] = 3 THEN <<"sum", 4>> ELSE <<"dihf", 0>>
    /\ UNCHANGED <<table, way, sdate, gh, warn, calls>>

--------------------------------------------------------------------------------
FieldInit ==
    /\ table \in Tables /\ way \in {"extrapsh", "interpsh"}
    /\ step = <<"idle", 0>> /\ sdate = 0 /\ calls = 0
    /\ gh = [a \in {3, 4} |-> [i \in 1 .. Size(nmax) |-> Zero]]
    /\ w = Start /\ field = [a \in {3, 4} |-> <<>>]
    /\ warn = [H |-> FALSE, H_strong |-> FALSE, P |-> FALSE]

(* The coefficients at the date and a year later; one of the functions is  *)
(* chosen by max2 of the table.                                            *)
IgrfCalc(date) ==
    /\ step = <<"idle", 0>> /\ calls < MaxCalls
    /\ calls' = calls + 1 /\ sdate' = date
    /\ LET gh1 == Coefficients(table[1])
           gh2 == Coefficients(table[2])
           Bring(d, old) == IF way = "extrapsh" THEN extrapsh(d, gh1, gh2, old)
                            ELSE interpsh(d, gh1, gh2, old)
       IN gh' = [gh EXCEPT ![3] = Bring(date, @), ![4] = Bring(date + 1, @)]
    /\ step' = <<"sum", 3>>
    /\ UNCHANGED <<table, way, w, field, warn>>

(* The warnings stay from call to call; how strong h is (dihf works it     *)
(* out) and whether the place is a pole comes from the numbers.            *)
calc_mag_coords ==
    /\ step = <<"dihf", 0>>
    /\ \E h \in {"strong", "weak", "none"}, pole \in BOOLEAN :
        LET low == IF h = "none" THEN [warn EXCEPT !.H = FALSE, !.H_strong = TRUE]
                   ELSE IF h = "weak" /\ ~warn.H_strong THEN [warn EXCEPT !.H = TRUE]
                   ELSE warn
        IN warn' = IF pole THEN [H |-> FALSE, H_strong |-> FALSE, P |-> TRUE] ELSE low
    /\ step' = <<"idle", 0>>
    /\ UNCHANGED <<table, way, sdate, gh, w, field, calls>>

FieldNext == (\E d \in Dates : IgrfCalc(d)) \/ Shval3Step \/ Shval3End \/ calc_mag_coords

--------------------------------------------------------------------------------
(* Three loops walk the same arrays with index formulas of their own.      *)
(* Each sum has, for every degree and order, the Legendre function of it   *)
(* with the coefficients of it, each once, in the base model, in the rate  *)
(* of change or in both, as the two models have them, at the date asked    *)
(* for and at one year later.                                              *)
FieldExact ==
    step = <<"dihf", 0>> => \A a \in {3, 4} :
        /\ Len(field[a]) = Size(nmax)
        /\ \A i \in DOMAIN field[a] :
            LET t == field[a][i]
                c == Coefficients(nmax)[i]
            IN /\ t.p = <<c[1], c[2]>> /\ t.angle
               /\ t.coef.base = (IF c[1] <= table[1] THEN {c} ELSE {})
               /\ t.coef.rate = (IF c[1] <= table[2] THEN {c} ELSE {})
               /\ t.coef.rate # {} \/ way = "interpsh" => t.coef.at = sdate + (a - 3)

================================================================================
