------------------------------ MODULE PayloadFields ------------------------------
(***************************************************************************)
(* A payload sample on its way through the SQLite storage: the fields of   *)
(* the packed structure are written out as SQL values, stored in columns,  *)
(* read into a structure again and printed.  Every function walks the      *)
(* structure with its own idea of the size of each field.                  *)
(*                                                                         *)
(* Integers are Bits wide, the short ones HalfBits.  A float or a string   *)
(* is one of the few that tell what the conversions do.                    *)
(***************************************************************************)
EXTENDS Integers, Sequences, SequencesExt

CONSTANTS Bits, HalfBits,  \* width of int32_t and of int16_t
          StrSize,         \* SCH_ST_STR_SIZE
          MaxFields        \* bound on the fields of a structure

ASSUME FieldsAssumption ==
    Bits \in Nat \ {0} /\ HalfBits \in Nat \ {0} /\ StrSize \in Nat /\ MaxFields \in Nat

Types == {"f", "u", "i", "d", "h", "s"}

(* A value, or what became of it. *)
Number(n) == [kind |-> "number", n |-> n]
Other(kind) == [kind |-> kind, n |-> 0]
Junk == Other("junk")
Null == Other("NULL")
Nan == Other("nan")
Half == Other("0.5")
Tiny == Other("1e-9")
Zero == Other("0.0")
Text == Other("text")
Quoted == Other("it's")

ValuesOf(type) ==
    CASE type = "f" -> {Nan, Tiny, Half}
      [] type = "u" -> {Number(1), Number(2^Bits - 1)}
      [] type = "s" -> {Text, Quoted}
      [] OTHER -> {Number(-1), Number(1)}

VARIABLES
    order,   \* data_order of the payload
    sample,  \* the structure given, value by offset
    table,   \* the rows of its table
    buf,     \* the structure read
    shown,   \* what was printed of it
    step     \* the operation that comes next

fieldsVars == <<order, sample, table, buf, shown, step>>

(* Where the compiler puts field k of a packed structure. *)
CSize == [t \in Types |-> CASE t = "h" -> 2 [] t = "s" -> StrSize [] OTHER -> 4]
Offset(k, size) == FoldLeft(LAMBDA at, t : at + size[t], 0, SubSeq(order, 1, k - 1))

FieldAt(b, a) == IF a \in DOMAIN b THEN b[a] ELSE Junk

FieldsInit ==
    /\ order \in UNION {[1 .. n -> Types] : n \in 1 .. MaxFields}
    /\ \E v \in [1 .. Len(order) -> UNION {ValuesOf(t) : t \in ToSet(order)}] :
          /\ \A k \in 1 .. Len(order) : v[k] \in ValuesOf(order[k])
          /\ sample = [a \in {Offset(k, CSize) : k \in 1 .. Len(order)} |->
                         v[CHOOSE k \in 1 .. Len(order) : Offset(k, CSize) = a]]
    /\ table = <<>> /\ buf = [a \in {} |-> Junk] /\ shown = <<>>
    /\ step = "init"

Signed(n, bits) == IF n >= 2^(bits - 1) THEN n - 2^bits ELSE n

(* Seeded fault: all numbers have the same size. *)
get_sizeof_type_four(type) == IF type = "s" THEN StrSize ELSE 4

get_sizeof_type(type) ==
    CASE type \in {"f", "u", "i", "d"} -> 4
      [] type = "h" -> 2
      [] OTHER -> StrSize

SizeOf == [t \in Types |-> get_sizeof_type(t)]

(* A nan is NULL and %f keeps six decimals.  %u is printed over with %d.   *)
get_value_string(type, v) ==
    CASE v = Nan -> Null
      [] v = Tiny -> Zero
      [] type = "u" /\ v # Junk -> Number(Signed(v.n, Bits))
      [] type = "h" /\ v # Junk -> Number(Signed(v.n, HalfBits))
      [] OTHER -> v

(* %i is not known here and gets a column of text. *)
get_sql_type(type) ==
    CASE type = "f" -> "REAL"
      [] type \in {"d", "h"} -> "INTEGER"
      [] type = "u" -> "BIGINT"
      [] OTHER -> "TEXT"

(* A cell: the value, and whether its column keeps it as text. *)
InColumn(column, v) == [text |-> column = "TEXT", v |-> v]

(* NULL reads as zero; an integer is taken in the width of the field. *)
get_sqlite_value(type, cell) ==
    CASE cell.v = Null -> Zero
      [] type = "u" /\ cell.v # Junk -> Number(cell.v.n % 2^Bits)
      [] type = "h" /\ cell.v # Junk -> Number(Signed(cell.v.n % 2^HalfBits, HalfBits))
      [] OTHER -> cell.v

(* storage_table_payload_init: the columns, one for each token. *)
storage_table_payload_init ==
    /\ step = "init" /\ step' = "set"
    /\ table' = <<[k \in 1 .. Len(order) |-> get_sql_type(order[k])]>>
    /\ UNCHANGED <<order, sample, buf, shown>>

(* storage_payload_set_data: a quote in a string ends the value too early, *)
(* and the statement fails.                                                *)
storage_payload_set_data ==
    /\ step \in {"set", "failed"}
    /\ LET value == [k \in 1 .. Len(order) |->
                       get_value_string(order[k], FieldAt(sample, Offset(k, SizeOf)))]
       IN IF Quoted \in {value[k] : k \in 1 .. Len(order)}
          THEN step' = "failed" /\ UNCHANGED table
          ELSE /\ step' = "get"
               /\ table' = Append(table, [k \in 1 .. Len(order) |-> InColumn(table[1][k], value[k])])
    /\ UNCHANGED <<order, sample, buf, shown>>

storage_payload_get_data ==
    /\ step = "get" /\ step' = "print"
    /\ buf' = [a \in {Offset(k, SizeOf) : k \in 1 .. Len(order)} |->
                 LET k == CHOOSE k \in 1 .. Len(order) : Offset(k, SizeOf) = a
                 IN get_sqlite_value(order[k], table[2][k])]
    /\ UNCHANGED <<order, sample, table, shown>>

(* The steps of dat_print_payload_struct and dat_fprint_payload_struct. *)
PrintedSize == [t \in Types |->
    CASE t = "f" -> 4 [] t \in {"u", "i", "d"} -> 4 [] t = "h" -> 2 [] OTHER -> StrSize]

dat_print_payload_struct ==
    /\ step = "print" /\ step' = "fprint"
    /\ shown' = [k \in 1 .. Len(order) |-> FieldAt(buf, Offset(k, PrintedSize))]
    /\ UNCHANGED <<order, sample, table, buf>>

dat_fprint_payload_struct ==
    /\ step = "fprint" /\ step' = "get"
    /\ shown' = [k \in 1 .. Len(order) |-> FieldAt(buf, Offset(k, PrintedSize))]
    /\ UNCHANGED <<order, sample, table, buf>>

FieldsNext ==
    \/ storage_table_payload_init \/ storage_payload_set_data \/ storage_payload_get_data
    \/ dat_print_payload_struct \/ dat_fprint_payload_struct

--------------------------------------------------------------------------------
(* storage_sqlite.c:462-705, repoData.c:467-560: four functions compute    *)
(* the offsets of the fields, two of them while the values change form.    *)
(* Whatever the fields and their order, a sample that is stored is read    *)
(* and printed field by field as it was given, but for what six decimals   *)
(* and NULL make of a float; only a sample with a quote is not stored.     *)
FieldsKept ==
    LET given(k) == FieldAt(sample, Offset(k, CSize))
        kept(k) == IF given(k) \in {Nan, Tiny} THEN Zero ELSE given(k)
    IN /\ step = "failed" => \E k \in 1 .. Len(order) : given(k) = Quoted
       /\ step \in {"print", "fprint"} =>
            \A k \in 1 .. Len(order) : FieldAt(buf, Offset(k, CSize)) = kept(k)
       /\ shown # <<>> => \A k \in 1 .. Len(order) : shown[k] = kept(k)

================================================================================
