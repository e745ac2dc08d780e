--------------------------- MODULE RowValidation ---------------------------
(***************************************************************************)
(* What a category version says of the rows of one batch: validate_row and *)
(* its helpers in apps/catalog/services.py.                                *)
(*                                                                         *)
(* A cell is the set of the values it gives: {} when it is blank (Python's *)
(* None), {n} otherwise, or Garbage when the text cannot be read as the    *)
(* type of its field.  Dates, numbers, choices and references are integers *)
(* here; a reference that is not found is Garbage.                         *)
(***************************************************************************)
EXTENDS Integers, SequencesExt

CONSTANTS
  Garbage,      \* text that does not parse
  Fields,       \* column name -> [required, min, max, softMin, softMax]
  Rules,        \* the cross-field rules in order: [type, hard, args]
  Tolerance,    \* of the sum_of_parts rules
  GrantedDaily  \* daily_volume_granted_m3 of the licences that have one

ASSUME FieldsAssumption ==
  \A f \in DOMAIN Fields : Fields[f].required \in BOOLEAN

Columns == DOMAIN Fields

(* The hard and soft limits that a number breaks; an unset limit is {}.    *)
Below(bound, v) == \E b \in bound, n \in v : n < b
Above(bound, v) == \E b \in bound, n \in v : n > b

(* _coerce: the value of a cell, and whether it is an error.               *)
Readable(row, c) == c \notin DOMAIN row \/ row[c] # Garbage

Cleaned(row) ==
  [c \in Columns |-> IF c \in DOMAIN row /\ Readable(row, c) THEN row[c] ELSE {}]

FieldError(row, c) ==
  \/ ~Readable(row, c)
  \/ Cleaned(row)[c] = {} /\ Fields[c].required
  \/ Below(Fields[c].min, Cleaned(row)[c])
  \/ Above(Fields[c].max, Cleaned(row)[c])

FieldFlag(row, c) ==
  \/ Below(Fields[c].softMin, Cleaned(row)[c])
  \/ Above(Fields[c].softMax, Cleaned(row)[c])

UnexpectedColumn(row) == ~(DOMAIN row \subseteq Columns)

-----------------------------------------------------------------------------
(* Cross-field rules, on the cleaned row.                                  *)

(* Not in (None, "", False): in Python 0 = False, so a zero is not given.  *)
Given(v) == v \notin {{}, {0}}

OutOfOrder(v, w) == \E a \in v, b \in w : a > b

Days(v, w) == LET d == CHOOSE d \in {b - a : a \in v, b \in w} : TRUE
              IN  IF d > 1 THEN d ELSE 1

(* The parts, if all are given, have to add up to the total, args[1],      *)
(* within a tolerance.                                                     *)
DoesNotAddUp(c, args, tolerance) ==
  LET Value(f) == CHOOSE n \in c[f] : TRUE
      Sum == FoldLeft(LAMBDA n, f : n + Value(f), 0, Tail(args))
      Off == Sum - Value(args[1])
  IN  /\ \A k \in DOMAIN args : c[args[k]] # {}
      /\ Off > tolerance \/ -Off > tolerance

(* The volume, the licence and the period are all given and the volume is  *)
(* more than the licence allows for the days of the period.                *)
OverLimit(c, licence, volume, start, end) ==
  /\ c[start] # {} /\ c[end] # {}
  /\ \E n \in c[volume], l \in c[licence] \cap DOMAIN GrantedDaily :
       n > GrantedDaily[l] * Days(c[start], c[end])

(* The excess is given in percent of what is allowed, which may be zero:   *)
(* the exception is caught by nobody and the whole batch is refused.       *)
DividesByZero(row) ==
  \E k \in DOMAIN Rules :
    LET a == Rules[k].args  c == Cleaned(row) IN
    /\ Rules[k].type = "licence_limit"
    /\ OverLimit(c, a[1], a[2], a[3], a[4])
    /\ \E l \in c[a[1]] \cap DOMAIN GrantedDaily : GrantedDaily[l] = 0

(* batch_seen is one set for all the unique_in_batch rules of the batch:   *)
(* a row repeats a key if an earlier row, or an earlier rule of the same   *)
(* row, has put it there.                                                  *)
Key(row, rule) == [n \in DOMAIN rule.args |-> Cleaned(row)[rule.args[n]]]

Earlier(j, m, i, k) == j < i \/ (j = i /\ m < k)

(* Fault: the form's way of validating, without a set of seen keys.        *)
NothingSeen(batch, i, k) == FALSE

Repeats(batch, i, k) ==
  \E j \in DOMAIN batch, m \in DOMAIN Rules :
    /\ Rules[m].type = "unique_in_batch"
    /\ Earlier(j, m, i, k)
    /\ Key(batch[j], Rules[m]) = Key(batch[i], Rules[k])

Broken(batch, i, k) ==
  LET c == Cleaned(batch[i])  a == Rules[k].args IN
  CASE Rules[k].type \in {"date_order", "range_pair"} -> OutOfOrder(c[a[1]], c[a[2]])
    [] Rules[k].type = "sum_of_parts"    -> DoesNotAddUp(c, a, Tolerance)
    [] Rules[k].type = "required_if"     -> Given(c[a[1]]) /\ c[a[2]] = {}
    [] Rules[k].type = "licence_limit"   -> OverLimit(c, a[1], a[2], a[3], a[4])
    [] Rules[k].type = "unique_in_batch" -> Repeats(batch, i, k)

-----------------------------------------------------------------------------
(* The verdict on row i of a batch: hard errors reject it, soft findings   *)
(* flag it.  Every rule is applied, also to a row with errors.             *)
HasErrors(batch, i) ==
  \/ UnexpectedColumn(batch[i])
  \/ \E c \in Columns : FieldError(batch[i], c)
  \/ \E k \in DOMAIN Rules : Rules[k].hard /\ Broken(batch, i, k)

HasFlags(batch, i) ==
  \/ \E c \in Columns : FieldFlag(batch[i], c)
  \/ \E k \in DOMAIN Rules : ~Rules[k].hard /\ Broken(batch, i, k)

Verdict(batch, i) ==
  CASE HasErrors(batch, i) -> "rejected"
    [] ~HasErrors(batch, i) /\ HasFlags(batch, i) -> "flagged"
    [] OTHER -> "accepted"

Validates(batch) == \A i \in DOMAIN batch : ~DividesByZero(batch[i])
=============================================================================
