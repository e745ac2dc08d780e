--------------------------- MODULE NumberSequence ---------------------------
(***************************************************************************)
(* One row of lic.models.Sequence for one year, and the rows numbered from *)
(* it.  Sequence.next locks the row, adds one and saves it in a            *)
(* transaction.atomic() block of its own.  Called inside a transaction     *)
(* (Licence.issue, under engine.approve) that block is a savepoint: the    *)
(* lock lasts, and the new value is seen by others, when the caller        *)
(* commits.  Called outside one (LicenceApplication.save, under the        *)
(* application_create view) it commits by itself, before the numbered row  *)
(* is saved.                                                               *)
(***************************************************************************)
EXTENDS Integers

CONSTANTS
  Callers,     \* the rows to be numbered
  Autocommit,  \* those saved outside a transaction
  NoCaller,
  MaxValue     \* bound: how far the sequence is drawn

(* The modules that use this one give its parameters such values.          *)
CallersAssumption ==
  /\ Autocommit \subseteq Callers
  /\ NoCaller \notin Callers
  /\ MaxValue \in Nat

VARIABLES
  value,   \* Sequence.value, as committed
  holder,  \* the caller whose transaction holds the row lock
  drawn,   \* the number a caller has in hand, 0 for none
  number   \* the number of its saved row, 0 for none

vars == <<value, holder, drawn, number>>

RowFree == holder = NoCaller

Draw(c) ==
  /\ RowFree
  /\ drawn[c] = 0 /\ number[c] = 0
  /\ value < MaxValue
  /\ drawn' = [drawn EXCEPT ![c] = value + 1]
  /\ IF c \in Autocommit
     THEN value' = value + 1 /\ UNCHANGED holder
     ELSE holder' = c /\ UNCHANGED value
  /\ UNCHANGED number

(* The end of the caller's transaction, if it has one.                     *)
Release(c) ==
  holder' = IF holder = c THEN NoCaller ELSE holder

(* The numbered row is committed, and with it the sequence.                *)
Save(c) ==
  /\ drawn[c] # 0
  /\ number' = [number EXCEPT ![c] = drawn[c]]
  /\ drawn' = [drawn EXCEPT ![c] = 0]
  /\ value' = IF c \in Autocommit THEN value ELSE drawn[c]
  /\ Release(c)

(* The caller fails, or its worker dies, before the row is saved.          *)
Fail(c) ==
  /\ drawn[c] # 0
  /\ drawn' = [drawn EXCEPT ![c] = 0]
  /\ Release(c)
  /\ UNCHANGED <<value, number>>

Init ==
  /\ value = 0
  /\ holder = NoCaller
  /\ drawn = [c \in Callers |-> 0]
  /\ number = [c \in Callers |-> 0]

Next == \E c \in Callers : Draw(c) \/ Save(c) \/ Fail(c)

Spec == Init /\ [][Next]_vars

-----------------------------------------------------------------------------
(* Properties.                                                             *)

TypeOK ==
  /\ value \in Nat
  /\ holder \in Callers \cup {NoCaller}
  /\ drawn \in [Callers -> Nat]
  /\ number \in [Callers -> Nat]

(* No two rows ever carry the same number, whatever failed in between the  *)
(* drawing of a number and the saving of its row.                          *)
NumbersDiffer ==
  \A c, d \in Callers : number[c] = number[d] /\ number[c] # 0 => c = d

(* "Gap-free yearly sequences for application references and licence       *)
(* numbers": with nobody between draw and save, the numbers in use are     *)
(* exactly those up to the value of the sequence.                          *)
GapFree ==
  (\A c \in Callers : drawn[c] = 0) =>
    \A n \in 1 .. value : \E c \in Callers : number[c] = n
=============================================================================
