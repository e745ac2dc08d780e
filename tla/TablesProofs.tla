---------------------------- MODULE TablesProofs ----------------------------
(***************************************************************************)
(* Proofs about three tables that several requests write at once, each for *)
(* every value of its constants.  They share nothing but this module.      *)
(*                                                                         *)
(* ObservationRecords: every step either leaves the corrections and the    *)
(* values of all rows alone (Quiet) or is the correction of one row        *)
(* (Corrected), and corrections are saved in an order that agrees with     *)
(* their times unless they overlap; the theorems follow from that.         *)
(*                                                                         *)
(* CategoryVersions, for any number of administrators, fields and          *)
(* versions: what publish leaves behind it, and what it costs when forms   *)
(* or other publications write past it.                                    *)
(*                                                                         *)
(* NumberSequence, whoever draws from it: no number is given out twice.    *)
(***************************************************************************)
EXTENDS ObservationRecords, CategoryVersions, SequenceTheorems, FiniteSetTheorems, TLAPS
-----------------------------------------------------------------------------
(***************************************************************************)
(* The observation tables                                                  *)
(***************************************************************************)

CorrectionRow == [old : Values, new : Values, at : Nat, saved : Nat]

(* A step that corrects nothing; new rows are without corrections.         *)
Quiet ==
  /\ corrections' = corrections
  /\ \A o \in Rows :
       Exists(o) =>
         /\ row'[o] \in Observation
         /\ row'[o].value = row[o].value
         /\ row[o].state = "approved" => row'[o].state = "approved"

(* Session e saves its correction of a row.                                *)
Corrected(e, v) ==
  /\ edit[e] \in EditInFlight
  /\ edit[e].kind = "correct"
  /\ corrections' =
       [corrections EXCEPT ![edit[e].row] =
          Append(@, Correction(edit[e].copy.value, v, edit[e].at))]
  /\ row'[edit[e].row] \in Observation
  /\ row'[edit[e].row].value = v
  /\ row'[edit[e].row].state = "approved"
  /\ \A o \in Rows : o # edit[e].row => row'[o] = row[o]

(* Edits come and go; one that begins has taken the time, if it is a       *)
(* correction, or has a copy of its row.                                   *)
EditsStep ==
  \A e \in Editors :
    \/ edit'[e] \in {NoEdit, edit[e]}
    \/ /\ UNCHANGED <<row, corrections>>
       /\ Exists(edit'[e].row)
       /\ edit'[e].kind # "stamped" => edit'[e].copy = row[edit'[e].row]
       /\ edit'[e].kind # "regrade" => edit'[e].at <= clock'

-----------------------------------------------------------------------------
(* Observations.                                                           *)

LEMMA ObservationFields ==
  ASSUME NEW r \in Observation
  PROVE  /\ r.state \in ApprovalState
         /\ r.value \in Values
         /\ r.grade \in Grades
         /\ r.class \in Classes
         /\ r # NoRow
BY NoRowAssumption DEF Observation

LEMMA WithState ==
  ASSUME NEW r \in Observation, NEW s \in ApprovalState
  PROVE  /\ [r EXCEPT !.state = s] \in Observation
         /\ [r EXCEPT !.state = s].value = r.value
         /\ [r EXCEPT !.state = s].state = s
BY DEF Observation

LEMMA WithGrade ==
  ASSUME NEW r \in Observation, NEW g \in Grades
  PROVE  /\ [r EXCEPT !.grade = g] \in Observation
         /\ [r EXCEPT !.grade = g].value = r.value
         /\ [r EXCEPT !.grade = g].state = r.state
BY DEF Observation

LEMMA CorrectedIsApproved ==
  ASSUME NEW r \in Observation, NEW v \in Values, NEW c \in Classes
  PROVE  /\ CorrectedFrom(r, v, c) \in Observation
         /\ CorrectedFrom(r, v, c).value = v
         /\ CorrectedFrom(r, v, c).state = "approved"
BY DEF Observation, CorrectedFrom, ApprovalState

LEMMA PublishedIsApproved ==
  ASSUME NEW v \in Values, NEW c \in Classes
  PROVE  /\ PublishedAs(v, c) \in Observation
         /\ PublishedAs(v, c).state = "approved"
BY RecordsAssumption DEF Observation, PublishedAs, ApprovalState

-----------------------------------------------------------------------------
(* One row changes.                                                        *)
RowsOK == row \in [Rows -> Observation \cup {NoRow}]

LEMMA OneRowChanges ==
  ASSUME RowsOK, NEW o \in Rows, NEW r \in Observation,
         row' = [row EXCEPT ![o] = r]
  PROVE  /\ RowsOK'
         /\ row'[o] = r
         /\ \A p \in Rows : p # o => row'[p] = row[p]
BY DEF RowsOK

LEMMA ExistingRow ==
  ASSUME RowsOK, NEW o \in Rows, Exists(o)
  PROVE  row[o] \in Observation
BY DEF RowsOK, Exists

(* A step is quiet if what it makes of an existing row has its value and   *)
(* keeps its approval.                                                     *)
LEMMA OneRowQuiet ==
  ASSUME RowsOK, NEW o \in Rows, NEW r \in Observation,
         row' = [row EXCEPT ![o] = r],
         corrections' = corrections,
         Exists(o) => /\ r.value = row[o].value
                      /\ row[o].state = "approved" => r.state = "approved"
  PROVE  RowsOK' /\ Quiet
<1>1. /\ RowsOK'
      /\ row'[o] = r
      /\ \A p \in Rows : p # o => row'[p] = row[p]
  BY OneRowChanges
<1>2. \A p \in Rows : Exists(p) => row[p] \in Observation
  BY ExistingRow
<1> QED
  BY <1>1, <1>2 DEF Quiet

LEMMA NoRowQuiet ==
  ASSUME RowsOK, UNCHANGED <<row, corrections>>
  PROVE  RowsOK' /\ Quiet
<1>1. \A p \in Rows : Exists(p) => row[p] \in Observation
  BY ExistingRow
<1> QED
  BY <1>1 DEF RowsOK, Quiet

-----------------------------------------------------------------------------
(* The steps of a session.                                                 *)
Typed ==
  /\ RowsOK
  /\ edit \in [Editors -> EditInFlight \cup {NoEdit}]
  /\ clock \in Nat

(* Every edit is of a row that exists, and no correction began in the      *)
(* future.                                                                 *)
EditsExist == \A e \in Editors : edit[e] # NoEdit => Exists(edit[e].row)

EditsTimed ==
  \A e \in Editors : edit[e].kind \in {"stamped", "correct"} => edit[e].at <= clock

LEMMA InFlight ==
  ASSUME Typed, NEW e \in Editors, edit[e].kind \in {"regrade", "correct"}
  PROVE  /\ edit[e] \in EditInFlight
         /\ edit[e].row \in Rows
         /\ edit[e].copy \in Observation
         /\ edit[e] # NoEdit
<1>1. edit[e] # NoEdit
  BY DEF NoEdit
<1> QED
  BY <1>1 DEF Typed, EditInFlight

LEMMA FinishStep ==
  ASSUME Typed, NEW e \in Editors, Finish(e)
  PROVE  EditsStep
BY DEF Typed, Finish, EditsStep

(* An edit begins, or goes on to the copy of its row.                      *)
LEMMA BeginStep ==
  ASSUME Typed, NEW e \in Editors, NEW q \in EditInFlight,
         edit' = [edit EXCEPT ![e] = q],
         UNCHANGED <<row, corrections>>, clock' \in Nat,
         Exists(q.row),
         q.kind # "stamped" => q.copy = row[q.row],
         q.kind # "regrade" => q.at <= clock'
  PROVE  Typed' /\ EditsStep /\ Quiet
<1>1. /\ edit'[e] = q
      /\ \A f \in Editors : f # e => edit'[f] = edit[f]
      /\ edit' \in [Editors -> EditInFlight \cup {NoEdit}]
  BY DEF Typed
<1>2. RowsOK' /\ Quiet
  BY NoRowQuiet DEF Typed
<1>3. EditsStep
  BY <1>1 DEF EditsStep
<1> QED
  BY <1>1, <1>2, <1>3 DEF Typed

LEMMA LoadStep ==
  ASSUME Typed, NEW e \in Editors, NEW o \in Rows, Load(e, o)
  PROVE  Typed' /\ EditsStep /\ Quiet
<1>1. PICK q : q = [kind |-> "regrade", row |-> o, copy |-> row[o]]
  OBVIOUS
<1>2. q.kind = "regrade" /\ q.row = o /\ q.copy = row[o] /\ q \in EditInFlight
  BY <1>1, ExistingRow DEF Typed, EditInFlight, Load
<1>3. edit' = [edit EXCEPT ![e] = q]
  BY <1>1 DEF Load
<1> QED
  BY <1>2, <1>3, BeginStep DEF Load, Typed

LEMMA StampStep ==
  ASSUME Typed, NEW e \in Editors, NEW o \in Rows, Stamp(e, o)
  PROVE  Typed' /\ EditsStep /\ Quiet
<1>1. clock' \in Nat
  BY DEF Stamp, Typed
<1>2. PICK q : q = [kind |-> "stamped", row |-> o, at |-> clock']
  OBVIOUS
<1>3. q.kind = "stamped" /\ q.row = o /\ q.at <= clock' /\ q \in EditInFlight
  BY <1>1, <1>2 DEF EditInFlight
<1>4. edit' = [edit EXCEPT ![e] = q]
  BY <1>2 DEF Stamp
<1> QED
  BY <1>1, <1>3, <1>4, BeginStep DEF Stamp

LEMMA ReadStep ==
  ASSUME Typed, EditsExist, EditsTimed, NEW e \in Editors, Read(e)
  PROVE  Typed' /\ EditsStep /\ Quiet
<1>1. edit[e] # NoEdit /\ edit[e].kind = "stamped"
  BY DEF Read, NoEdit
<1>2. edit[e].row \in Rows /\ edit[e].at \in Nat
  BY <1>1 DEF Typed, EditInFlight
<1>3. PICK o \in Rows, t \in Nat : o = edit[e].row /\ t = edit[e].at
  BY <1>2
<1>4. Exists(o) /\ t <= clock
  BY <1>1, <1>3 DEF EditsExist, EditsTimed
<1>5. PICK q : q = [kind |-> "correct", row |-> o, copy |-> row[o], at |-> t]
  OBVIOUS
<1>6. /\ q.kind = "correct" /\ q.row = o /\ q.copy = row[o] /\ q.at = t
      /\ q \in EditInFlight
  BY <1>4, <1>5, ExistingRow DEF Typed, EditInFlight
<1>7. edit' = [edit EXCEPT ![e] = q]
  BY <1>3, <1>5 DEF Read
<1> QED
  BY <1>4, <1>6, <1>7, BeginStep DEF Read, Typed

LEMMA RegradeStep ==
  ASSUME Typed, NEW e \in Editors, NEW u \in Users, NEW g \in Grades,
         Regrade(e, u, g), Exists(edit[e].row)
  PROVE  Typed' /\ EditsStep /\ Quiet
<1>1. edit[e].row \in Rows
  BY InFlight DEF Regrade
<1>2. PICK o \in Rows : o = edit[e].row
  BY <1>1
<1>3. row[o] \in Observation
  BY <1>2, ExistingRow DEF Typed
<1>4. PICK r : r = [row[o] EXCEPT !.grade = g]
  OBVIOUS
<1>5. r \in Observation /\ r.value = row[o].value /\ r.state = row[o].state
  BY <1>3, <1>4, WithGrade
<1>6. row' = [row EXCEPT ![o] = r]
  BY <1>2, <1>4 DEF Regrade, SaveGrade
<1>7. corrections' = corrections
  BY DEF Regrade
<1>8. RowsOK' /\ Quiet
  BY <1>5, <1>6, <1>7, OneRowQuiet DEF Typed
<1>9. EditsStep
  BY FinishStep DEF Regrade
<1> QED
  BY <1>8, <1>9 DEF Regrade, Finish, Typed

LEMMA GiveUpStep ==
  ASSUME Typed, NEW e \in Editors, GiveUp(e)
  PROVE  Typed' /\ EditsStep /\ Quiet
BY NoRowQuiet, FinishStep DEF GiveUp, Finish, Typed

LEMMA CorrectStep ==
  ASSUME Typed, NEW e \in Editors, NEW v \in Values, NEW c \in Classes,
         Correct(e, v, c)
  PROVE  Typed' /\ EditsStep /\ Corrected(e, v)
<1>1. edit[e] \in EditInFlight /\ edit[e].row \in Rows /\ edit[e].copy \in Observation
  BY InFlight DEF Correct
<1>2. PICK o \in Rows : o = edit[e].row
  BY <1>1
<1>3. PICK r : r = CorrectedFrom(edit[e].copy, v, c)
  OBVIOUS
<1>4. r \in Observation /\ r.value = v /\ r.state = "approved"
  BY <1>1, <1>3, CorrectedIsApproved
<1>5. row' = [row EXCEPT ![o] = r]
  BY <1>2, <1>3 DEF Correct
<1>6. /\ RowsOK'
      /\ row'[o] = r
      /\ \A p \in Rows : p # o => row'[p] = row[p]
  BY <1>4, <1>5, OneRowChanges DEF Typed
<1>7. corrections' =
        [corrections EXCEPT ![edit[e].row] =
           Append(@, Correction(edit[e].copy.value, v, edit[e].at))]
  BY DEF Correct, RecordCorrection, Snapshot
<1>8. Corrected(e, v)
  BY <1>1, <1>2, <1>4, <1>6, <1>7 DEF Corrected, Correct
<1>9. EditsStep
  BY FinishStep DEF Correct
<1> QED
  BY <1>6, <1>8, <1>9 DEF Correct, Finish, Typed

-----------------------------------------------------------------------------
(* The other steps.                                                        *)
LEMMA EnterStep ==
  ASSUME Typed, NEW o \in Rows, NEW v \in Values, Enter(o, v)
  PROVE  Typed' /\ EditsStep /\ Quiet
<1>1. PICK r : r = [state |-> "pending", value |-> v, grade |-> Ungraded, class |-> StaffOnly]
  OBVIOUS
<1>2. r \in Observation
  BY <1>1, RecordsAssumption DEF Observation, ApprovalState
<1>3. row' = [row EXCEPT ![o] = r]
  BY <1>1 DEF Enter
<1>4. RowsOK' /\ Quiet
  BY <1>2, <1>3, OneRowQuiet DEF Enter, Typed
<1> QED
  BY <1>4 DEF Enter, Typed, EditsStep

LEMMA DiscardStep ==
  ASSUME Typed, NEW o \in Rows, Discard(o)
  PROVE  Typed' /\ EditsStep /\ Quiet
<1>1. row[o] \in Observation /\ row[o].state = "pending"
  BY ExistingRow DEF Discard, Typed
<1>2. PICK r : r = [row[o] EXCEPT !.state = "rejected"]
  OBVIOUS
<1>3. r \in Observation /\ r.value = row[o].value
  BY <1>1, <1>2, WithState DEF ApprovalState
<1>4. row' = [row EXCEPT ![o] = r]
  BY <1>2 DEF Discard
<1>5. RowsOK' /\ Quiet
  BY <1>1, <1>3, <1>4, OneRowQuiet DEF Discard, Typed
<1> QED
  BY <1>5 DEF Discard, Typed, EditsStep

LEMMA PublishStep ==
  ASSUME Typed, NEW new \in Publications, NEW c \in Classes, Publish(new, c)
  PROVE  Typed' /\ EditsStep /\ Quiet
<1>1. PICK S \in SUBSET Rows : new \in [S -> Values]
  BY RecordsAssumption
<1>2. \A o \in S : PublishedAs(new[o], c) \in Observation
  BY <1>1, PublishedIsApproved
<1>3. \A o \in S : ~Exists(o)
  BY <1>1 DEF Publish
<1>4. row' = [o \in Rows |-> IF o \in S THEN PublishedAs(new[o], c) ELSE row[o]]
  BY <1>1 DEF Publish
<1>5. RowsOK'
  BY <1>2, <1>4 DEF RowsOK, Typed
<1>6. \A o \in Rows : Exists(o) => row'[o] = row[o] /\ row[o] \in Observation
  BY <1>3, <1>4, ExistingRow DEF Typed
<1> QED
  BY <1>5, <1>6 DEF Publish, Quiet, Typed, EditsStep

LEMMA ApprovePeriodStep ==
  ASSUME Typed, NEW window \in SUBSET Rows, ApprovePeriod(window)
  PROVE  Typed' /\ EditsStep /\ Quiet
<1>1. ASSUME NEW o \in Rows, o \in Unapproved(window)
      PROVE  /\ [row[o] EXCEPT !.state = "approved"] \in Observation
             /\ [row[o] EXCEPT !.state = "approved"].value = row[o].value
             /\ [row[o] EXCEPT !.state = "approved"].state = "approved"
  BY <1>1, ExistingRow, WithState DEF Unapproved, Typed, ApprovalState
<1>2. row' = [o \in Rows |->
        IF o \in Unapproved(window) THEN [row[o] EXCEPT !.state = "approved"] ELSE row[o]]
  BY DEF ApprovePeriod
<1>3. \A o \in Rows :
        /\ o \in Unapproved(window) => row'[o] = [row[o] EXCEPT !.state = "approved"]
        /\ o \notin Unapproved(window) => row'[o] = row[o]
  BY <1>2
<1>4. RowsOK'
  <2>1. \A o \in Rows : row'[o] \in Observation \cup {NoRow}
    BY <1>1, <1>3 DEF Typed, RowsOK
  <2>2. row' = [o \in Rows |-> row'[o]]
    BY <1>2
  <2> QED
    BY <2>1, <2>2 DEF RowsOK
<1>5. corrections' = corrections
  BY DEF ApprovePeriod
<1>6. \A o \in Rows : Exists(o) => row[o] \in Observation
  BY ExistingRow DEF Typed
<1>7. Quiet
  BY <1>1, <1>3, <1>5, <1>6 DEF Quiet
<1> QED
  BY <1>4, <1>7 DEF ApprovePeriod, Typed, EditsStep

(* Every step is quiet or corrects one row.                                *)
RowStep == EditsStep /\ (Quiet \/ \E e \in Editors, v \in Values : Corrected(e, v))

AnyStep == RowStep /\ clock <= clock'

LEMMA ClockStep ==
  ASSUME Typed, [RecordsNext]_ovars
  PROVE  clock <= clock'
<1>1. ASSUME NEW e \in Editors, NEW o \in Rows, Stamp(e, o)
      PROVE  clock <= clock'
  BY <1>1 DEF Stamp, Typed
<1>2. CASE UNCHANGED clock
  BY <1>2 DEF Typed
<1> QED
  BY <1>1, <1>2
  DEF RecordsNext, ovars, Enter, Discard, Publish, ApprovePeriod, Editing, Load, Read,
      Regrade, Correct, GiveUp

LEMMA NextIsRowStep ==
  ASSUME Typed, EditsExist, EditsTimed, [RecordsNext]_ovars
  PROVE  Typed' /\ RowStep
<1>1. ASSUME NEW o \in Rows, NEW v \in Values, Enter(o, v)
      PROVE  Typed' /\ RowStep
  BY <1>1, EnterStep DEF RowStep
<1>2. ASSUME NEW o \in Rows, Discard(o)
      PROVE  Typed' /\ RowStep
  BY <1>2, DiscardStep DEF RowStep
<1>3. ASSUME NEW new \in Publications, NEW c \in Classes, Publish(new, c)
      PROVE  Typed' /\ RowStep
  BY <1>3, PublishStep DEF RowStep
<1>4. ASSUME NEW window \in SUBSET Rows, ApprovePeriod(window)
      PROVE  Typed' /\ RowStep
  BY <1>4, ApprovePeriodStep DEF RowStep
<1>5. ASSUME NEW e \in Editors, Editing(e)
      PROVE  Typed' /\ RowStep
  <2>1. ASSUME NEW o \in Rows, Load(e, o)
        PROVE  Typed' /\ RowStep
    BY <2>1, LoadStep DEF RowStep
  <2>5. ASSUME NEW o \in Rows, Stamp(e, o)
        PROVE  Typed' /\ RowStep
    BY <2>5, StampStep DEF RowStep
  <2>6. ASSUME Read(e)
        PROVE  Typed' /\ RowStep
    BY <2>6, ReadStep DEF RowStep
  <2>2. ASSUME NEW u \in Users, NEW g \in Grades, Regrade(e, u, g)
        PROVE  Typed' /\ RowStep
    <3>1. edit[e] # NoEdit
      BY <2>2, InFlight DEF Regrade
    <3> QED
      BY <2>2, <3>1, RegradeStep DEF RowStep, EditsExist
  <2>3. ASSUME NEW v \in Values, NEW c \in Classes, Correct(e, v, c)
        PROVE  Typed' /\ RowStep
    BY <2>3, CorrectStep DEF RowStep
  <2>4. ASSUME GiveUp(e)
        PROVE  Typed' /\ RowStep
    BY <2>4, GiveUpStep DEF RowStep
  <2> QED
    BY <1>5, <2>1, <2>2, <2>3, <2>4, <2>5, <2>6 DEF Editing
<1>6. ASSUME UNCHANGED ovars
      PROVE  Typed' /\ RowStep
  BY <1>6, NoRowQuiet DEF ovars, Typed, EditsStep, RowStep
<1> QED
  BY <1>1, <1>2, <1>3, <1>4, <1>5, <1>6 DEF RecordsNext

LEMMA NextIsAnyStep ==
  ASSUME Typed, EditsExist, EditsTimed, [RecordsNext]_ovars
  PROVE  Typed' /\ AnyStep
BY ClockStep, NextIsRowStep DEF AnyStep

-----------------------------------------------------------------------------
(* Approval is for good, and nothing ever vanishes.                        *)
LEMMA RowsStay ==
  ASSUME Typed, Typed', AnyStep, NEW o \in Rows, Exists(o)
  PROVE  Exists(o)' /\ (Approved(o) => Approved(o)')
<1>1. \A p \in Rows : Exists(p) => row[p] # NoRow
  BY DEF Exists
<1>2. CASE Quiet
  <2>1. row'[o] \in Observation
    BY <1>2 DEF Quiet
  <2> QED
    BY <1>2, <2>1, ObservationFields DEF Quiet, Exists, Approved
<1>3. ASSUME NEW e \in Editors, NEW v \in Values, Corrected(e, v)
      PROVE  Exists(o)' /\ (Approved(o) => Approved(o)')
  <2>1. CASE o = edit[e].row
    BY <1>3, <2>1, ObservationFields DEF Corrected, Exists, Approved
  <2>2. CASE o # edit[e].row
    BY <1>3, <2>2 DEF Corrected, Exists, Approved
  <2> QED
    BY <2>1, <2>2
<1> QED
  BY <1>2, <1>3 DEF AnyStep, RowStep

LEMMA EditsExistStep ==
  ASSUME Typed, Typed', EditsExist, AnyStep
  PROVE  EditsExist'
<1> SUFFICES ASSUME NEW e \in Editors, edit'[e] # NoEdit
             PROVE  (Exists(edit[e].row))'
  BY DEF EditsExist
<1>1. CASE edit'[e] = edit[e]
  <2>1. Exists(edit[e].row) /\ edit[e].row \in Rows
    BY <1>1 DEF EditsExist, Typed, EditInFlight
  <2>2. PICK o \in Rows : o = edit[e].row
    BY <2>1
  <2>3. row'[o] # NoRow
    BY <2>1, <2>2, RowsStay DEF Exists
  <2> QED
    BY <1>1, <2>2, <2>3 DEF Exists
<1>2. CASE edit'[e] # edit[e]
  BY <1>2 DEF AnyStep, RowStep, EditsStep, Exists
<1> QED
  BY <1>1, <1>2

LEMMA EditsTimedStep ==
  ASSUME Typed, Typed', EditsTimed, AnyStep
  PROVE  EditsTimed'
<1> SUFFICES ASSUME NEW e \in Editors, edit'[e].kind \in {"stamped", "correct"}
             PROVE  edit'[e].at <= clock'
  BY DEF EditsTimed
<1>1. CASE edit'[e] = edit[e]
  <2>1. edit[e] # NoEdit
    BY <1>1 DEF NoEdit
  <2>2. edit[e].at \in Nat /\ edit[e].at <= clock
    BY <1>1, <2>1 DEF EditsTimed, Typed, EditInFlight
  <2> QED
    BY <1>1, <2>2 DEF AnyStep, Typed
<1>2. CASE edit'[e] # edit[e]
  BY <1>2 DEF AnyStep, RowStep, EditsStep, NoEdit
<1> QED
  BY <1>1, <1>2

-----------------------------------------------------------------------------
(* The history.                                                            *)
Logged == corrections \in [Rows -> Seq(CorrectionRow)]

(* A correction is appended to the history of its row.                     *)
Appended(o, h) ==
  /\ corrections' \in [Rows -> Seq(CorrectionRow)]
  /\ corrections'[o] # << >>
  /\ Len(corrections[o]) \in Nat
  /\ DOMAIN corrections[o] = 1 .. Len(corrections[o])
  /\ Len(corrections'[o]) = Len(corrections[o]) + 1
  /\ DOMAIN corrections'[o] = 1 .. Len(corrections[o]) + 1
  /\ corrections'[o][Len(corrections[o]) + 1] = h
  /\ \A k \in DOMAIN corrections[o] : corrections'[o][k] = corrections[o][k]
  /\ corrections[o] = << >> <=> Len(corrections[o]) = 0
  /\ \A p \in Rows : p # o => corrections'[p] = corrections[p]

LEMMA CorrectionsGrow ==
  ASSUME Typed, Logged, NEW e \in Editors, NEW v \in Values, Corrected(e, v)
  PROVE  /\ edit[e].row \in Rows
         /\ Appended(edit[e].row, Correction(edit[e].copy.value, v, edit[e].at))
<1>1. edit[e].row \in Rows /\ edit[e].copy.value \in Values /\ edit[e].at \in Nat
  BY ObservationFields DEF Corrected, EditInFlight
<1>2. PICK o \in Rows : o = edit[e].row
  BY <1>1
<1>3. PICK h : h = Correction(edit[e].copy.value, v, edit[e].at)
  OBVIOUS
<1>4. h \in CorrectionRow
  BY <1>1, <1>3 DEF Correction, CorrectionRow, Typed
<1>5. PICK L : L = corrections[o]
  OBVIOUS
<1>6. L \in Seq(CorrectionRow)
  BY <1>5 DEF Logged
<1>7. corrections' = [corrections EXCEPT ![o] = Append(L, h)]
  BY <1>2, <1>3, <1>5 DEF Corrected
<1>8. /\ Append(L, h) \in Seq(CorrectionRow)
      /\ Len(Append(L, h)) = Len(L) + 1
      /\ DOMAIN Append(L, h) = 1 .. Len(L) + 1
      /\ Append(L, h)[Len(L) + 1] = h
      /\ \A k \in DOMAIN L : Append(L, h)[k] = L[k]
      /\ DOMAIN L = 1 .. Len(L)
      /\ Len(L) \in Nat
  BY <1>4, <1>6
<1>9. Append(L, h) # << >> /\ (L = << >> <=> Len(L) = 0)
  BY <1>6, <1>8, EmptySeq
<1>10. /\ corrections'[o] = Append(L, h)
       /\ \A p \in Rows : p # o => corrections'[p] = corrections[p]
  BY <1>7 DEF Logged
<1>11. corrections' \in [Rows -> Seq(CorrectionRow)]
  BY <1>7, <1>8 DEF Logged
<1>12. Appended(o, h)
  BY <1>5, <1>8, <1>9, <1>10, <1>11 DEF Appended
<1> QED
  BY <1>1, <1>2, <1>3, <1>12

LEMMA LoggedStep ==
  ASSUME Typed, Logged, AnyStep
  PROVE  Logged'
<1>1. CASE Quiet
  BY <1>1 DEF Quiet, Logged
<1>2. ASSUME NEW e \in Editors, NEW v \in Values, Corrected(e, v)
      PROVE  Logged'
  BY <1>2, CorrectionsGrow DEF Appended, Logged
<1> QED
  BY <1>1, <1>2 DEF AnyStep, RowStep

(* The strengthening of LastCorrectionIsCurrent: the current value is the  *)
(* one of the correction saved last, no correction was saved before it     *)
(* began or after the last one, and an edit that began after that one was  *)
(* saved has read its value.                                               *)
Latest(o) == corrections[o][Len(corrections[o])]

LatestIsCurrent ==
  \A o \in Rows : corrections[o] # << >> => Approved(o) /\ row[o].value = Latest(o).new

InOrder ==
  \A o \in Rows : \A k \in DOMAIN corrections[o] :
    /\ corrections[o][k].at <= corrections[o][k].saved
    /\ corrections[o][k].saved <= Latest(o).saved
    /\ Latest(o).saved <= clock

ReadsLatest(q) ==
  q.kind = "correct" /\ corrections[q.row] # << >> /\ Latest(q.row).saved < q.at =>
    q.copy.value = Latest(q.row).new

EditsReadLatest == \A e \in Editors : ReadsLatest(edit[e])

LEMMA LatestIsThere ==
  ASSUME Logged, NEW o \in Rows, corrections[o] # << >>
  PROVE  /\ Len(corrections[o]) \in DOMAIN corrections[o]
         /\ Latest(o) \in CorrectionRow
BY EmptySeq, LenProperties DEF Logged, Latest

LEMMA LatestIsCurrentStep ==
  ASSUME Typed, Typed', Logged, AnyStep, LatestIsCurrent
  PROVE  LatestIsCurrent'
<1> SUFFICES ASSUME NEW o \in Rows, corrections'[o] # << >>
             PROVE  Approved(o)' /\ row'[o].value = Latest(o)'.new
  BY DEF LatestIsCurrent
<1>1. ASSUME corrections'[o] = corrections[o]
      PROVE  Exists(o) /\ Approved(o)' /\ row[o].value = Latest(o)'.new
  BY <1>1, RowsStay DEF LatestIsCurrent, Latest, Approved
<1>2. CASE Quiet
  BY <1>1, <1>2 DEF Quiet
<1>3. ASSUME NEW e \in Editors, NEW v \in Values, Corrected(e, v)
      PROVE  Approved(o)' /\ row'[o].value = Latest(o)'.new
  <2>1. Appended(edit[e].row, Correction(edit[e].copy.value, v, edit[e].at))
    BY <1>3, CorrectionsGrow
  <2>2. CASE o = edit[e].row
    <3>1. row'[o].value = v /\ Approved(o)'
      BY <1>3, <2>2, ObservationFields DEF Corrected, Approved, Exists
    <3>2. Latest(o)' = Correction(edit[e].copy.value, v, edit[e].at)
      BY <2>1, <2>2 DEF Appended, Latest
    <3> QED
      BY <3>1, <3>2 DEF Correction
  <2>3. CASE o # edit[e].row
    BY <1>1, <1>3, <2>1, <2>3 DEF Appended, Corrected
  <2> QED
    BY <2>2, <2>3
<1> QED
  BY <1>2, <1>3 DEF AnyStep, RowStep

LEMMA InOrderStep ==
  ASSUME Typed, Typed', Logged, AnyStep, EditsTimed, InOrder
  PROVE  InOrder'
<1> SUFFICES ASSUME NEW o \in Rows, NEW k \in DOMAIN corrections'[o]
             PROVE  /\ corrections'[o][k].at <= corrections'[o][k].saved
                    /\ corrections'[o][k].saved <= Latest(o)'.saved
                    /\ Latest(o)'.saved <= clock'
  BY DEF InOrder
<1>1. ASSUME corrections'[o] = corrections[o]
      PROVE  /\ corrections'[o][k].at <= corrections'[o][k].saved
             /\ corrections'[o][k].saved <= Latest(o)'.saved
             /\ Latest(o)'.saved <= clock'
  <2>1. corrections[o] # << >> /\ k \in DOMAIN corrections[o]
    BY <1>1 DEF Logged
  <2>2. Latest(o) \in CorrectionRow /\ Latest(o)' = Latest(o)
    BY <1>1, <2>1, LatestIsThere DEF Latest
  <2>3. Latest(o).saved \in Nat /\ clock \in Nat /\ clock' \in Nat /\ clock <= clock'
    BY <2>2 DEF CorrectionRow, Typed, AnyStep
  <2> QED
    BY <1>1, <2>1, <2>2, <2>3 DEF InOrder
<1>2. CASE Quiet
  BY <1>1, <1>2 DEF Quiet
<1>3. ASSUME NEW e \in Editors, NEW v \in Values, Corrected(e, v),
             corrections'[o] # corrections[o]
      PROVE  /\ corrections'[o][k].at <= corrections'[o][k].saved
             /\ corrections'[o][k].saved <= Latest(o)'.saved
             /\ Latest(o)'.saved <= clock'
  <2>1. /\ Appended(edit[e].row, Correction(edit[e].copy.value, v, edit[e].at))
        /\ o = edit[e].row
    BY <1>3, CorrectionsGrow DEF Appended
  <2>2. edit[e].at \in Nat /\ edit[e].at <= clock
    BY <1>3 DEF Corrected, EditsTimed, EditInFlight
  <2>3. /\ Latest(o)' = Correction(edit[e].copy.value, v, edit[e].at)
        /\ Latest(o)'.at = edit[e].at
        /\ Latest(o)'.saved = clock
    BY <2>1 DEF Appended, Latest, Correction
  <2>4. clock \in Nat /\ clock' \in Nat /\ clock <= clock'
    BY DEF Typed, AnyStep
  <2>5. CASE k \in DOMAIN corrections[o]
    <3>1. corrections[o][k] = corrections'[o][k] /\ corrections[o] # << >>
      BY <2>1, <2>5 DEF Appended
    <3>2. Latest(o) \in CorrectionRow /\ corrections[o][k] \in CorrectionRow
      BY <2>5, <3>1, LatestIsThere DEF Logged
    <3>3. Latest(o).saved \in Nat /\ corrections[o][k].saved \in Nat
      BY <3>2 DEF CorrectionRow
    <3> QED
      BY <2>3, <2>4, <2>5, <3>1, <3>3 DEF InOrder
  <2>6. CASE k \notin DOMAIN corrections[o]
    <3>1. corrections'[o][k] = Latest(o)'
      BY <2>1, <2>6 DEF Appended, Latest
    <3> QED
      BY <2>2, <2>3, <2>4, <3>1
  <2> QED
    BY <2>5, <2>6
<1> QED
  BY <1>1, <1>2, <1>3 DEF AnyStep, RowStep

LEMMA EditsReadLatestStep ==
  ASSUME Typed, Typed', Logged, AnyStep, EditsTimed, LatestIsCurrent, EditsReadLatest
  PROVE  EditsReadLatest'
<1> SUFFICES ASSUME NEW e \in Editors, edit'[e].kind = "correct"
             PROVE  ReadsLatest(edit[e])'
  BY DEF EditsReadLatest, ReadsLatest
<1>1. edit'[e] # NoEdit /\ edit'[e].row \in Rows
  BY DEF NoEdit, Typed, EditInFlight
<1>2. PICK o \in Rows : o = edit'[e].row
  BY <1>1
<1>3. CASE edit'[e] # edit[e]
  <2>1. /\ UNCHANGED <<row, corrections>>
        /\ edit'[e].copy = row[o]
    BY <1>1, <1>2, <1>3 DEF AnyStep, RowStep, EditsStep
  <2> QED
    BY <1>2, <2>1 DEF LatestIsCurrent, Latest, ReadsLatest
<1>4. CASE edit'[e] = edit[e] /\ corrections'[o] = corrections[o]
  BY <1>2, <1>4 DEF EditsReadLatest, ReadsLatest, Latest
<1>5. CASE edit'[e] = edit[e] /\ corrections'[o] # corrections[o]
  <2>1. PICK f \in Editors, v \in Values : Corrected(f, v)
    BY <1>5 DEF AnyStep, RowStep, Quiet
  <2>2. /\ Appended(edit[f].row, Correction(edit[f].copy.value, v, edit[f].at))
        /\ o = edit[f].row
    BY <1>5, <2>1, CorrectionsGrow DEF Appended
  <2>3. Latest(o)'.saved = clock
    BY <2>2 DEF Appended, Latest, Correction
  <2>4. edit[e].at \in Nat /\ edit[e].at <= clock
    BY <1>1, <1>5 DEF Typed, EditInFlight, EditsTimed
  <2>5. ~(Latest(o)'.saved < edit'[e].at)
    BY <1>5, <2>3, <2>4 DEF Typed
  <2> QED
    BY <1>2, <2>5 DEF ReadsLatest
<1> QED
  BY <1>3, <1>4, <1>5

(* ... and what it is for: a correction that is newer in the list than the *)
(* last one to be saved was saved before it, and so overlapped it.         *)
LEMMA LatestAccounts ==
  ASSUME Logged, LatestIsCurrent, InOrder
  PROVE  LastCorrectionIsCurrent
<1> SUFFICES ASSUME NEW o \in Rows, corrections[o] # << >>
             PROVE  /\ Approved(o)
                    /\ \E k \in DOMAIN corrections[o] :
                         /\ row[o].value = corrections[o][k].new
                         /\ \A j \in DOMAIN corrections[o] :
                              corrections[o][j].at > corrections[o][k].at =>
                                Overlap(corrections[o][j], corrections[o][k])
  BY DEF LastCorrectionIsCurrent
<1>1. PICK n \in DOMAIN corrections[o] : Latest(o) = corrections[o][n]
  BY LatestIsThere DEF Latest
<1>2. ASSUME NEW j \in DOMAIN corrections[o],
             corrections[o][j].at > corrections[o][n].at
      PROVE  Overlap(corrections[o][j], corrections[o][n])
  <2>1. corrections[o][j] \in CorrectionRow /\ corrections[o][n] \in CorrectionRow
    BY <1>1 DEF Logged
  <2>2. /\ corrections[o][j].at <= corrections[o][j].saved
        /\ corrections[o][j].saved <= corrections[o][n].saved
    BY <1>1 DEF InOrder
  <2> QED
    BY <1>2, <2>1, <2>2 DEF Overlap, CorrectionRow
<1> QED
  BY <1>1, <1>2 DEF LatestIsCurrent

(* What a row once had, it will always have had.                           *)
LEMMA OnceHadStays ==
  ASSUME Typed, Logged, AnyStep, EditsAreRooted,
         NEW o \in Rows, Exists(o), NEW v, OnceHad(o, v)
  PROVE  OnceHad(o, v)'
<1>1. CASE Quiet
  BY <1>1 DEF Quiet, OnceHad
<1>2. ASSUME NEW e \in Editors, NEW w \in Values, Corrected(e, w)
      PROVE  OnceHad(o, v)'
  <2>1. Appended(edit[e].row, Correction(edit[e].copy.value, w, edit[e].at))
    BY <1>2, CorrectionsGrow
  <2>2. CASE o # edit[e].row
    BY <1>2, <2>1, <2>2 DEF Corrected, Appended, OnceHad
  <2>3. CASE o = edit[e].row /\ corrections[o] = << >>
    <3>1. edit[e] # NoEdit /\ edit[e].kind # "stamped"
      BY <1>2 DEF Corrected, EditInFlight, NoEdit
    <3>2. edit[e].copy.value = row[o].value
      BY <3>1, <2>3 DEF EditsAreRooted, OnceHad
    <3>3. corrections'[o][1].old = edit[e].copy.value
      BY <2>1, <2>3 DEF Appended, Correction
    <3>4. v = row[o].value
      BY <2>3 DEF OnceHad
    <3> QED
      BY <2>1, <2>3, <3>2, <3>3, <3>4 DEF Appended, OnceHad
  <2>4. CASE o = edit[e].row /\ corrections[o] # << >>
    <3>1. PICK n \in Nat :
            /\ n # 0
            /\ DOMAIN corrections[o] = 1 .. n
            /\ DOMAIN corrections'[o] = 1 .. n + 1
            /\ corrections'[o] # << >>
            /\ \A k \in 1 .. n : corrections'[o][k] = corrections[o][k]
      BY <2>1, <2>4 DEF Appended
    <3>2. 1 \in 1 .. n /\ (1 .. n) \subseteq 1 .. n + 1
      BY <3>1
    <3> QED
      BY <2>4, <3>1, <3>2 DEF OnceHad
  <2> QED
    BY <2>2, <2>3, <2>4
<1> QED
  BY <1>1, <1>2 DEF AnyStep, RowStep

LEMMA EditsAreRootedStep ==
  ASSUME Typed, Typed', Logged, AnyStep, LatestIsCurrent, EditsAreRooted
  PROVE  EditsAreRooted'
<1>1. EditsExist
  BY DEF EditsExist, EditsAreRooted
<1>2. EditsExist'
  BY <1>1, EditsExistStep
<1> SUFFICES ASSUME NEW e \in Editors, edit'[e] # NoEdit, edit'[e].kind # "stamped"
             PROVE  OnceHad(edit[e].row, edit[e].copy.value)'
  BY <1>2 DEF EditsExist, EditsAreRooted
<1>3. PICK o \in Rows : o = edit'[e].row
  BY DEF Typed, EditInFlight
<1>4. PICK v : v = edit'[e].copy.value
  OBVIOUS
<1>5. CASE edit'[e] = edit[e]
  <2>1. Exists(o) /\ OnceHad(o, v)
    BY <1>3, <1>4, <1>5 DEF EditsAreRooted
  <2>2. OnceHad(o, v)'
    BY <2>1, OnceHadStays
  <2> QED
    BY <1>3, <1>4, <2>2 DEF OnceHad
<1>6. CASE edit'[e] # edit[e]
  <2>1. /\ UNCHANGED <<row, corrections>>
        /\ v = row[o].value
    BY <1>3, <1>4, <1>6 DEF AnyStep, RowStep, EditsStep
  <2>2. corrections[o] # << >> =>
          /\ Len(corrections[o]) \in DOMAIN corrections[o]
          /\ v = corrections[o][Len(corrections[o])].new
    BY <2>1, LatestIsThere DEF LatestIsCurrent, Latest
  <2>3. OnceHad(o, v)
    BY <2>1, <2>2 DEF OnceHad
  <2> QED
    BY <1>3, <1>4, <2>1, <2>3 DEF OnceHad
<1> QED
  BY <1>5, <1>6

(* A correction that is saved fits the history: what it replaces is what   *)
(* the row once had, and the value of the correction before unless the two *)
(* overlapped.                                                             *)
Chained(o, k) ==
  k > 1 => \/ corrections[o][k].old = corrections[o][k - 1].new
           \/ Overlap(corrections[o][k - 1], corrections[o][k])

Rooted(o, k) ==
  \/ corrections[o][k].old = corrections[o][1].old
  \/ \E j \in 1 .. k - 1 : corrections[o][k].old = corrections[o][j].new

LEMMA HistoryStep ==
  ASSUME Typed, Logged, AnyStep, InOrder, EditsTimed, EditsReadLatest,
         EditsAreRooted, HistoryIsRooted
  PROVE  HistoryIsRooted'
<1>1. \A o \in Rows : \A k \in DOMAIN corrections[o] : Chained(o, k) /\ Rooted(o, k)
  BY DEF HistoryIsRooted, Chained, Rooted
<1> SUFFICES ASSUME NEW o \in Rows, NEW k \in DOMAIN corrections'[o]
             PROVE  Chained(o, k)' /\ Rooted(o, k)'
  BY DEF HistoryIsRooted, Chained, Rooted
<1>2. CASE corrections'[o] = corrections[o]
  BY <1>1, <1>2 DEF Chained, Rooted
<1>3. CASE Quiet
  BY <1>2, <1>3 DEF Quiet
<1>4. ASSUME NEW e \in Editors, NEW v \in Values, Corrected(e, v),
             corrections'[o] # corrections[o]
      PROVE  Chained(o, k)' /\ Rooted(o, k)'
  <2>1. /\ Appended(edit[e].row, Correction(edit[e].copy.value, v, edit[e].at))
        /\ o = edit[e].row
    BY <1>4, CorrectionsGrow DEF Appended
  <2>2. PICK n \in Nat :
          /\ n = Len(corrections[o])
          /\ DOMAIN corrections[o] = 1 .. n
          /\ DOMAIN corrections'[o] = 1 .. n + 1
          /\ \A j \in 1 .. n : corrections'[o][j] = corrections[o][j]
    BY <2>1 DEF Appended
  <2>3. CASE k # n + 1
    <3>1. k \in 1 .. n /\ Chained(o, k) /\ Rooted(o, k)
      BY <1>1, <2>2, <2>3
    <3>2. 1 \in 1 .. n /\ (1 .. k - 1) \subseteq 1 .. n /\ (k > 1 => k - 1 \in 1 .. n)
      BY <2>2, <3>1
    <3> QED
      BY <2>2, <3>1, <3>2 DEF Chained, Rooted
  <2>4. CASE k = n + 1
    <3>1. /\ corrections'[o][k].old = edit[e].copy.value
          /\ corrections'[o][k].at = edit[e].at
          /\ corrections'[o][k].saved = clock
      BY <2>1, <2>2, <2>4 DEF Appended, Correction
    <3>2. edit[e] # NoEdit /\ edit[e].kind = "correct" /\ edit[e].at \in Nat
      BY <1>4 DEF Corrected, EditInFlight, NoEdit
    <3>3. OnceHad(o, edit[e].copy.value)
      BY <2>1, <3>2 DEF EditsAreRooted
    <3>4. CASE corrections[o] = << >>
      BY <2>1, <2>2, <2>4, <3>4 DEF Appended, Chained, Rooted
    <3>5. CASE corrections[o] # << >>
      <4>1. n \in 1 .. n /\ 1 \in 1 .. n /\ k - 1 = n
        BY <2>1, <2>2, <2>4, <3>5 DEF Appended
      <4>2. Rooted(o, k)'
        BY <2>2, <3>1, <3>3, <3>5, <4>1 DEF OnceHad, Rooted
      <4>3. corrections[o][n] = Latest(o) /\ corrections'[o][k - 1] = Latest(o)
        BY <2>2, <4>1 DEF Latest
      <4>4. /\ Latest(o) \in CorrectionRow /\ Latest(o).at <= Latest(o).saved
            /\ Latest(o).saved <= clock
        BY <2>2, <3>5, <4>1, <4>3, LatestIsThere DEF InOrder
      <4>5. CASE Latest(o).saved < edit[e].at
        <5>1. edit[e].copy.value = Latest(o).new
          BY <2>1, <3>2, <3>5, <4>5 DEF EditsReadLatest, ReadsLatest
        <5> QED
          BY <3>1, <4>2, <4>3, <5>1 DEF Chained
      <4>6. CASE ~(Latest(o).saved < edit[e].at)
        <5>1. /\ Latest(o).at \in Nat /\ Latest(o).saved \in Nat /\ clock \in Nat
              /\ edit[e].at \in Nat
          BY <3>2, <4>4 DEF CorrectionRow, Typed
        <5>2. Latest(o).at <= clock /\ edit[e].at <= Latest(o).saved
          BY <4>4, <4>6, <5>1
        <5> QED
          BY <3>1, <4>2, <4>3, <5>2 DEF Chained, Overlap
      <4> QED
        BY <4>5, <4>6
    <3> QED
      BY <3>4, <3>5
  <2> QED
    BY <2>3, <2>4
<1> QED
  BY <1>2, <1>3, <1>4 DEF AnyStep, RowStep

-----------------------------------------------------------------------------
(* The two columns that the steps above do not look at.                    *)
Counted ==
  /\ regrades \in [Rows -> Seq([old : Grades, new : Grades])]
  /\ periods \in Seq(Nat)

LEMMA TypeIsTyped == RecordsTypeOK <=> Typed /\ Logged /\ Counted
BY DEF RecordsTypeOK, Typed, RowsOK, Logged, CorrectionRow, Counted

LEMMA CountedStep ==
  ASSUME Typed, Counted, [RecordsNext]_ovars
  PROVE  Counted'
<1>1. ASSUME NEW window \in SUBSET Rows, ApprovePeriod(window)
      PROVE  Counted'
  <2>1. Unapproved(window) \subseteq Rows
    BY DEF Unapproved
  <2>2. Cardinality(Unapproved(window)) \in Nat
    BY <2>1, RecordsAssumption, FS_Subset, FS_CardinalityType
  <2>3. PICK n \in Nat : n = Cardinality(Unapproved(window))
    BY <2>2
  <2>4. periods' = Append(periods, n) /\ regrades' = regrades
    BY <1>1, <2>3 DEF ApprovePeriod
  <2>5. periods \in Seq(Nat) => Append(periods, n) \in Seq(Nat)
    BY <2>3
  <2> QED
    BY <2>4, <2>5 DEF Counted
<1>2. ASSUME NEW e \in Editors, NEW u \in Users, NEW g \in Grades, Regrade(e, u, g)
      PROVE  Counted'
  <2>1. edit[e].row \in Rows /\ edit[e].copy \in Observation
    BY <1>2, InFlight DEF Regrade
  <2>2. PICK o \in Rows : o = edit[e].row
    BY <2>1
  <2>3. PICK h : h = Change(edit[e].copy.grade, g)
    OBVIOUS
  <2>4. h \in [old : Grades, new : Grades]
    BY <2>1, <2>3, ObservationFields DEF Change
  <2>5. PICK L : L = Append(regrades[o], h)
    OBVIOUS
  <2>6. \/ regrades' = regrades
        \/ regrades' = [regrades EXCEPT ![o] = L]
    BY <1>2, <2>2, <2>3, <2>5 DEF Regrade
  <2>7. L \in Seq([old : Grades, new : Grades])
    <3>1. PICK T : T = [old : Grades, new : Grades]
      OBVIOUS
    <3>2. regrades[o] \in Seq(T) /\ h \in T
      BY <2>4, <3>1 DEF Counted
    <3>3. Append(regrades[o], h) \in Seq(T)
      BY <3>2
    <3> QED
      BY <2>5, <3>1, <3>3
  <2>8. regrades' \in [Rows -> Seq([old : Grades, new : Grades])]
    BY <2>6, <2>7 DEF Counted
  <2>9. periods' = periods
    BY <1>2 DEF Regrade
  <2> QED
    BY <2>8, <2>9 DEF Counted
<1>3. ASSUME UNCHANGED <<regrades, periods>>
      PROVE  Counted'
  BY <1>3 DEF Counted
<1>4. ASSUME NEW o \in Rows, Discard(o) \/ \E v \in Values : Enter(o, v)
      PROVE  Counted'
  BY <1>3, <1>4 DEF Discard, Enter
<1>5. ASSUME NEW new \in Publications, NEW c \in Classes, Publish(new, c)
      PROVE  Counted'
  BY <1>3, <1>5 DEF Publish
<1>6. ASSUME NEW e \in Editors, Editing(e)
      PROVE  Counted'
  <2>1. ASSUME NEW o \in Rows, Load(e, o) \/ Stamp(e, o)
        PROVE  Counted'
    BY <1>3, <2>1 DEF Load, Stamp
  <2>2. ASSUME NEW v \in Values, NEW c \in Classes, Correct(e, v, c)
        PROVE  Counted'
    BY <1>3, <2>2 DEF Correct
  <2>3. ASSUME Read(e) \/ GiveUp(e)
        PROVE  Counted'
    BY <1>3, <2>3 DEF Read, GiveUp
  <2> QED
    BY <1>2, <1>6, <2>1, <2>2, <2>3 DEF Editing
<1>7. ASSUME UNCHANGED ovars
      PROVE  Counted'
  BY <1>3, <1>7 DEF ovars
<1> QED
  BY <1>1, <1>4, <1>5, <1>6, <1>7 DEF RecordsNext

-----------------------------------------------------------------------------
(* The inductive invariant.                                                *)
RecordsInv ==
  /\ RecordsTypeOK
  /\ EditsTimed
  /\ LatestIsCurrent
  /\ InOrder
  /\ EditsReadLatest
  /\ EditsAreRooted
  /\ HistoryIsRooted

LEMMA RecordsInvInit == RecordsInit => RecordsInv
<1> SUFFICES ASSUME RecordsInit PROVE RecordsInv
  OBVIOUS
<1>1. RecordsTypeOK
  BY EmptySeq DEF RecordsInit, RecordsTypeOK
<1>2. \A o \in Rows : corrections[o] = << >> /\ DOMAIN corrections[o] = {}
  BY DEF RecordsInit
<1>3. \A e \in Editors : edit[e] = NoEdit /\ edit[e].kind = "none"
  BY DEF RecordsInit, NoEdit
<1> QED
  BY <1>1, <1>2, <1>3
  DEF RecordsInv, EditsTimed, LatestIsCurrent, InOrder, EditsReadLatest, ReadsLatest,
      EditsAreRooted, HistoryIsRooted

LEMMA RecordsInvStep ==
  ASSUME RecordsInv, [RecordsNext]_ovars
  PROVE  RecordsInv' /\ Typed /\ Typed' /\ AnyStep
<1>1. Typed /\ Logged /\ Counted
  BY TypeIsTyped DEF RecordsInv
<1>2. EditsExist /\ EditsTimed
  BY DEF RecordsInv, EditsAreRooted, EditsExist
<1>3. Typed' /\ AnyStep
  BY <1>1, <1>2, NextIsAnyStep
<1>4. RecordsTypeOK'
  <2>1. Logged' /\ Counted'
    BY <1>1, <1>3, LoggedStep, CountedStep
  <2> QED
    BY <1>3, <2>1, TypeIsTyped, PTL
<1>5. EditsTimed' /\ LatestIsCurrent' /\ InOrder' /\ EditsReadLatest'
  BY <1>1, <1>2, <1>3, EditsTimedStep, LatestIsCurrentStep, InOrderStep, EditsReadLatestStep
  DEF RecordsInv
<1>6. EditsAreRooted' /\ HistoryIsRooted'
  BY <1>1, <1>3, EditsAreRootedStep, HistoryStep DEF RecordsInv
<1> QED
  BY <1>1, <1>3, <1>4, <1>5, <1>6 DEF RecordsInv

THEOREM RecordsInvariant == RecordsSpec => []RecordsInv
<1>1. RecordsInv /\ [RecordsNext]_ovars => RecordsInv'
  BY RecordsInvStep
<1> QED
  BY <1>1, RecordsInvInit, PTL DEF RecordsSpec

(* Rows, history, periods and edits keep their types.                      *)
THEOREM RecordsTypeCorrect == RecordsSpec => []RecordsTypeOK
<1>1. RecordsInv => RecordsTypeOK
  BY DEF RecordsInv
<1> QED
  BY <1>1, RecordsInvariant, PTL

(* However edits overlap, the value of a corrected row is the one of its   *)
(* newest RecordHistory row, by approved_at, or of one whose promotion     *)
(* overlapped those of all that are newer.                                 *)
THEOREM CorrectionsAccount == RecordsSpec => []LastCorrectionIsCurrent
<1>1. RecordsInv => LastCorrectionIsCurrent
  BY TypeIsTyped, LatestAccounts DEF RecordsInv
<1> QED
  BY <1>1, RecordsInvariant, PTL

(* ... and every old value in that history is one the row once had, and    *)
(* the new one of the correction before it unless these two overlapped.    *)
THEOREM HistoryRooted == RecordsSpec => []HistoryIsRooted
<1>1. RecordsInv => HistoryIsRooted
  BY DEF RecordsInv
<1> QED
  BY <1>1, RecordsInvariant, PTL

(* No correction, re-grade or period takes an approval back, not even one  *)
(* that saves a copy of the row from before the approval.                  *)
THEOREM ApprovalIsForGood == RecordsSpec => ApprovedStays
<1>1. RecordsInv /\ [RecordsNext]_ovars =>
        [\A o \in Rows : Approved(o) => Approved(o)']_ovars
  <2> SUFFICES ASSUME RecordsInv, [RecordsNext]_ovars, NEW o \in Rows, Approved(o)
               PROVE  Approved(o)'
    OBVIOUS
  <2>1. Typed /\ Typed' /\ AnyStep
    BY RecordsInvStep
  <2>2. Exists(o)
    BY DEF Approved
  <2> QED
    BY <2>1, <2>2, RowsStay
<1> QED
  BY <1>1, RecordsInvariant, PTL DEF RecordsSpec, ApprovedStays

-----------------------------------------------------------------------------
(* The counts of the periods.                                              *)

(* The witness: who approved a row stays on record, and nobody else counts *)
(* a row that is approved otherwise.                                       *)
LEMMA CountsStay ==
  ASSUME ApprovedRows \subseteq ApprovedRows', periods \in Seq(Nat), PeriodsCountOnce,
         periods' = periods
  PROVE  PeriodsCountOnce'
<1>1. PICK by \in [ApprovedRows -> 0 .. Len(periods)] :
        \A p \in DOMAIN periods : periods[p] = Cardinality({o \in ApprovedRows : by[o] = p})
  BY DEF PeriodsCountOnce
<1>2. PICK A, B : A = ApprovedRows /\ B = ApprovedRows' /\ A \subseteq B
  OBVIOUS
<1>3. PICK new \in [B -> 0 .. Len(periods)] :
        \A o \in B : new[o] = IF o \in A THEN by[o] ELSE 0
  <2> DEFINE new == [o \in B |-> IF o \in A THEN by[o] ELSE 0]
  <2>1. Len(periods) \in Nat
    OBVIOUS
  <2>2. \A o \in B : new[o] \in 0 .. Len(periods)
    BY <1>1, <1>2, <2>1
  <2> QED
    BY <2>2
<1>4. ASSUME NEW p \in DOMAIN periods
      PROVE  periods[p] = Cardinality({o \in B : new[o] = p})
  <2>1. p # 0
    OBVIOUS
  <2>2. {o \in B : new[o] = p} = {o \in A : by[o] = p}
    BY <1>2, <1>3, <2>1
  <2> QED
    BY <1>1, <1>2, <2>2
<1> QED
  BY <1>2, <1>3, <1>4 DEF PeriodsCountOnce

(* A new period counts the rows that it approves, and those only.          *)
LEMMA PeriodCounts ==
  ASSUME Typed, periods \in Seq(Nat), PeriodsCountOnce,
         NEW window \in SUBSET Rows, ApprovePeriod(window)
  PROVE  PeriodsCountOnce'
<1>1. PICK by \in [ApprovedRows -> 0 .. Len(periods)] :
        \A p \in DOMAIN periods : periods[p] = Cardinality({o \in ApprovedRows : by[o] = p})
  BY DEF PeriodsCountOnce
<1>2. PICK A, U, B : /\ A = ApprovedRows /\ U = Unapproved(window) /\ B = A \cup U
                     /\ A \cap U = {} /\ B \subseteq Rows
  <2>1. ApprovedRows \cap Unapproved(window) = {}
    BY DEF ApprovedRows, Unapproved
  <2>2. ApprovedRows \cup Unapproved(window) \subseteq Rows
    BY DEF ApprovedRows, Unapproved
  <2> QED
    BY <2>1, <2>2
<1>3. ApprovedRows' = B
  <2>1. row' = [o \in Rows |-> IF o \in U THEN [row[o] EXCEPT !.state = "approved"] ELSE row[o]]
    BY <1>2 DEF ApprovePeriod
  <2>2. ASSUME NEW o \in U
        PROVE  row'[o] # NoRow /\ row'[o].state = "approved"
    <3>1. o \in Rows /\ row[o] \in Observation
      BY <1>2, ExistingRow DEF Typed, Unapproved
    <3>2. row'[o] = [row[o] EXCEPT !.state = "approved"]
      BY <2>1, <3>1
    <3>3. /\ [row[o] EXCEPT !.state = "approved"] \in Observation
          /\ [row[o] EXCEPT !.state = "approved"].state = "approved"
      BY <3>1, WithState DEF ApprovalState
    <3> QED
      BY <3>1, <3>2, <3>3, ObservationFields
  <2>3. \A o \in Rows \ U : row'[o] = row[o]
    BY <2>1
  <2>4. ASSUME NEW o \in Rows PROVE Approved(o)' <=> o \in B
    BY <1>2, <2>2, <2>3 DEF ApprovedRows, Approved, Exists
  <2> QED
    BY <1>2, <2>4 DEF ApprovedRows
<1>4. PICK n \in Nat : n = Len(periods) /\ DOMAIN periods = 1 .. n
  OBVIOUS
<1>5. /\ periods' = Append(periods, Cardinality(U))
      /\ Len(periods') = n + 1 /\ DOMAIN periods' = 1 .. n + 1
      /\ periods'[n + 1] = Cardinality(U)
      /\ \A p \in 1 .. n : periods'[p] = periods[p]
  <2>1. periods' = Append(periods, Cardinality(U))
    BY <1>2 DEF ApprovePeriod
  <2>2. Cardinality(U) \in Nat
    BY <1>2, RecordsAssumption, FS_Subset, FS_CardinalityType
  <2> QED
    BY <1>4, <2>1, <2>2
<1>6. PICK new \in [B -> 0 .. n + 1] :
        \A o \in B : new[o] = IF o \in A THEN by[o] ELSE n + 1
  <2> DEFINE new == [o \in B |-> IF o \in A THEN by[o] ELSE n + 1]
  <2>1. \A o \in B : new[o] \in 0 .. n + 1
    BY <1>1, <1>2, <1>4
  <2>2. new \in [B -> 0 .. n + 1] /\ \A o \in B : new[o] = IF o \in A THEN by[o] ELSE n + 1
    BY <2>1
  <2> HIDE DEF new
  <2> QED
    BY <2>2
<1>7. ASSUME NEW p \in 1 .. n + 1
      PROVE  periods'[p] = Cardinality({o \in B : new[o] = p})
  <2>1. CASE p = n + 1
    <3>1. \A o \in A : by[o] \in 0 .. n /\ by[o] # p
      BY <1>1, <1>2, <1>4, <2>1
    <3>2. {o \in B : new[o] = p} = U
      BY <1>2, <1>6, <2>1, <3>1
    <3> QED
      BY <1>5, <2>1, <3>2
  <2>2. CASE p # n + 1
    <3>1. p \in 1 .. n
      BY <2>2
    <3>2. {o \in B : new[o] = p} = {o \in A : by[o] = p}
      BY <1>2, <1>6, <2>2
    <3> QED
      BY <1>1, <1>2, <1>4, <1>5, <3>1, <3>2
  <2> QED
    BY <2>1, <2>2
<1>8. new \in [ApprovedRows' -> 0 .. Len(periods')]
  BY <1>3, <1>5, <1>6
<1>9. \A p \in DOMAIN periods' :
        periods'[p] = Cardinality({o \in ApprovedRows' : new[o] = p})
  BY <1>3, <1>5, <1>7
<1> QED
  BY <1>8, <1>9 DEF PeriodsCountOnce

(* No row is counted by two of the approved periods (approve_period), not  *)
(* even one that was re-graded or corrected in between.                    *)
THEOREM RowsCountedOnce == RecordsSpec => []PeriodsCountOnce
<1>1. RecordsInit => PeriodsCountOnce
  <2> SUFFICES ASSUME RecordsInit PROVE PeriodsCountOnce
    OBVIOUS
  <2>1. ApprovedRows = {} /\ periods = << >>
    BY DEF RecordsInit, ApprovedRows, Approved, Exists
  <2>2. PICK by : by \in [ApprovedRows -> 0 .. Len(periods)]
    <3>1. [o \in {} |-> 0] \in [{} -> 0 .. Len(periods)]
      OBVIOUS
    <3> QED
      BY <2>1, <3>1
  <2>3. DOMAIN periods = {}
    BY <2>1
  <2> QED
    BY <2>2, <2>3 DEF PeriodsCountOnce
<1>2. RecordsInv /\ PeriodsCountOnce /\ [RecordsNext]_ovars => PeriodsCountOnce'
  <2> SUFFICES ASSUME RecordsInv, PeriodsCountOnce, [RecordsNext]_ovars PROVE PeriodsCountOnce'
    OBVIOUS
  <2>1. Typed /\ Typed' /\ AnyStep /\ periods \in Seq(Nat)
    BY RecordsInvStep DEF RecordsInv, RecordsTypeOK
  <2>2. ApprovedRows \subseteq ApprovedRows'
    BY <2>1, RowsStay DEF ApprovedRows, Approved
  <2>3. \/ UNCHANGED periods
        \/ \E window \in SUBSET Rows : ApprovePeriod(window)
    BY DEF RecordsNext, ovars, Editing, Enter, Discard, Publish, Load, Stamp, Read, Regrade,
           Correct, GiveUp
  <2> QED
    BY <2>1, <2>2, <2>3, CountsStay, PeriodCounts
<1> QED
  BY <1>1, <1>2, RecordsInvariant, PTL DEF RecordsSpec

-----------------------------------------------------------------------------
(***************************************************************************)
(* The versions of a category                                              *)
(***************************************************************************)
Job == [at : Work, v : Numbers, source : Numbers, rows : SUBSET (Fields \cup Rules)]

\* The part of the types that the argument needs.
RowTypes ==
    /\ status \in [Numbers -> Statuses]
    /\ entries \in [Numbers -> SUBSET (Fields \cup Rules)]
    /\ schema \in [Numbers -> SUBSET (Fields \cup Rules)]
    /\ work \in [Process -> Job]
    /\ contested \in BOOLEAN

\* Of two processes there only one is not contested, and meanwhile nothing is published.
Alone == \A p, q \in Process : Between(p) /\ Between(q) => p = q
Cleared == (\E p \in Process : Between(p)) => Published = {}
Single == \A u, v \in Published : u = v

Orderly == Alone /\ Cleared /\ Single

\* What is being published has fields, and the schema built is theirs, unless it was edited.
HasFields == \A p \in Process : Publishing(p) /\ work[p].v \notin edited => FieldsOf(work[p].v) # {}
Built == \A p \in Process : Holds(p, "save") /\ work[p].v \notin edited => work[p].rows = FieldsOf(work[p].v)
Told == \A v \in Published \ edited : schema[v] = FieldsOf(v) /\ schema[v] # {}

VersionsInv == RowTypes /\ (~contested => Orderly) /\ HasFields /\ Built /\ Told

-----------------------------------------------------------------------------
(***************************************************************************)
(* What a step of p does to version v by the way: nothing that is          *)
(* published, or that another process is publishing, changes off the       *)
(* record, and the record is kept as long as it matters.                   *)
(***************************************************************************)
OnRecord(p, v) ==
    v \notin edited' =>
      /\ \/ entries'[v] = entries[v]
         \/ v \notin Published' /\ ~Intrudes(p, v)
      /\ v \in Published' => v \in Published /\ schema'[v] = schema[v]
      /\ v \in edited => v \notin Published' /\ ~Intrudes(p, v)

(***************************************************************************)
(* A step of one process after which it is not about to save a version.    *)
(***************************************************************************)
LEMMA ModestStep ==
    ASSUME VersionsInv, RowTypes', NEW p \in Process, NEW w \in Job,
           work' = [work EXCEPT ![p] = w],
           w.at \notin {"build", "save"},
           w.at = "retire" => FieldsOf(w.v)' # {},
           ~contested' => ~contested /\ Published' \subseteq Published,
           \A v \in Numbers : OnRecord(p, v)
    PROVE  VersionsInv'
<1>1. work'[p] = w /\ \A q \in Process \ {p} : work'[q] = work[q] /\ work[q].v \in Numbers
  BY DEF VersionsInv, RowTypes, Job
<1>2. ASSUME ~contested' PROVE Orderly'
  <2>1. Orderly /\ Published' \subseteq Published
    BY <1>2 DEF VersionsInv
  <2>2. \A q \in Process : Between(q)' => q # p /\ Between(q)
    BY <1>1 DEF Between
  <2> QED BY <2>1, <2>2 DEF Orderly, Alone, Cleared, Single
<1>3. ASSUME NEW q \in Process \ {p}, Publishing(q), work[q].v \notin edited'
      PROVE  work[q].v \notin edited /\ FieldsOf(work[q].v)' = FieldsOf(work[q].v)
  <2>1. Intrudes(p, work[q].v) /\ OnRecord(p, work[q].v)
    BY <1>1, <1>3 DEF Intrudes
  <2> QED BY <1>1, <1>3, <2>1 DEF OnRecord, FieldsOf
<1>4. HasFields'
  <2> SUFFICES ASSUME NEW q \in Process, Publishing(q)', work'[q].v \notin edited'
               PROVE  FieldsOf(work[q].v)' # {}
    BY DEF HasFields
  <2>1. CASE q = p
    BY <1>1, <2>1 DEF Publishing, FieldsOf
  <2>2. CASE q # p
    BY <1>1, <1>3, <2>2 DEF Publishing, VersionsInv, HasFields
  <2> QED BY <2>1, <2>2
<1>5. Built'
  <2> SUFFICES ASSUME NEW q \in Process, Holds(q, "save")', work'[q].v \notin edited'
               PROVE  (work[q].rows = FieldsOf(work[q].v))'
    BY DEF Built
  <2>1. q # p /\ work'[q] = work[q] /\ Holds(q, "save") /\ Publishing(q)
    BY <1>1 DEF Holds, Publishing
  <2> QED BY <1>3, <2>1 DEF VersionsInv, Built
<1>6. Told'
  <2> SUFFICES ASSUME NEW v \in Published', v \notin edited'
               PROVE  (schema[v] = FieldsOf(v) /\ schema[v] # {})'
    BY DEF Told
  <2>1. v \in Numbers /\ OnRecord(p, v)
    BY DEF Published
  <2>2. v \in Published /\ v \notin edited /\ schema'[v] = schema[v] /\ entries'[v] = entries[v]
    BY <2>1 DEF OnRecord
  <2> QED BY <2>2 DEF VersionsInv, Told, FieldsOf
<1> QED BY <1>2, <1>4, <1>5, <1>6 DEF VersionsInv

LEMMA JobTypes ==
    ASSUME NEW at \in Work, NEW v \in Numbers
    PROVE  Idle \in Job /\ At(at, v) \in Job /\ At(at, v).at = at /\ At(at, v).v = v /\ Idle.at = "idle"
<1>1. MaxVersion \in Nat /\ MaxVersion > 0
  BY CategoryAssumption
<1>2. 1 \in Numbers
  BY <1>1 DEF Numbers
<1>3. Idle \in Job /\ Idle.at = "idle"
  BY <1>2 DEF Idle, Job, Work
<1> QED BY <1>3 DEF At, Idle, Job

-----------------------------------------------------------------------------
(***************************************************************************)
(* publish                                                                 *)
(***************************************************************************)
\* A retirement leaves nothing published, and is contested unless nobody else is on the way.
LEMMA RetireKeeps == ASSUME VersionsInv, NEW p \in Process, Retire(p) PROVE VersionsInv'
<1>1. /\ work[p].at = "retire" /\ work[p] \in Job
      /\ work' = [work EXCEPT ![p] = [work[p] EXCEPT !.at = "build"]]
      /\ status' = Retired /\ UNCHANGED <<entries, schema, edited>>
      /\ contested' = \E q \in Process \ {p} : Between(q)
  BY DEF Retire, Holds, Becomes, VersionsInv, RowTypes
<1>2. /\ [work[p] EXCEPT !.at = "build"] \in Job
      /\ work'[p].at = "build" /\ work'[p].v = work[p].v
      /\ \A q \in Process \ {p} : work'[q] = work[q]
  BY <1>1 DEF Job, Work, VersionsInv, RowTypes
<1>3. Published' = {} /\ status' \in [Numbers -> Statuses]
  BY <1>1 DEF Retired, Published, Statuses, VersionsInv, RowTypes
<1>4. RowTypes'
  BY <1>1, <1>2, <1>3 DEF VersionsInv, RowTypes
<1>5. ASSUME ~contested' PROVE Orderly'
  <2>1. \A q \in Process : Between(q)' => q = p
    BY <1>1, <1>2, <1>5 DEF Between
  <2> QED BY <1>3, <2>1 DEF Orderly, Alone, Cleared, Single
<1>6. HasFields' /\ Built'
  BY <1>1, <1>2 DEF VersionsInv, HasFields, Built, FieldsOf, Publishing, Holds
<1> QED BY <1>3, <1>4, <1>5, <1>6 DEF VersionsInv, Told

LEMMA BuildKeeps == ASSUME VersionsInv, NEW p \in Process, BuildSchema(p) PROVE VersionsInv'
<1>1. /\ work[p].at = "build" /\ work[p] \in Job
      /\ work' = [work EXCEPT ![p] = [work[p] EXCEPT !.at = "save", !.rows = SchemaOf(work[p].v)]]
      /\ UNCHANGED <<status, entries, schema, contested, edited>>
  BY DEF BuildSchema, Holds, Becomes, VersionsInv, RowTypes
<1>2. FieldsOf(work[p].v) \subseteq Fields
  BY DEF FieldsOf
<1>3. /\ work'[p] \in Job
      /\ work'[p].at = "save" /\ work'[p].v = work[p].v /\ work'[p].rows = FieldsOf(work[p].v)
      /\ \A q \in Process \ {p} : work'[q] = work[q]
  BY <1>1, <1>2 DEF Job, Work, SchemaOf, VersionsInv, RowTypes
<1>4. RowTypes'
  BY <1>1, <1>3 DEF VersionsInv, RowTypes
<1>5. Published' = Published /\ \A v : FieldsOf(v)' = FieldsOf(v)
  BY <1>1 DEF Published, FieldsOf
<1>6. \A q \in Process : Between(q)' = Between(q)
  BY <1>1, <1>3 DEF Between
<1>7. ~contested' => Orderly'
  BY <1>1, <1>5, <1>6 DEF VersionsInv, Orderly, Alone, Cleared, Single
<1>8. HasFields'
  BY <1>1, <1>3, <1>5 DEF VersionsInv, HasFields, Publishing
<1>9. Built' /\ Told'
  BY <1>1, <1>3, <1>5 DEF VersionsInv, Built, Told, Holds
<1> QED BY <1>4, <1>7, <1>8, <1>9 DEF VersionsInv

\* Nothing was published since p retired the others, and its schema is of the fields as they are.
LEMMA SaveKeeps == ASSUME VersionsInv, NEW p \in Process, SavePublished(p) PROVE VersionsInv'
<1> DEFINE n == work[p].v
<1>1. /\ work[p].at = "save" /\ work[p] \in Job /\ n \in Numbers
      /\ work' = [work EXCEPT ![p] = Idle]
      /\ status' = [status EXCEPT ![n] = "published"]
      /\ schema' = [schema EXCEPT ![n] = work[p].rows]
      /\ UNCHANGED <<entries, contested, edited>>
  BY DEF SavePublished, Holds, Becomes, VersionsInv, RowTypes, Job
<1>2. Idle \in Job /\ Idle.at = "idle"
  BY <1>1, JobTypes DEF Job
<1>3. work'[p] = Idle /\ \A q \in Process \ {p} : work'[q] = work[q]
  BY <1>1 DEF VersionsInv, RowTypes
<1>4. RowTypes'
  <2>1. work[p].rows \in SUBSET (Fields \cup Rules)
    BY <1>1 DEF Job
  <2> QED BY <1>1, <1>2, <2>1 DEF VersionsInv, RowTypes, Statuses
<1>5. ASSUME ~contested' PROVE Orderly'
  <2>1. Orderly /\ Published = {}
    BY <1>1, <1>5 DEF VersionsInv, Orderly, Cleared, Between
  <2>2. Published' = {n}
    BY <1>1, <2>1 DEF Published, VersionsInv, RowTypes
  <2>3. \A q \in Process : ~Between(q)'
    BY <1>1, <1>2, <1>3, <2>1 DEF Orderly, Alone, Between
  <2> QED BY <2>2, <2>3 DEF Orderly, Alone, Cleared, Single
<1>6. \A q \in Process : Publishing(q)' => Publishing(q) /\ work'[q] = work[q]
  BY <1>2, <1>3 DEF Publishing
<1>7. HasFields' /\ Built'
  BY <1>1, <1>2, <1>3, <1>6 DEF VersionsInv, HasFields, Built, FieldsOf, Holds, Publishing
<1>8. Told'
  <2> SUFFICES ASSUME NEW v \in Published', v \notin edited
               PROVE  (schema[v] = FieldsOf(v) /\ schema[v] # {})'
    BY <1>1 DEF Told
  <2>1. v \in Numbers /\ FieldsOf(v)' = FieldsOf(v)
    BY <1>1 DEF Published, FieldsOf
  <2>2. CASE v = n
    <3>1. work[p].rows = FieldsOf(v) /\ FieldsOf(v) # {}
      BY <1>1, <2>2 DEF VersionsInv, Built, HasFields, Publishing, Holds
    <3> QED BY <1>1, <2>1, <2>2, <3>1 DEF VersionsInv, RowTypes
  <2>3. CASE v # n
    <3>1. v \in Published /\ schema'[v] = schema[v]
      BY <1>1, <2>1, <2>3 DEF Published, VersionsInv, RowTypes
    <3> QED BY <2>1, <3>1 DEF VersionsInv, Told
  <2> QED BY <2>2, <2>3
<1> QED BY <1>4, <1>5, <1>7, <1>8 DEF VersionsInv

-----------------------------------------------------------------------------
(***************************************************************************)
(* Everything else                                                         *)
(***************************************************************************)
\* Choosing, opening, finishing, being killed: only what the process holds in memory changes.
LEMMA MemoryKeeps ==
    ASSUME VersionsInv, NEW p \in Process, NEW w \in Job, Becomes(p, w),
           w.at \notin {"build", "save"},
           w.at = "retire" => FieldsOf(w.v) # {},
           UNCHANGED <<status, entries, schema, contested>>,
           edited' = edited \/ \E v \in Numbers : Fresh(p, v)
    PROVE  VersionsInv'
<1>1. work' = [work EXCEPT ![p] = w]
  BY DEF Becomes
<1>2. RowTypes'
  BY <1>1 DEF VersionsInv, RowTypes
<1>3. Published' = Published /\ (w.at = "retire" => FieldsOf(w.v)' # {})
  BY DEF Published, FieldsOf
<1>4. \A v \in Numbers : v \in edited /\ v \notin edited' => v \notin Published /\ ~Intrudes(p, v)
  BY DEF Fresh, Published
<1>5. \A v \in Numbers : OnRecord(p, v)
  BY <1>3, <1>4 DEF OnRecord
<1> QED BY <1>1, <1>2, <1>3, <1>5, ModestStep

LEMMA ChoiceKeeps ==
    ASSUME VersionsInv, NEW s \in Staff, NEW v \in Numbers,
           ChoosePublish(s, v) \/ ChooseClone(s, v) \/ OpenForm(s, v) \/ CloneDone(s)
    PROVE  VersionsInv'
<1>1. s \in Process
  BY DEF Process
<1>2. CASE ChoosePublish(s, v)
  <2>1. At("retire", v) \in Job /\ At("retire", v).at = "retire" /\ At("retire", v).v = v
    BY JobTypes DEF Work
  <2> QED BY <1>1, <1>2, <2>1, MemoryKeeps DEF ChoosePublish, Publishable
<1>3. CASE ChooseClone(s, v)
  <2> DEFINE w == [At("number", NextNumber) EXCEPT !.source = v]
  <2>1. NextNumber \in Numbers
    BY <1>3 DEF ChooseClone
  <2>2. At("number", NextNumber) \in Job /\ At("number", NextNumber).at = "number"
    BY <2>1, JobTypes DEF Work
  <2>3. w \in Job /\ w.at = "number"
    BY <2>2 DEF Job
  <2> QED BY <1>1, <1>3, <2>3, MemoryKeeps DEF ChooseClone
<1>4. CASE OpenForm(s, v)
  <2>1. PICK at \in {"form", "add"} : Becomes(s, At(at, v))
    BY <1>4 DEF OpenForm
  <2>2. At(at, v) \in Job /\ At(at, v).at \in {"form", "add"}
    BY <2>1, JobTypes DEF Work
  <2> QED BY <1>1, <1>4, <2>1, <2>2, MemoryKeeps DEF OpenForm
<1>5. CASE CloneDone(s)
  <2>1. Idle \in Job /\ Idle.at = "idle"
    BY JobTypes DEF Work
  <2> QED BY <1>1, <1>5, <2>1, MemoryKeeps DEF CloneDone
<1> QED BY <1>2, <1>3, <1>4, <1>5

LEMMA KillKeeps == ASSUME VersionsInv, NEW p \in Process, Kill(p) PROVE VersionsInv'
<1>1. \A v \in Numbers : Idle \in Job /\ Idle.at = "idle"
  BY JobTypes DEF Work
<1>2. work[p].v \in Numbers
  BY DEF VersionsInv, RowTypes, Job
<1>3. Idle \in Job /\ Idle.at = "idle"
  BY <1>1, <1>2
<1> QED BY <1>3, MemoryKeeps DEF Kill

LEMMA SubmitKeeps == ASSUME VersionsInv, Submit \/ UNCHANGED vars PROVE VersionsInv'
BY DEF Submit, vars, VersionsInv, RowTypes, Orderly, Alone, Cleared, Single, HasFields, Built, Told,
       Between, Publishing, Holds, Published, FieldsOf

\* A new draft is not published, whatever its number was before.
LEMMA CreateKeeps == ASSUME VersionsInv, NEW s \in Staff, CreateClone(s) PROVE VersionsInv'
<1> DEFINE n == work[s].v
<1>1. s \in Process /\ work[s] \in Job /\ n \in Numbers /\ work[s].source \in Numbers
  BY DEF Process, VersionsInv, RowTypes, Job
<1>2. PICK w \in {Idle, [At("copy", n) EXCEPT !.rows = entries[work[s].source]]} :
        work' = [work EXCEPT ![s] = w]
  BY DEF CreateClone, Becomes
<1>3. w \in Job /\ w.at \in {"idle", "copy"}
  <2>1. Idle \in Job /\ Idle.at = "idle" /\ At("copy", n) \in Job /\ At("copy", n).at = "copy"
    BY <1>1, JobTypes DEF Work
  <2>2. entries[work[s].source] \in SUBSET (Fields \cup Rules)
    BY <1>1 DEF VersionsInv, RowTypes
  <2>3. CASE w = Idle
    BY <2>1, <2>3
  <2>4. CASE w = [At("copy", n) EXCEPT !.rows = entries[work[s].source]]
    BY <2>1, <2>2, <2>4 DEF Job
  <2> QED BY <1>2, <2>3, <2>4
<1>4. /\ status' = [status EXCEPT ![n] = "draft"] \/ status' = status
      /\ UNCHANGED <<entries, schema, contested, edited>>
  BY DEF CreateClone
<1>5. RowTypes'
  BY <1>1, <1>2, <1>3, <1>4 DEF VersionsInv, RowTypes, Statuses
<1>6. Published' \subseteq Published
  BY <1>1, <1>4 DEF Published, VersionsInv, RowTypes
<1>7. \A v \in Numbers : OnRecord(s, v)
  BY <1>4, <1>6 DEF OnRecord
<1> QED BY <1>1, <1>2, <1>3, <1>4, <1>5, <1>6, <1>7, ModestStep

\* Copying a field into what another publishes, or has published, is on record.
LEMMA CopyKeeps == ASSUME VersionsInv, NEW p \in Process, CopyRow(p) PROVE VersionsInv'
<1> DEFINE n == work[p].v
<1>1. work[p] \in Job /\ n \in Numbers /\ work[p].at \in {"copy", "seed"}
  BY DEF CopyRow, VersionsInv, RowTypes, Job
<1>2. PICK r \in work[p].rows :
        \/ work' = [work EXCEPT ![p] = Idle] /\ UNCHANGED entries
        \/ /\ entries' = [entries EXCEPT ![n] = @ \cup {r}]
           /\ work' = [work EXCEPT ![p] = [work[p] EXCEPT !.rows = @ \ {r}]]
  BY DEF CopyRow, NextRows, Becomes
<1>3. /\ edited' = IF status[n] = "published" \/ Intrudes(p, n) THEN edited \cup {n} ELSE edited
      /\ UNCHANGED <<status, schema, contested>>
  BY DEF CopyRow
<1>4. PICK w \in {Idle, [work[p] EXCEPT !.rows = @ \ {r}]} : work' = [work EXCEPT ![p] = w]
  BY <1>2
<1>5. w \in Job /\ w.at \in {"idle", "copy", "seed"}
  BY <1>1, <1>4, JobTypes DEF Job
<1>6. r \in Fields \cup Rules
  BY <1>1, <1>2 DEF Job
<1>7. RowTypes'
  BY <1>1, <1>2, <1>3, <1>4, <1>5, <1>6 DEF VersionsInv, RowTypes
<1>8. Published' = Published
  BY <1>3 DEF Published
<1>9. ASSUME NEW v \in Numbers PROVE OnRecord(p, v)
  <2>1. v # n => entries'[v] = entries[v]
    BY <1>1, <1>2 DEF VersionsInv, RowTypes
  <2> QED BY <1>3, <1>8, <2>1 DEF OnRecord, Published
<1> HIDE DEF n
<1> QED BY <1>3, <1>4, <1>5, <1>7, <1>8, <1>9, ModestStep

\* A form that publishes is on record twice: nobody was retired, and no schema was built.
LEMMA FormKeeps == ASSUME VersionsInv, NEW s \in Staff, SaveForm(s) PROVE VersionsInv'
<1> DEFINE n == work[s].v
<1>1. s \in Process /\ work[s] \in Job /\ n \in Numbers
  BY DEF Process, VersionsInv, RowTypes, Job
<1>2. work' = [work EXCEPT ![s] = Idle] /\ Idle \in Job /\ Idle.at = "idle" /\ schema' = schema
  BY <1>1, JobTypes DEF SaveForm, Becomes, Work
<1>3. CASE UNCHANGED <<status, entries, contested, edited>>
  <2>1. Becomes(s, Idle)
    BY DEF SaveForm
  <2> QED BY <1>1, <1>2, <1>3, <2>1, MemoryKeeps
<1>4. ASSUME NEW chosen \in Statuses \ {"none"}, NEW changed \in SUBSET (Fields \cup Rules),
             WriteForm(s, n, chosen, changed)
      PROVE  VersionsInv'
  <2>1. /\ status' = [status EXCEPT ![n] = chosen]
        /\ entries' = [entries EXCEPT ![n] = SymDiff(@, changed)]
    BY <1>4 DEF WriteForm
  <2>2. CASE chosen = "published" /\ status[n] # "published"
    <3>1. contested' = TRUE /\ edited' = edited \cup {n}
      BY <1>4, <2>2 DEF WriteForm, VersionsInv, RowTypes
    <3>2. RowTypes'
      BY <1>1, <1>2, <2>1, <3>1 DEF VersionsInv, RowTypes, SymDiff
    <3>3. ASSUME NEW v \in Numbers PROVE OnRecord(s, v)
      <4>1. v # n => entries'[v] = entries[v] /\ status'[v] = status[v]
        BY <1>1, <2>1 DEF VersionsInv, RowTypes
      <4> QED BY <1>2, <3>1, <4>1 DEF OnRecord, Published
    <3> QED BY <1>1, <1>2, <3>1, <3>2, <3>3, ModestStep
  <2>3. CASE ~(chosen = "published" /\ status[n] # "published")
    <3>1. /\ contested' = contested
          /\ edited' = IF changed # {} /\ (chosen = "published" \/ Intrudes(s, n))
                       THEN edited \cup {n} ELSE edited
      BY <1>4, <2>3 DEF WriteForm, VersionsInv, RowTypes
    <3>2. RowTypes'
      BY <1>1, <1>2, <2>1, <3>1 DEF VersionsInv, RowTypes, SymDiff
    <3>3. Published' \subseteq Published
      BY <1>1, <2>1, <2>3 DEF Published, VersionsInv, RowTypes
    <3>4. ASSUME NEW v \in Numbers PROVE OnRecord(s, v)
      <4>1. CASE v # n
        <5>1. entries'[v] = entries[v]
          BY <1>1, <2>1, <4>1 DEF VersionsInv, RowTypes
        <5> QED BY <1>2, <3>1, <3>3, <5>1 DEF OnRecord
      <4>2. CASE v = n /\ changed = {}
        <5>1. entries'[v] = entries[v]
          BY <1>1, <2>1, <4>2 DEF VersionsInv, RowTypes, SymDiff
        <5> QED BY <1>2, <3>1, <3>3, <5>1 DEF OnRecord
      <4>3. CASE v = n /\ changed # {}
        <5>1. v \in Published' <=> chosen = "published"
          BY <1>1, <2>1, <4>3 DEF Published, VersionsInv, RowTypes
        <5> QED BY <1>2, <3>1, <3>3, <4>3, <5>1 DEF OnRecord
      <4> QED BY <4>1, <4>2, <4>3
    <3> QED BY <1>1, <1>2, <3>1, <3>2, <3>3, <3>4, ModestStep
  <2> QED BY <2>2, <2>3
<1>5. \/ UNCHANGED <<status, entries, contested, edited>>
      \/ \E chosen \in Statuses \ {"none"}, changed \in SUBSET (Fields \cup Rules) :
           WriteForm(s, n, chosen, changed)
  BY DEF SaveForm
<1> QED BY <1>3, <1>4, <1>5

LEMMA DeleteKeeps == ASSUME VersionsInv, NEW s \in Staff, NEW n \in Numbers, DeleteVersion(s, n) PROVE VersionsInv'
<1>1. /\ s \in Process /\ work[s] \in Job /\ work[s].at = "idle" /\ work' = [work EXCEPT ![s] = work[s]]
      /\ status' = [status EXCEPT ![n] = "none"] /\ entries' = [entries EXCEPT ![n] = {}]
      /\ schema' = [schema EXCEPT ![n] = {}] /\ contested' = contested
      /\ edited' = IF Intrudes(s, n) THEN edited \cup {n} ELSE edited
  BY DEF DeleteVersion, Holds, Process, VersionsInv, RowTypes
<1>2. RowTypes'
  BY <1>1 DEF VersionsInv, RowTypes, Statuses
<1>3. Published' \subseteq Published /\ n \notin Published'
  BY <1>1 DEF Published, VersionsInv, RowTypes
<1>4. ASSUME NEW v \in Numbers PROVE OnRecord(s, v)
  <2>1. v # n => entries'[v] = entries[v] /\ schema'[v] = schema[v]
    BY <1>1 DEF VersionsInv, RowTypes
  <2> QED BY <1>1, <1>3, <2>1 DEF OnRecord
<1> QED BY <1>1, <1>2, <1>3, <1>4, ModestStep

LEMMA SeedKeeps == ASSUME VersionsInv, Seed \/ SeedPublish PROVE VersionsInv'
<1>1. 1 \in Numbers /\ Deploy \in Process
  BY CategoryAssumption, SMT DEF Numbers, Process
<1>2. CASE Seed
  <2> DEFINE w == [At("seed", 1) EXCEPT !.rows = Fields \cup Rules]
  <2>1. At("seed", 1) \in Job /\ At("seed", 1).at = "seed"
    BY <1>1, JobTypes DEF Work
  <2>2. w \in Job /\ w.at = "seed" /\ work' = [work EXCEPT ![Deploy] = w]
    BY <1>2, <2>1 DEF Job, Seed, Becomes
  <2>3. status' = [status EXCEPT ![1] = "draft"] /\ UNCHANGED <<entries, schema, contested, edited>>
    BY <1>2 DEF Seed
  <2> HIDE DEF w
  <2>4. RowTypes'
    BY <1>1, <2>2, <2>3 DEF VersionsInv, RowTypes, Statuses
  <2>5. Published' \subseteq Published
    BY <1>1, <2>3 DEF Published, VersionsInv, RowTypes
  <2>6. \A v \in Numbers : OnRecord(Deploy, v)
    BY <2>3, <2>5 DEF OnRecord
  <2> QED BY <1>1, <2>2, <2>3, <2>4, <2>5, <2>6, ModestStep
<1>3. CASE SeedPublish
  <2> DEFINE w == IF FieldsOf(1) = {} THEN Idle ELSE At("retire", 1)
  <2>1. /\ Becomes(Deploy, w) /\ UNCHANGED <<status, entries, schema, contested>>
        /\ edited' = edited \/ Fresh(Deploy, 1)
    BY <1>3 DEF SeedPublish
  <2>2. At("retire", 1) \in Job /\ At("retire", 1).at = "retire" /\ At("retire", 1).v = 1 /\ Idle \in Job /\ Idle.at = "idle"
    BY <1>1, JobTypes DEF Work
  <2>3. w \in Job /\ w.at \in {"idle", "retire"} /\ (w.at = "retire" => FieldsOf(w.v) # {})
    BY <2>2
  <2> HIDE DEF w
  <2> QED BY <1>1, <2>1, <2>3, MemoryKeeps
<1> QED BY <1>2, <1>3

LEMMA NextKeeps == ASSUME VersionsInv, [Next]_vars PROVE VersionsInv'
<1>1. ASSUME NEW s \in Staff, NEW v \in Numbers,
             ChoosePublish(s, v) \/ ChooseClone(s, v) \/ OpenForm(s, v) \/ DeleteVersion(s, v)
      PROVE  VersionsInv'
  BY <1>1, ChoiceKeeps, DeleteKeeps
<1>2. ASSUME NEW s \in Staff, CreateClone(s) \/ CloneDone(s) \/ SaveForm(s) PROVE VersionsInv'
  <2>1. \E v \in Numbers : TRUE
    BY DEF VersionsInv, RowTypes, Job, Process
  <2> QED BY <1>2, <2>1, CreateKeeps, ChoiceKeeps, FormKeeps
<1>3. ASSUME NEW p \in Process, Retire(p) \/ BuildSchema(p) \/ SavePublished(p) \/ CopyRow(p) \/ Kill(p)
      PROVE  VersionsInv'
  BY <1>3, RetireKeeps, BuildKeeps, SaveKeeps, CopyKeeps, KillKeeps
<1> QED BY <1>1, <1>2, <1>3, SeedKeeps, SubmitKeeps DEF Next

LEMMA InitKeeps == Init => VersionsInv
<1> SUFFICES ASSUME Init PROVE VersionsInv
  OBVIOUS
<1>1. MaxVersion \in Nat /\ MaxVersion > 0
  BY CategoryAssumption
<1>2. 1 \in Numbers
  BY <1>1 DEF Numbers
<1>3. Idle \in Job /\ Idle.at = "idle"
  BY <1>2, JobTypes DEF Work
<1>4. RowTypes
  BY <1>3 DEF Init, RowTypes, Statuses
<1>5. Published = {} /\ \A p \in Process : work[p].at = "idle"
  BY <1>3 DEF Init, Published
<1> QED BY <1>4, <1>5 DEF VersionsInv, Orderly, Alone, Cleared, Single, HasFields, Built, Told,
                          Between, Publishing, Holds

(***************************************************************************)
(* publish leaves one published version at most, whoever clones, edits,    *)
(* deletes, seeds or is killed meanwhile, unless it meets another          *)
(* publication (CategoryVersion.publish has no lock) or a form sets the    *)
(* status of one more version.                                             *)
(***************************************************************************)
THEOREM PublishedAlone == Spec => []OnePublished
<1>1. VersionsInv /\ [Next]_vars => VersionsInv'
  BY NextKeeps
<1>2. VersionsInv => OnePublished
  <2> SUFFICES ASSUME VersionsInv, ~contested PROVE Cardinality(Published) <= 1
    BY DEF OnePublished
  <2>1. \A u, v \in Published : u = v
    BY DEF VersionsInv, Orderly, Single
  <2>2. CASE Published = {}
    BY <2>2, FS_EmptySet
  <2>3. CASE Published # {}
    <3>1. PICK v \in Published : Published = {v}
      BY <2>1, <2>3
    <3>2. Cardinality({v}) = 1
      BY FS_Singleton
    <3> QED BY <3>1, <3>2
  <2> QED BY <2>2, <2>3
<1> QED BY <1>1, <1>2, InitKeeps, PTL DEF Spec

(***************************************************************************)
(* A version on offer has fields and the schema given out is made of them  *)
(* (build_json_schema in publish), unless the version's own entries were   *)
(* written once publish had begun, or a form published it.                 *)
(***************************************************************************)
THEOREM SchemaIsOfFields == Spec => []SchemaTellsFields
<1>1. VersionsInv /\ [Next]_vars => VersionsInv'
  BY NextKeeps
<1>2. VersionsInv => SchemaTellsFields
  BY DEF VersionsInv, Told, SchemaTellsFields
<1> QED BY <1>1, <1>2, InitKeeps, PTL DEF Spec

---------------------------------------------------------------------------
(***************************************************************************)
(* NumberSequence by itself, for the row of any kind of number and of any  *)
(* year: some callers number their rows inside a transaction, as           *)
(* Licence.issue does, others outside one, as LicenceApplication.save.     *)
(***************************************************************************)
CONSTANTS
  Records,  \* what is numbered
  Outside,  \* those saved outside a transaction
  NoRecord,
  MaxDrawn  \* bound: how far the sequence is drawn

VARIABLES lastDrawn, lockedBy, inHand, onRow

Draws == INSTANCE NumberSequence
           WITH Callers <- Records, Autocommit <- Outside, NoCaller <- NoRecord,
                MaxValue <- MaxDrawn,
                value <- lastDrawn, holder <- lockedBy, drawn <- inHand, number <- onRow

\* A number drawn in a transaction is the one after the committed value, and its caller has the lock.
DrawnUnderLock ==
  \A c \in Records \ Outside : inHand[c] # 0 => lockedBy = c /\ inHand[c] = lastDrawn + 1

\* Every other number that was given out is within the committed value.
DrawnWithin ==
  /\ \A c \in Records : onRow[c] <= lastDrawn
  /\ \A c \in Outside : inHand[c] <= lastDrawn

\* No number was given out twice, whether it is on a row or still in hand.
GivenOnce ==
  /\ \A c, d \in Records : onRow[c] = onRow[d] /\ onRow[c] # 0 => c = d
  /\ \A c, d \in Records : inHand[c] = inHand[d] /\ inHand[c] # 0 => c = d
  /\ \A c, d \in Records : inHand[c] # 0 => inHand[c] # onRow[d]

DrawsInv == Draws!TypeOK /\ DrawnUnderLock /\ DrawnWithin /\ GivenOnce

\* Every step of a caller keeps the numbers apart.
LEMMA DrawsKeep ==
  ASSUME Draws!CallersAssumption, DrawsInv, [Draws!Next]_(Draws!vars)
  PROVE  DrawsInv'
<1> USE DEF DrawsInv, Draws!TypeOK, DrawnUnderLock, DrawnWithin, GivenOnce
<1>0. Outside \subseteq Records /\ NoRecord \notin Records
  BY DEF Draws!CallersAssumption
<1>1. ASSUME NEW c \in Records, Draws!Draw(c) PROVE DrawsInv'
  <2>1. /\ inHand' = [inHand EXCEPT ![c] = lastDrawn + 1] /\ onRow' = onRow /\ lockedBy = NoRecord
        /\ \/ c \in Outside /\ lastDrawn' = lastDrawn + 1 /\ lockedBy' = lockedBy
           \/ c \notin Outside /\ lockedBy' = c /\ lastDrawn' = lastDrawn
    BY <1>1 DEF Draws!Draw, Draws!RowFree
  <2>2. \A d \in Records : inHand[d] <= lastDrawn /\ inHand[d] \in Nat /\ onRow[d] \in Nat
    BY <1>0, <2>1
  <2>3. \A d \in Records : inHand'[d] = IF d = c THEN lastDrawn + 1 ELSE inHand[d]
    BY <2>1
  <2>4. Draws!TypeOK'
    BY <2>1
  <2>5. DrawnUnderLock'
    BY <1>0, <2>1, <2>3
  <2>6. DrawnWithin'
    BY <1>0, <2>1, <2>2, <2>3
  <2>7. GivenOnce'
    BY <2>1, <2>2, <2>3
  <2> QED BY <2>4, <2>5, <2>6, <2>7
<1>2. ASSUME NEW c \in Records, Draws!Save(c) PROVE DrawsInv'
  <2>1. /\ inHand[c] # 0 /\ inHand' = [inHand EXCEPT ![c] = 0]
        /\ onRow' = [onRow EXCEPT ![c] = inHand[c]]
        /\ lastDrawn' = IF c \in Outside THEN lastDrawn ELSE inHand[c]
        /\ lockedBy' = IF lockedBy = c THEN NoRecord ELSE lockedBy
    BY <1>2 DEF Draws!Save, Draws!Release
  <2>2. \A d \in Records : /\ inHand'[d] = IF d = c THEN 0 ELSE inHand[d]
                        /\ onRow'[d] = IF d = c THEN inHand[c] ELSE onRow[d]
    BY <2>1
  <2>3. lastDrawn <= lastDrawn' /\ inHand[c] <= lastDrawn' /\ lastDrawn' \in Nat
    BY <1>0, <2>1
  <2>4. Draws!TypeOK'
    BY <1>0, <2>1
  <2>5. DrawnUnderLock'
    BY <1>0, <2>1, <2>2
  <2>6. DrawnWithin'
    <3>1. ASSUME NEW d \in Records PROVE onRow'[d] <= lastDrawn'
      BY <2>2, <2>3
    <3>2. ASSUME NEW d \in Outside PROVE inHand'[d] <= lastDrawn'
      BY <1>0, <2>2, <2>3
    <3> QED BY <3>1, <3>2
  <2>7. GivenOnce'
    BY <2>1, <2>2
  <2> QED BY <2>4, <2>5, <2>6, <2>7
<1>3. ASSUME NEW c \in Records, Draws!Fail(c) PROVE DrawsInv'
  <2>1. /\ inHand' = [inHand EXCEPT ![c] = 0] /\ onRow' = onRow /\ lastDrawn' = lastDrawn
        /\ lockedBy' = IF lockedBy = c THEN NoRecord ELSE lockedBy
    BY <1>3 DEF Draws!Fail, Draws!Release
  <2>2. \A d \in Records : inHand'[d] = IF d = c THEN 0 ELSE inHand[d]
    BY <2>1
  <2> QED BY <1>0, <2>1, <2>2
<1>4. CASE UNCHANGED Draws!vars
  BY <1>4 DEF Draws!vars
<1> QED BY <1>1, <1>2, <1>3, <1>4 DEF Draws!Next

\* No two rows ever carry the same number, however many are numbered at once, inside a transaction
\* or outside one, and whatever fails between drawing a number and saving its row
\* (Sequence.next, called by LicenceApplication.save and Licence.issue).
THEOREM NumbersStayApart ==
  ASSUME Draws!CallersAssumption
  PROVE  Draws!Spec => []Draws!NumbersDiffer
<1>1. Draws!Init => DrawsInv
  BY DEF Draws!Init, DrawsInv, Draws!TypeOK, DrawnUnderLock, DrawnWithin, GivenOnce,
         Draws!CallersAssumption
<1>2. DrawsInv /\ [Draws!Next]_(Draws!vars) => DrawsInv'
  BY DrawsKeep
<1>3. DrawsInv => Draws!NumbersDiffer
  BY DEF DrawsInv, GivenOnce, Draws!NumbersDiffer
<1> QED BY <1>1, <1>2, <1>3, PTL DEF Draws!Spec
=============================================================================
