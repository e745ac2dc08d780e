------------------------- MODULE ObservationRecords -------------------------
(***************************************************************************)
(* The rows of the observation tables and what may happen to them: they    *)
(* are entered by staff or published by an approved submission, approved   *)
(* in periods (obs/services.approve_period), re-graded (regrade) and       *)
(* corrected by the promotion of a correction (submissions/promotion.py).  *)
(* Corrections and re-grades of approved rows leave a RecordHistory row.   *)
(*                                                                         *)
(* regrade is handed an object its caller has loaded, and promote takes    *)
(* the time of approval first, then reads the row it corrects without      *)
(* locking it: both are an edit in flight until they save.  A save waits   *)
(* for the lock that another save holds until its transaction ends, and    *)
(* nobody sees the history row of a transaction before, so saving and      *)
(* committing are one step.                                                *)
(***************************************************************************)
EXTENDS Integers, SequencesExt

CONSTANTS
  Rows,               \* primary keys
  NoRow,
  Values,             \* what was observed (all the mapped columns)
  Publications,       \* rows that are published together, with their values
  Grades, Ungraded,
  Classes, StaffOnly,
  Users, Approvers,   \* OBSERVATION_APPROVER_ROLES
  Editors,            \* sessions with an edit in flight
  MaxEdits,           \* bound: history rows of one observation
  MaxStamps,          \* bound: times of approval
  MaxPeriods          \* bound: approved periods

ASSUME RecordsAssumption ==
  /\ IsFiniteSet(Rows)
  /\ Approvers \subseteq Users
  /\ Ungraded \in Grades
  /\ StaffOnly \in Classes
  /\ \A new \in Publications : \E S \in SUBSET Rows : new \in [S -> Values]
  /\ MaxEdits \in Nat /\ MaxStamps \in Nat /\ MaxPeriods \in Nat

VARIABLES
  row,          \* the rows of the table
  corrections,  \* RecordHistory rows of a row, method correction, as they were saved
  regrades,     \* RecordHistory rows of a row, method regrade
  periods,      \* rows_approved of the ApprovalPeriod rows
  edit,         \* the edits in flight
  clock         \* timezone.now(), which gives every promotion a time of its own

ovars == <<row, corrections, regrades, periods, edit, clock>>

ApprovalState == {"pending", "under_review", "approved", "rejected"}

Observation ==
  [state : ApprovalState, value : Values, grade : Grades, class : Classes]

ASSUME NoRowAssumption == NoRow \notin Observation

NoEdit == [kind |-> "none"]

EditInFlight ==
  [kind : {"regrade"}, row : Rows, copy : Observation]
    \cup [kind : {"stamped"}, row : Rows, at : Nat]
    \cup [kind : {"correct"}, row : Rows, copy : Observation, at : Nat]

Change(old, new) == [old |-> old, new |-> new]

(* A correction: approved_at is when its promotion began, saved when it    *)
(* was saved.                                                              *)
Correction(old, new, at) == [old |-> old, new |-> new, at |-> at, saved |-> clock]

Exists(o) == row[o] # NoRow

Approved(o) == Exists(o) /\ row[o].state = "approved"

Edits(o) == Len(corrections[o]) + Len(regrades[o])

-----------------------------------------------------------------------------
(* Staff enter a working row, or mark one as rejected, on the pages of the *)
(* administration.  These pages can rewrite any column of any row, too:    *)
(* that is outside the services and outside this module.                   *)
Enter(o, v) ==
  /\ ~Exists(o)
  /\ row' = [row EXCEPT ![o] =
       [state |-> "pending", value |-> v, grade |-> Ungraded, class |-> StaffOnly]]
  /\ UNCHANGED <<corrections, regrades, periods, edit, clock>>

Discard(o) ==
  /\ Exists(o)
  /\ row[o].state = "pending"
  /\ row' = [row EXCEPT ![o].state = "rejected"]
  /\ UNCHANGED <<corrections, regrades, periods, edit, clock>>

(* promote: the rows of an approved submission, all at once.               *)

PublishedAs(v, c) ==
  [state |-> "approved", value |-> v, grade |-> Ungraded, class |-> c]

Publish(new, c) ==
  /\ \A o \in DOMAIN new : ~Exists(o)
  /\ row' = [o \in Rows |-> IF o \in DOMAIN new THEN PublishedAs(new[o], c) ELSE row[o]]
  /\ UNCHANGED <<corrections, regrades, periods, edit, clock>>

(* approve_period: one UPDATE of the rows of the period that are not       *)
(* approved yet, rejected ones included.                                   *)

(* Fault: approved rows are counted again.                                 *)
AllOf(window) == {o \in window : Exists(o)}

Unapproved(window) == {o \in window : Exists(o) /\ ~Approved(o)}

(* Only a user with an approving role gets this far.                       *)
ApprovePeriod(window) ==
  /\ Approvers # {}
  /\ Len(periods) < MaxPeriods
  /\ row' = [o \in Rows |->
       IF o \in Unapproved(window) THEN [row[o] EXCEPT !.state = "approved"] ELSE row[o]]
  /\ periods' = Append(periods, Cardinality(Unapproved(window)))
  /\ UNCHANGED <<corrections, regrades, edit, clock>>

-----------------------------------------------------------------------------
(* A re-grade begins by reading the row ...                                *)
Load(e, o) ==
  /\ edit[e] = NoEdit
  /\ Exists(o)
  /\ edit' = [edit EXCEPT ![e] = [kind |-> "regrade", row |-> o, copy |-> row[o]]]
  /\ UNCHANGED <<row, corrections, regrades, periods, clock>>

(* ... and a correction by taking the time; then it reads the row.         *)
Stamp(e, o) ==
  /\ edit[e] = NoEdit
  /\ Exists(o)
  /\ clock < MaxStamps
  /\ clock' = clock + 1
  /\ edit' = [edit EXCEPT ![e] = [kind |-> "stamped", row |-> o, at |-> clock']]
  /\ UNCHANGED <<row, corrections, regrades, periods>>

Read(e) ==
  LET q == edit[e] IN
  /\ q.kind = "stamped"
  /\ edit' = [edit EXCEPT ![e] =
       [kind |-> "correct", row |-> q.row, copy |-> row[q.row], at |-> q.at]]
  /\ UNCHANGED <<row, corrections, regrades, periods, clock>>

Finish(e) == edit' = [edit EXCEPT ![e] = NoEdit]

(* Fault: obj.save() without update_fields.                                *)
SaveAll(q, g) == row' = [row EXCEPT ![q.row] = [q.copy EXCEPT !.grade = g]]

SaveGrade(q, g) == row' = [row EXCEPT ![q.row].grade = g]

(* regrade: who may do it, and whether it is recorded, is decided by the   *)
(* copy.                                                                   *)
Regrade(e, u, g) ==
  LET q == edit[e] IN
  /\ q.kind = "regrade"
  /\ SaveGrade(q, g)
  /\ IF q.copy.state = "approved"
     THEN /\ u \in Approvers
          /\ Edits(q.row) < MaxEdits
          /\ regrades' = [regrades EXCEPT ![q.row] = Append(@, Change(q.copy.grade, g))]
     ELSE UNCHANGED regrades
  /\ Finish(e)
  /\ UNCHANGED <<corrections, periods, clock>>

(* Fault: the snapshot of the old values is taken after they are set.      *)
SnapshotAfter(q, v) == v

Snapshot(q, v) == q.copy.value

(* Fault: a correction that finds its value in place writes no history.    *)
RecordIfNew(q, v) ==
  IF q.copy.value = v THEN UNCHANGED corrections
  ELSE corrections' = [corrections EXCEPT ![q.row] = Append(@, Correction(q.copy.value, v, q.at))]

RecordCorrection(q, v) ==
  corrections' = [corrections EXCEPT ![q.row] = Append(@, Correction(Snapshot(q, v), v, q.at))]

(* The whole row is saved: the corrected values, and the copy's for the    *)
(* rest.                                                                   *)
CorrectedFrom(copy, v, c) ==
  [copy EXCEPT !.value = v, !.class = c, !.state = "approved"]

Correct(e, v, c) ==
  LET q == edit[e] IN
  /\ q.kind = "correct"
  /\ Edits(q.row) < MaxEdits
  /\ row' = [row EXCEPT ![q.row] = CorrectedFrom(q.copy, v, c)]
  /\ RecordCorrection(q, v)
  /\ Finish(e)
  /\ UNCHANGED <<regrades, periods, clock>>

(* The edit fails or is given up: its transaction is rolled back.          *)
GiveUp(e) ==
  /\ edit[e] # NoEdit
  /\ Finish(e)
  /\ UNCHANGED <<row, corrections, regrades, periods, clock>>

-----------------------------------------------------------------------------
RecordsInit ==
  /\ row = [o \in Rows |-> NoRow]
  /\ corrections = [o \in Rows |-> << >>]
  /\ regrades = [o \in Rows |-> << >>]
  /\ periods = << >>
  /\ edit = [e \in Editors |-> NoEdit]
  /\ clock = 0

Editing(e) ==
  \/ \E o \in Rows : Load(e, o) \/ Stamp(e, o)
  \/ Read(e)
  \/ \E u \in Users, g \in Grades : Regrade(e, u, g)
  \/ \E v \in Values, c \in Classes : Correct(e, v, c)
  \/ GiveUp(e)

RecordsNext ==
  \/ \E o \in Rows : (\E v \in Values : Enter(o, v)) \/ Discard(o)
  \/ \E new \in Publications, c \in Classes : Publish(new, c)
  \/ \E window \in SUBSET Rows : ApprovePeriod(window)
  \/ \E e \in Editors : Editing(e)

RecordsSpec == RecordsInit /\ [][RecordsNext]_ovars

-----------------------------------------------------------------------------
(* Properties.                                                             *)

RecordsTypeOK ==
  /\ row \in [Rows -> Observation \cup {NoRow}]
  /\ corrections \in [Rows -> Seq([old : Values, new : Values, at : Nat, saved : Nat])]
  /\ regrades \in [Rows -> Seq([old : Grades, new : Grades])]
  /\ periods \in Seq(Nat)
  /\ edit \in [Editors -> EditInFlight \cup {NoEdit}]
  /\ clock \in Nat

(* Approval is for good: no re-grade or correction that began on the       *)
(* working row takes a row back to the state it was read in.               *)
ApprovedStays == [][\A o \in Rows : Approved(o) => Approved(o)']_ovars

(* Two corrections overlapped: each had begun when the other was saved.    *)
Overlap(a, b) == a.at <= b.saved /\ b.at <= a.saved

(* The history accounts for the published value.  A reader of the history  *)
(* finds it newest first, by approved_at: the value of a corrected row is  *)
(* the one its newest correction gives or, as the time is taken before the *)
(* row is read and locked, one that overlapped every newer one.            *)
LastCorrectionIsCurrent ==
  \A o \in Rows :
    corrections[o] # << >> =>
      /\ Approved(o)
      /\ \E k \in DOMAIN corrections[o] :
           /\ row[o].value = corrections[o][k].new
           /\ \A j \in DOMAIN corrections[o] :
                corrections[o][j].at > corrections[o][k].at =>
                  Overlap(corrections[o][j], corrections[o][k])

(* Nothing in the history is made up: the old value of a correction is the *)
(* new one of the correction saved before it, unless the two overlapped,   *)
(* and always one the row once had.                                        *)
HistoryIsRooted ==
  \A o \in Rows : \A k \in DOMAIN corrections[o] :
    /\ k > 1 => \/ corrections[o][k].old = corrections[o][k - 1].new
                \/ Overlap(corrections[o][k - 1], corrections[o][k])
    /\ \/ corrections[o][k].old = corrections[o][1].old
       \/ \E j \in 1 .. k - 1 : corrections[o][k].old = corrections[o][j].new

(* ... and so does every edit in flight: its copy has a value the row once *)
(* had, and the row itself as long as nothing was corrected.               *)
OnceHad(o, v) ==
  IF corrections[o] = << >> THEN v = row[o].value
  ELSE \/ v = corrections[o][1].old
       \/ \E j \in DOMAIN corrections[o] : v = corrections[o][j].new

EditsAreRooted ==
  \A e \in Editors :
    edit[e] # NoEdit =>
      /\ Exists(edit[e].row)
      /\ edit[e].kind # "stamped" => OnceHad(edit[e].row, edit[e].copy.value)

(* The reading without the exception: the newest correction in the list    *)
(* is the current value.  Two that overlap break it.                       *)
NewestIsCurrent ==
  \A o \in Rows : \A k \in DOMAIN corrections[o] :
    (\A j \in DOMAIN corrections[o] : corrections[o][j].at <= corrections[o][k].at)
      => row[o].value = corrections[o][k].new

(* A row is approved by at most one period: the approved rows can be told  *)
(* apart by the period that approved them, if any, so that every period    *)
(* counts its own rows and no others.                                      *)
ApprovedRows == {o \in Rows : Approved(o)}

PeriodsCountOnce ==
  \E by \in [ApprovedRows -> 0 .. Len(periods)] :
    \A p \in DOMAIN periods :
      periods[p] = Cardinality({o \in ApprovedRows : by[o] = p})

(* regrade: "when the row is already approved the change is written to     *)
(* RecordHistory so the approved record stays traceable".                  *)
RegradeIsTraced ==
  [][\A o \in Rows :
       Approved(o) /\ row'[o].grade # row[o].grade => regrades'[o] # regrades[o]]_ovars
=============================================================================
