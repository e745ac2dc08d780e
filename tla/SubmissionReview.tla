-------------------------- MODULE SubmissionReview --------------------------
(***************************************************************************)
(* A batch of observations from upload to publication: a submission is     *)
(* validated row by row (RowValidation), reviewed (WorkflowEngine) and, at *)
(* the final approval, promoted into the observation table                 *)
(* (ObservationRecords).  apps/submissions/services.py, models.py (the     *)
(* workflow hooks) and promotion.py.                                       *)
(*                                                                         *)
(* create_submission and the final approval are one transaction each, but  *)
(* they read what they have not locked: the submission of the same         *)
(* idempotency key, and the row that a correction replaces.  Both are a    *)
(* request in flight until they commit; a promotion takes the time of      *)
(* approval first and reads the row afterwards.                            *)
(***************************************************************************)
EXTENDS WorkflowEngine, RowValidation

CONSTANTS
  Submitters,     \* users who send data
  Uploads,        \* the batches they may send, each a sequence of rows
  Channels,       \* "form", "csv", "api"
  Keys, NoKey,    \* api_idempotency_key
  Generic,        \* the category's target is the GenericRecord
  Unstorable,     \* rows that break a CHECK constraint of the target table
  DataClasses,    \* classifications an approver may choose
  OnRecord,       \* rows on record before the first submission
  NoObservation, OriginalValue,
  Requests,       \* web workers at work
  MaxStamps       \* bound: promotions of corrections begun

VARIABLES
  sub,            \* the Submission rows, with the status of their records
  request,        \* the requests in flight
  row, corrections, clock  \* see ObservationRecords

svars == <<vars, sub, request, row, corrections, clock>>

RowNos == UNION {DOMAIN b : b \in Uploads}

Observations == OnRecord \cup (Items \X RowNos)

Payloads == {OriginalValue} \cup UNION {{b[k] : k \in DOMAIN b} : b \in Uploads}

(* What is published together: the valid rows of an upload.                *)
Valid(b) == {k \in DOMAIN b : ~HasErrors(b, k)}

Publications ==
  {[o \in {i} \X Valid(b) |-> b[o[2]]] : i \in Items, b \in Uploads}

NoRequest == [kind |-> "none"]

(* A generic record is always inserted, also by a correction.              *)
Inserts(i) == sub[i].target = NoObservation \/ Generic

(* A correction in flight is an edit of ObservationRecords.                *)
Corrects(r) == request[r].kind = "promote" /\ ~Inserts(request[r].item)

EditOf(q) ==
  IF q.copy = NoObservation
  THEN [kind |-> "stamped", row |-> sub[q.item].target, at |-> q.at]
  ELSE [kind |-> "correct", row |-> sub[q.item].target, copy |-> q.copy, at |-> q.at]

EditsInFlight ==
  [r \in Requests |-> IF Corrects(r) THEN EditOf(request[r]) ELSE [kind |-> "none"]]

Records ==
  INSTANCE ObservationRecords
    WITH Rows <- Observations, NoRow <- NoObservation,
         Values <- Payloads, Publications <- Publications, Grades <- {""}, Ungraded <- "",
         Classes <- DataClasses, StaffOnly <- "staff_only", Approvers <- {},
         Editors <- Requests, MaxEdits <- Cardinality(Items), MaxPeriods <- 0,
         periods <- << >>, regrades <- [o \in Observations |-> << >>], edit <- EditsInFlight

ASSUME SubmissionAssumption ==
  /\ IsFiniteSet(Items) /\ Submitters \subseteq Users
  /\ \A b \in Uploads : Len(b) \in Nat /\ DOMAIN b = 1 .. Len(b)
  /\ Generic \in BOOLEAN /\ MaxStamps \in Nat
  /\ DataClasses # {} /\ OnRecord \cap (Items \X RowNos) = {}
  /\ NoObservation \notin Observations \cup Records!Observation

(* The value "withdrawn" of the status is never set.                       *)
SubmissionStatus == {"under_review", "info_requested", "approved", "rejected", "failed"}

RecordStatus == {"accepted", "flagged", "rejected", "promoted"}

Absent == [status |-> "absent"]

Submitted(i) == sub[i] # Absent

-----------------------------------------------------------------------------
(* Creating a submission.                                                  *)

Rejected(statuses) == {k \in DOMAIN statuses : statuses[k] = "rejected"}

(* flag_anomalies moves the rows it has findings on, "odd", from accepted  *)
(* to flagged; corrections are not looked at.                              *)
Flagged(batch, odd) ==
  [k \in DOMAIN batch |->
     IF k \in odd THEN "flagged" ELSE Verdict(batch, k)]

Count(statuses, s) == Cardinality({k \in DOMAIN statuses : statuses[k] = s})

Counts(statuses) == [s \in {"accepted", "flagged", "rejected"} |-> Count(statuses, s)]

Tally(batch, odd) == Counts(Flagged(batch, odd))

(* A correction comes through create_correction, on the form's channel,    *)
(* but never through the form: its row may have errors.  The form refuses  *)
(* such a row, and always sends a single one.                              *)
NewSubmissions ==
  {q \in [kind : {"create"}, user : Submitters, batch : Uploads,
          channel : Channels, key : Keys \cup {NoKey},
          target : Observations \cup {NoObservation}] :
     /\ Validates(q.batch)
     /\ q.target # NoObservation => q.channel = "form"
     /\ q.channel = "form" =>
          /\ Len(q.batch) = 1
          /\ q.target = NoObservation => ~HasErrors(q.batch, 1)
     /\ q.channel # "api" => q.key = NoKey}

Sendable(q) == q.target # NoObservation => Records!Exists(q.target)

SentBefore(q) ==
  q.key # NoKey /\ \E i \in Items :
    Submitted(i) /\ sub[i].key = q.key /\ sub[i].by = q.user

Fails(q, statuses) ==
  q.channel # "form" /\ Rejected(statuses) = DOMAIN statuses

StatusOf(q, statuses) == IF Fails(q, statuses) THEN "failed" ELSE "under_review"

(* A request with a known key is answered with the submission of that key. *)
CreateBegin(r, q) ==
  /\ request[r] = NoRequest
  /\ \E i \in Items : ~Submitted(i)    \* bound
  /\ Sendable(q)
  /\ ~SentBefore(q)
  /\ request' = [request EXCEPT ![r] = q]
  /\ UNCHANGED <<vars, sub, row, corrections, clock>>

CreateCommit(r, i, odd) ==
  LET q == request[r]
      statuses == Flagged(q.batch, odd)
  IN  /\ q.kind = "create"
      /\ ~Submitted(i)
      /\ odd \subseteq {k \in DOMAIN q.batch : Verdict(q.batch, k) = "accepted"}
      /\ q.target # NoObservation => odd = {}
      /\ sub' = [sub EXCEPT ![i] =
           [status |-> StatusOf(q, statuses),
            by |-> q.user, key |-> q.key, target |-> q.target, batch |-> q.batch,
            rows |-> statuses, counts |-> Tally(q.batch, odd)]]
      /\ IF Fails(q, statuses) THEN UNCHANGED vars ELSE Start(i, q.user)
      /\ request' = [request EXCEPT ![r] = NoRequest]
      /\ UNCHANGED <<row, corrections, clock>>

-----------------------------------------------------------------------------
(* Reviewing it.                                                           *)

(* Fault: the instance is read without select_for_update.                  *)
NeverLocked(i) == FALSE

Locked(i) == \E r \in Requests : request[r].kind = "promote" /\ request[r].item = i

AdvanceStage(i, u) ==
  /\ ~Locked(i)
  /\ Advance(i, u)
  /\ UNCHANGED <<sub, request, row, corrections, clock>>

(* Fault: update_fields does not name the status.                          *)
StatusUnsaved(i, s) == UNCHANGED sub

SetStatus(i, s) == sub' = [sub EXCEPT ![i].status = s]

RejectSubmission(i, u) ==
  /\ ~Locked(i)
  /\ Reject(i, u)
  /\ SetStatus(i, "rejected")
  /\ UNCHANGED <<request, row, corrections, clock>>

AskSubmitter(i, u) ==
  /\ ~Locked(i)
  /\ RequestInfo(i, u)
  /\ SetStatus(i, "info_requested")
  /\ UNCHANGED <<request, row, corrections, clock>>

(* The actions that have no hook leave the submission alone.               *)
NoHook(i, u) ==
  /\ ~Locked(i)
  /\ \/ \E t \in Stages : ReturnTo(i, u, t)
     \/ Resubmit(i, u)
     \/ Withdraw(i, u)
     \/ Comment(i, u)
  /\ UNCHANGED <<sub, request, row, corrections, clock>>

-----------------------------------------------------------------------------
(* Promoting it.                                                           *)

(* The final approval locks the instance, makes its checks and begins to   *)
(* promote: a correction is stamped ...                                    *)
PromoteBegin(r, i, u) ==
  /\ request[r] = NoRequest
  /\ ~Locked(i)
  /\ MayApprove(i)
  /\ RequireStageActor(i, u)
  /\ IsFinal(currentStage[i])
  /\ IF Inserts(i) THEN UNCHANGED clock
     ELSE clock < MaxStamps /\ clock' = clock + 1    \* bound
  /\ request' = [request EXCEPT ![r] =
       [kind |-> "promote", item |-> i, user |-> u, at |-> clock', copy |-> NoObservation]]
  /\ UNCHANGED <<vars, sub, row, corrections>>

(* Fault: flagged rows are left for later.                                 *)
AcceptedOnly(i) == {k \in DOMAIN sub[i].rows : sub[i].rows[k] = "accepted"}

Promotable(i) == {k \in DOMAIN sub[i].rows : sub[i].rows[k] \in {"accepted", "flagged"}}

(* ... and reads the row it replaces, if its own is still to be promoted.  *)
PromoteRead(r) ==
  LET q == request[r] IN
  /\ Corrects(r)
  /\ q.copy = NoObservation
  /\ Promotable(q.item) # {}
  /\ request' = [request EXCEPT ![r].copy = row[sub[q.item].target]]
  /\ UNCHANGED <<vars, sub, row, corrections, clock>>

(* Fault: the history is written only when it has something new to say.    *)
HistoryIfNew(q) ==
  IF Promotable(q.item) = {} \/ q.copy.value = sub[q.item].batch[1] THEN UNCHANGED corrections
  ELSE Records!RecordCorrection(EditOf(q), sub[q.item].batch[1])

History(q) ==
  IF Promotable(q.item) = {} THEN UNCHANGED corrections
  ELSE Records!RecordCorrection(EditOf(q), sub[q.item].batch[1])

(* Fault: the corrected object is not saved.                               *)
HistoryOnly(q, c) == UNCHANGED row

Replace(q, c) ==
  IF Promotable(q.item) = {} THEN UNCHANGED row
  ELSE row' = [row EXCEPT ![sub[q.item].target] =
                 Records!CorrectedFrom(q.copy, sub[q.item].batch[1], c)]

Insert(i, c) ==
  row' = [o \in Observations |->
    IF \E k \in Promotable(i) : o = <<i, k>>
    THEN Records!PublishedAs(sub[i].batch[o[2]], c) ELSE row[o]]

MarkPromoted(i) ==
  sub' = [sub EXCEPT ![i].status = "approved",
                     ![i].rows = [k \in DOMAIN @ |->
                        IF k \in Promotable(i) THEN "promoted" ELSE @[k]]]

(* A row that the table refuses takes the whole approval back.             *)
PromoteCommit(r, c) ==
  LET q == request[r] IN
  /\ q.kind = "promote"
  /\ \A k \in Promotable(q.item) : sub[q.item].batch[k] \notin Unstorable
  /\ CloseAs(q.item, "approved")
  /\ Record(q.item, "final_approve", q.user, currentStage[q.item], NoStage)
  /\ IF Inserts(q.item)
     THEN Insert(q.item, c) /\ UNCHANGED corrections
     ELSE /\ Promotable(q.item) # {} => q.copy # NoObservation
          /\ Replace(q, c)
          /\ History(q)
  /\ MarkPromoted(q.item)
  /\ request' = [request EXCEPT ![r] = NoRequest]
  /\ UNCHANGED <<currentStage, submitter, enteredAt, clock>>

(* A refusal, an exception or the death of the worker: all rolled back.    *)
Drop(r) ==
  /\ request[r] # NoRequest
  /\ request' = [request EXCEPT ![r] = NoRequest]
  /\ UNCHANGED <<vars, sub, row, corrections, clock>>

-----------------------------------------------------------------------------
SubmissionInit ==
  /\ Init
  /\ sub = [i \in Items |-> Absent]
  /\ request = [r \in Requests |-> NoRequest]
  /\ row = [o \in Observations |->
       IF o \in OnRecord
       THEN Records!PublishedAs(OriginalValue, CHOOSE c \in DataClasses : TRUE)
       ELSE NoObservation]
  /\ corrections = [o \in Observations |-> << >>]
  /\ clock = 0

Reviewing(i, u) ==
  \/ AdvanceStage(i, u)
  \/ \E r \in Requests : PromoteBegin(r, i, u)
  \/ RejectSubmission(i, u)
  \/ AskSubmitter(i, u)
  \/ NoHook(i, u)

Working(r) ==
  \/ \E q \in NewSubmissions : CreateBegin(r, q)
  \/ \E i \in Items, odd \in SUBSET RowNos : CreateCommit(r, i, odd)
  \/ PromoteRead(r)
  \/ \E c \in DataClasses : PromoteCommit(r, c)
  \/ Drop(r)

SubmissionNext ==
  \/ \E i \in Items, u \in Users : Reviewing(i, u)
  \/ \E r \in Requests : Working(r)

SubmissionSpec == SubmissionInit /\ [][SubmissionNext]_svars

-----------------------------------------------------------------------------
(* Properties.                                                             *)

SubmissionTypeOK ==
  /\ \A i \in Items :
       Submitted(i) =>
         /\ sub[i].status \in SubmissionStatus
         /\ sub[i].batch \in Uploads
         /\ DOMAIN sub[i].rows = DOMAIN sub[i].batch
         /\ \A k \in DOMAIN sub[i].rows : sub[i].rows[k] \in RecordStatus
  /\ \A o \in Observations :
       Records!Exists(o) => row[o] \in Records!Observation

Published(i, k) == Records!Exists(<<i, k>>)

(* Nothing enters the consolidated database but the valid rows of a        *)
(* submission that was approved at its last stage.                         *)
OnlyReviewedIsPublished ==
  \A i \in Items, k \in RowNos :
    Published(i, k) =>
      /\ state[i] = "approved"
      /\ k \in DOMAIN sub[i].batch
      /\ ~HasErrors(sub[i].batch, k)
      /\ row[<<i, k>>].value = sub[i].batch[k] \/ corrections[<<i, k>>] # << >>

(* ... and all of them do, in the same step: an approval never publishes a *)
(* batch in part.                                                          *)
ApprovedIsPublished ==
  \A i \in Items :
    state[i] = "approved" =>
      \A k \in DOMAIN sub[i].batch :
        \/ HasErrors(sub[i].batch, k)
        \/ sub[i].rows[k] = "promoted" /\ (Published(i, k) \/ ~Inserts(i))

(* What the hooks make of the review, over the whole of its log: an        *)
(* approval and a rejection are final in both places, and otherwise the    *)
(* submission shows for good that its submitter was asked, if he ever was, *)
(* whether he answered or not.  What failed validation is never reviewed.  *)
Asked(i) == \E k \in DOMAIN actions[i] : actions[i][k].action = "request_info"

StatusFollowsReview ==
  \A i \in Items :
    /\ state[i] \in {"approved", "rejected"} => sub[i].status = state[i]
    /\ state[i] \in {"in_progress", "info_requested", "withdrawn"} =>
         sub[i].status = IF Asked(i) THEN "info_requested" ELSE "under_review"
    /\ state[i] = "absent" => sub[i].status \in {"failed", "absent"}
    /\ sub[i].status = "failed" =>
         \A k \in DOMAIN sub[i].batch : HasErrors(sub[i].batch, k)

(* submissions/models.py calls the status a mirror of the workflow         *)
(* instance: it has a value for each state that an instance may be in.     *)
StatusMirrorsInstance ==
  \A i \in Items :
    /\ state[i] = "withdrawn" => sub[i].status = "withdrawn"
    /\ state[i] = "info_requested" => sub[i].status = "info_requested"
    /\ state[i] = "in_progress" => sub[i].status = "under_review"

(* The counts shown with a submission are those of its rows, and an        *)
(* approval publishes as many rows as were counted accepted or flagged.    *)
CountsAgree ==
  \A i \in Items : Submitted(i) =>
    IF sub[i].status # "approved" THEN sub[i].counts = Counts(sub[i].rows)
    ELSE /\ sub[i].counts["rejected"] = Count(sub[i].rows, "rejected")
         /\ Inserts(i) =>
              Cardinality({k \in RowNos : Published(i, k)})
                = sub[i].counts["accepted"] + sub[i].counts["flagged"]

(* Two rows of one batch that a hard unique_in_batch rule calls the same   *)
(* are never both published.                                               *)
NoDuplicatePublished ==
  \A i \in Items : \A j, k \in RowNos : \A m \in DOMAIN Rules :
    /\ j # k /\ Published(i, j) /\ Published(i, k)
    /\ Rules[m].type = "unique_in_batch" /\ Rules[m].hard
    => Key(sub[i].batch[j], Rules[m]) # Key(sub[i].batch[k], Rules[m])

(* Every correction that was approved is on record, once, whichever other  *)
(* corrections of the same row were approved at the same time.  So says    *)
(* submissions/models.py; it does not hold where the target is generic.    *)
EveryCorrectionOnRecord ==
  \A o \in Observations :
    Len(corrections[o]) =
      Cardinality({i \in Items : Submitted(i) /\ sub[i].target = o
                     /\ sub[i].status = "approved" /\ sub[i].rows[1] = "promoted"})

(* Whatever the requests do around it, the engine sees only engine steps:  *)
(* no approval in flight is overtaken by a decision on the same instance.  *)
EngineSteps == Init /\ [][Next]_vars

(* ... and the observation tables see only what ObservationRecords allows: *)
(* a promotion publishes as a whole, or corrects with a history row.       *)
RecordsSteps ==
  [][Records!ovars' # Records!ovars => Records!RecordsNext]_(Records!ovars)

(* tests/test_api.py calls the key of a request "idempotent": sent again,  *)
(* also while the first attempt is at work, it makes no second submission. *)
KeyUsedOnce ==
  \A i, j \in Items :
    /\ Submitted(i) /\ Submitted(j) /\ i # j
    /\ sub[i].key # NoKey
    => sub[i].key # sub[j].key \/ sub[i].by # sub[j].by
=============================================================================
