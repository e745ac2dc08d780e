----------------------- MODULE SubmissionReviewProofs -----------------------
(***************************************************************************)
(* Proofs about SubmissionReview, for every set of submissions, batches,   *)
(* rules, reviewers and concurrent requests: the submission agrees with    *)
(* its review, an approved batch is published whole, no hard duplicate is, *)
(* every correction is on record, and the engine and the observation       *)
(* tables are taken through steps of theirs only.                          *)
(***************************************************************************)
EXTENDS SubmissionReview, WorkflowEngineProofs, FiniteSetTheorems

RowStatuses == UNION {[DOMAIN b -> RecordStatus] : b \in Uploads}

\* The submissions there may be.
Submission ==
  {s \in [status : SubmissionStatus, by : Submitters, key : Keys \cup {NoKey},
          target : Observations \cup {NoObservation}, batch : Uploads,
          rows : RowStatuses, counts : {Counts(st) : st \in RowStatuses}] :
     DOMAIN s.rows = DOMAIN s.batch}

Promoting ==
  [kind : {"promote"}, item : Items, user : Users, at : Nat,
   copy : Records!Observation \cup {NoObservation}]

InFlight == {NoRequest} \cup NewSubmissions \cup Promoting

HistoryRow == [old : Payloads, new : Payloads, at : Nat, saved : Nat]

SubmissionTypes ==
  /\ sub \in [Items -> Submission \cup {Absent}]
  /\ request \in [Requests -> InFlight]
  /\ row \in [Observations -> Records!Observation \cup {NoObservation}]
  /\ corrections \in [Observations -> Seq(HistoryRow)]
  /\ clock \in Nat

\* A correction is of a row that exists.
Founded(q) == q.kind = "create" => Sendable(q)

\* A promotion in flight is due, whatever happens meanwhile: the instance is locked.
Due(q) ==
  q.kind = "promote" =>
    /\ MayApprove(q.item) /\ RequireStageActor(q.item, q.user) /\ IsFinal(currentStage[q.item])
    /\ sub[q.item] # Absent

OneHolds ==
  \A r, s \in Requests :
    /\ request[r].kind = "promote" /\ request[s].kind = "promote"
    /\ request[r].item = request[s].item
    => r = s

InFlightOK == OneHolds /\ \A r \in Requests : Founded(request[r]) /\ Due(request[r])

\* What the instance and the submission say of item i, and what is published of it.
Agree(i) ==
  /\ sub[i].status = "approved" <=> state[i] = "approved"
  /\ sub[i].status = "rejected" <=> state[i] = "rejected"
  /\ sub[i].status \in {"failed", "absent"} <=> state[i] = "absent"
  /\ Submitted(i) =>
       /\ sub[i].target # NoObservation => Len(sub[i].batch) = 1 /\ Records!Exists(sub[i].target)
       /\ sub[i].status = "failed" => \A k \in DOMAIN sub[i].batch : HasErrors(sub[i].batch, k)
       /\ \A k \in DOMAIN sub[i].batch :
            /\ sub[i].rows[k] = "rejected" <=> HasErrors(sub[i].batch, k)
            /\ sub[i].rows[k] = "promoted" => state[i] = "approved"
            /\ state[i] = "approved" => sub[i].rows[k] \in {"promoted", "rejected"}

PublishedOf(i) ==
  \A k \in RowNos :
    Records!Exists(<<i, k>>) <=>
      /\ Submitted(i) /\ Inserts(i)
      /\ k \in DOMAIN sub[i].batch /\ sub[i].rows[k] = "promoted"

\* Only a generic record is corrected without a history row.
Counted == ~Generic => EveryCorrectionOnRecord

SubmissionInv ==
  /\ LogInv /\ SubmissionTypes /\ InFlightOK
  /\ \A i \in Items : Agree(i) /\ PublishedOf(i)
  /\ Counted

-----------------------------------------------------------------------------
(***************************************************************************)
(* Submissions and requests                                                *)
(***************************************************************************)
LEMMA SubmissionFields ==
  ASSUME NEW s \in Submission
  PROVE  /\ s.status \in SubmissionStatus /\ s.target \in Observations \cup {NoObservation}
         /\ s.batch \in Uploads /\ s.rows \in [DOMAIN s.batch -> RecordStatus]
         /\ s.status # "absent" /\ s # Absent
<1>1. /\ s.status \in SubmissionStatus /\ s.target \in Observations \cup {NoObservation}
      /\ s.batch \in Uploads /\ s.rows \in RowStatuses /\ DOMAIN s.rows = DOMAIN s.batch
  BY DEF Submission
<1>2. s.rows \in [DOMAIN s.batch -> RecordStatus]
  BY <1>1 DEF RowStatuses
<1>3. s.status # "absent"
  BY <1>1 DEF SubmissionStatus
<1> QED BY <1>1, <1>2, <1>3 DEF Absent

LEMMA SubOf ==
  ASSUME SubmissionTypes, NEW i \in Items
  PROVE  /\ Submitted(i) <=> sub[i] \in Submission
         /\ sub[i].status = "absent" <=> ~Submitted(i)
BY SubmissionFields DEF SubmissionTypes, Submitted, Absent

LEMMA WithStatus ==
  ASSUME NEW s \in Submission, NEW x \in SubmissionStatus
  PROVE  LET t == [s EXCEPT !.status = x]
         IN  t \in Submission /\ t.status = x /\ t.target = s.target /\ t.batch = s.batch /\ t.rows = s.rows
BY DEF Submission

LEMMA WithRows ==
  ASSUME NEW s \in Submission, NEW st \in [DOMAIN s.batch -> RecordStatus]
  PROVE  LET t == [s EXCEPT !.status = "approved", !.rows = st]
         IN  /\ t \in Submission /\ t.status = "approved" /\ t.target = s.target
             /\ t.batch = s.batch /\ t.rows = st
<1> DEFINE a == [s EXCEPT !.status = "approved"]
<1>1. a \in Submission /\ a.target = s.target /\ a.batch = s.batch /\ a.status = "approved"
  BY WithStatus DEF SubmissionStatus
<1> HIDE DEF a
<1>2. st \in RowStatuses /\ DOMAIN st = DOMAIN a.batch
  BY <1>1, SubmissionFields DEF RowStatuses
<1> DEFINE t == [a EXCEPT !.rows = st]
<1>3. t \in Submission /\ t.status = a.status /\ t.target = a.target /\ t.batch = a.batch /\ t.rows = st
  BY <1>1, <1>2 DEF Submission
<1>4. [s EXCEPT !.status = "approved", !.rows = st] = t
  BY DEF a
<1> QED BY <1>1, <1>3, <1>4

LEMMA BatchRows ==
  ASSUME NEW b \in Uploads
  PROVE  /\ Len(b) \in Nat /\ DOMAIN b = 1 .. Len(b) /\ DOMAIN b \subseteq RowNos
         /\ \A k \in DOMAIN b : b[k] \in Payloads
BY SubmissionAssumption DEF RowNos, Payloads

Promotes(q) == q.kind = "promote"

LEMMA InFlightFields ==
  ASSUME NEW q \in InFlight
  PROVE  /\ q.kind = "create" => q \in NewSubmissions
         /\ Promotes(q) => q \in Promoting /\ q.item \in Items /\ q.user \in Users
         /\ q.kind = "none" <=> q = NoRequest
         /\ q.kind \in {"none", "create", "promote"}
<1>1. CASE q = NoRequest
  BY <1>1 DEF NoRequest, Promotes
<1>2. CASE q \in NewSubmissions
  BY <1>2 DEF NewSubmissions, NoRequest, Promotes
<1>3. CASE q \in Promoting
  BY <1>3 DEF Promoting, NoRequest, Promotes
<1> QED BY <1>1, <1>2, <1>3 DEF InFlight

LEMMA RequestType == ASSUME SubmissionTypes, NEW r \in Requests PROVE request[r] \in InFlight
BY DEF SubmissionTypes

-----------------------------------------------------------------------------
\* Nothing is taken out of the observation tables.
ExistStay == \A o \in Observations : Records!Exists(o) => row'[o] # NoObservation

\* Item i, its submission, and what is published of it, are as they were.
Untouched(i) == state'[i] = state[i] /\ currentStage'[i] = currentStage[i] /\ sub'[i] = sub[i]

NoneOf(i) == \A k \in RowNos : row'[<<i, k>>] # NoObservation <=> Records!Exists(<<i, k>>)

LEMMA FoundedStays ==
  ASSUME NEW q \in InFlight, Founded(q), ExistStay
  PROVE  Founded(q)'
<1>1. q.kind = "create" => q.target \in Observations \cup {NoObservation}
  BY InFlightFields DEF NewSubmissions
<1> QED BY <1>1 DEF Founded, Sendable, ExistStay, Records!Exists

LEMMA DueStays ==
  ASSUME NEW q \in InFlight, Due(q), Promotes(q) => Untouched(q.item)
  PROVE  Due(q)'
BY
   DEF Due, Promotes, Untouched, MayApprove, RequireStageActor, StageActor, UnitMayAct, OwnerForStage, IsFinal

LEMMA LockedByHolder ==
  ASSUME NEW i \in Items
  PROVE  Locked(i) <=> \E r \in Requests : Promotes(request[r]) /\ request[r].item = i
BY DEF Locked, Promotes

\* No other request holds the instance that q holds.
Free(r, q) ==
  \A s \in Requests \ {r} : Promotes(q) /\ Promotes(request[s]) => request[s].item # q.item

\* One request goes on, and those that hold an instance find it as it was.
LEMMA InFlightStep ==
  ASSUME SubmissionTypes, InFlightOK, ExistStay, NEW r \in Requests, NEW q \in InFlight,
         request' = [request EXCEPT ![r] = q], Founded(q)', Due(q)', Free(r, q),
         \A s \in Requests \ {r} : Promotes(request[s]) => Untouched(request[s].item)
  PROVE  InFlightOK'
<1>1. request'[r] = q /\ \A s \in Requests \ {r} : request'[s] = request[s]
  BY DEF SubmissionTypes
<1>2. ASSUME NEW s \in Requests PROVE Founded(request[s])' /\ Due(request[s])'
  <2>1. CASE s = r
    BY <1>1, <2>1
  <2>2. CASE s # r
    <3>1. PICK p \in InFlight : p = request[s]
      BY RequestType
    <3>2. Founded(p) /\ Due(p)
      BY <3>1 DEF InFlightOK
    <3>3. Promotes(p) => Untouched(p.item)
      BY <2>2, <3>1
    <3>4. Founded(p)' /\ Due(p)'
      BY <3>2, <3>3, FoundedStays, DueStays
    <3>5. p = request'[s]
      BY <1>1, <2>2, <3>1
    <3> QED BY <3>4, <3>5
  <2> QED BY <2>1, <2>2
<1>3. ASSUME NEW s \in Requests, s # r, Promotes(request[s]), Promotes(q) PROVE request[s].item # q.item
  BY <1>3 DEF Free
<1>4. ASSUME NEW s \in Requests, NEW t \in Requests, Promotes(request'[s]), Promotes(request'[t]),
             request'[s].item = request'[t].item
      PROVE  s = t
  BY <1>1, <1>3, <1>4 DEF InFlightOK, OneHolds, Promotes
<1> QED BY <1>2, <1>4 DEF InFlightOK, OneHolds, Promotes

LEMMA InFlightRests ==
  ASSUME SubmissionTypes, InFlightOK, ExistStay, UNCHANGED request,
         \A s \in Requests : Promotes(request[s]) => Untouched(request[s].item)
  PROVE  InFlightOK'
<1>1. ASSUME NEW s \in Requests PROVE Founded(request[s])' /\ Due(request[s])'
  <2>1. PICK p \in InFlight : p = request[s]
    BY RequestType
  <2>2. Founded(p) /\ Due(p)
    BY <2>1 DEF InFlightOK
  <2>3. Founded(p)' /\ Due(p)'
    BY <2>1, <2>2, FoundedStays, DueStays
  <2>4. p = request'[s]
    BY <2>1
  <2> QED BY <2>3, <2>4
<1> QED BY <1>1 DEF InFlightOK, OneHolds

-----------------------------------------------------------------------------
(***************************************************************************)
(* What stays as it was                                                    *)
(***************************************************************************)
LEMMA AgreeStays ==
  ASSUME SubmissionTypes, NEW i \in Items, Agree(i), Untouched(i), ExistStay
  PROVE  Agree(i)'
<1>1. Submitted(i) => sub[i].target \in Observations \cup {NoObservation}
  BY SubOf, SubmissionFields
<1> QED BY <1>1 DEF Agree, Untouched, Submitted, ExistStay, Records!Exists

LEMMA PublishedStays ==
  ASSUME NEW i \in Items, PublishedOf(i), Untouched(i), NoneOf(i)
  PROVE  PublishedOf(i)'
BY DEF PublishedOf, Untouched, Submitted, Inserts, NoneOf, Records!Exists

LEMMA CountStays ==
  ASSUME Counted, corrections' = corrections,
         \A i \in Items : \/ sub'[i] = sub[i]
                          \/ sub[i].status # "approved" /\ sub'[i].status # "approved"
  PROVE  Counted'
<1>1. ASSUME NEW o \in Observations
      PROVE  {i \in Items : Submitted(i) /\ sub[i].target = o
                /\ sub[i].status = "approved" /\ sub[i].rows[1] = "promoted"}'
             = {i \in Items : Submitted(i) /\ sub[i].target = o
                /\ sub[i].status = "approved" /\ sub[i].rows[1] = "promoted"}
  BY DEF Submitted
<1> QED BY <1>1 DEF Counted, EveryCorrectionOnRecord

\* A step of one request that writes nothing else.
LEMMA RequestOnly ==
  ASSUME SubmissionInv, NEW r \in Requests, NEW q \in InFlight,
         request' = [request EXCEPT ![r] = q], UNCHANGED <<vars, sub, row, corrections>>,
         clock' \in Nat, Founded(q), Due(q), Free(r, q)
  PROVE  [Next]_vars /\ SubmissionInv'
<1>1. [Next]_vars /\ LogInv' /\ UNCHANGED <<state, currentStage>>
  BY EngineRests DEF SubmissionInv
<1>2. SubmissionTypes'
  BY DEF SubmissionInv, SubmissionTypes
<1>3. ExistStay /\ \A i \in Items : Untouched(i) /\ NoneOf(i)
  BY <1>1 DEF ExistStay, Untouched, NoneOf, Records!Exists
<1>4. Founded(q)' /\ Due(q)'
  BY <1>3, FoundedStays, DueStays, InFlightFields
<1>5. InFlightOK'
  BY <1>3, <1>4, InFlightStep, InFlightFields, RequestType DEF SubmissionInv
<1>6. \A i \in Items : Agree(i)' /\ PublishedOf(i)'
  BY <1>3, AgreeStays, PublishedStays DEF SubmissionInv
<1>7. Counted'
  BY CountStays DEF SubmissionInv
<1> QED BY <1>1, <1>2, <1>5, <1>6, <1>7 DEF SubmissionInv

-----------------------------------------------------------------------------
(***************************************************************************)
(* Each action keeps SubmissionInv                                         *)
(***************************************************************************)
LEMMA CreateBeginStep ==
  ASSUME SubmissionInv, NEW r \in Requests, NEW q \in NewSubmissions, CreateBegin(r, q)
  PROVE  [Next]_vars /\ SubmissionInv'
<1>1. q \in InFlight /\ q.kind = "create"
  BY DEF InFlight, NewSubmissions
<1>2. Founded(q) /\ Due(q) /\ ~Promotes(q)
  BY <1>1 DEF CreateBegin, Founded, Due, Promotes
<1> QED BY <1>1, <1>2, RequestOnly DEF CreateBegin, Free, SubmissionInv, SubmissionTypes

LEMMA DropStep ==
  ASSUME SubmissionInv, NEW r \in Requests, Drop(r)
  PROVE  [Next]_vars /\ SubmissionInv'
<1>1. NoRequest \in InFlight /\ Founded(NoRequest) /\ Due(NoRequest) /\ ~Promotes(NoRequest)
  BY DEF InFlight, NoRequest, Founded, Due, Promotes
<1> QED BY <1>1, RequestOnly DEF Drop, Free, SubmissionInv, SubmissionTypes

\* Whatever is in the engine has been submitted.
LEMMA InReview ==
  ASSUME SubmissionInv, NEW i \in Items, state[i] # "absent"
  PROVE  sub[i] \in Submission /\ Submitted(i)
<1>1. sub[i].status # "absent"
  BY DEF SubmissionInv, Agree
<1> QED BY <1>1, SubOf DEF SubmissionInv

LEMMA PromoteBeginStep ==
  ASSUME SubmissionInv, NEW r \in Requests, NEW i \in Items, NEW u \in Users, PromoteBegin(r, i, u)
  PROVE  [Next]_vars /\ SubmissionInv'
<1>1. sub[i] \in Submission /\ Submitted(i)
  BY InReview DEF PromoteBegin, MayApprove
<1>2. clock' \in Nat
  BY DEF PromoteBegin, SubmissionInv, SubmissionTypes
<1> DEFINE q == [kind |-> "promote", item |-> i, user |-> u, at |-> clock', copy |-> NoObservation]
<1>3. q \in InFlight /\ Promotes(q) /\ q.item = i
  BY <1>2 DEF InFlight, Promoting, Promotes
<1>4. Founded(q)
  BY DEF Founded
<1>5. Due(q)
  BY <1>1 DEF Due, PromoteBegin, Submitted
<1>6. request' = [request EXCEPT ![r] = q] /\ UNCHANGED <<vars, sub, row, corrections>>
  BY DEF PromoteBegin
<1> HIDE DEF q
<1>7. Free(r, q)
  BY <1>3, LockedByHolder DEF PromoteBegin, Free
<1> QED BY <1>2, <1>3, <1>4, <1>5, <1>6, <1>7, RequestOnly

LEMMA PromoteReadStep ==
  ASSUME SubmissionInv, NEW r \in Requests, PromoteRead(r)
  PROVE  [Next]_vars /\ SubmissionInv'
<1>1. PICK p \in Promoting : p = request[r] /\ p.item \in Items /\ Promotes(p)
  BY RequestType, InFlightFields DEF SubmissionInv, PromoteRead, Corrects, Promotes
<1>2. Due(p)
  BY <1>1 DEF SubmissionInv, InFlightOK
<1>3. PICK t \in Observations : t = sub[p.item].target
  BY <1>1, <1>2, SubOf, SubmissionFields
     DEF SubmissionInv, PromoteRead, Corrects, Inserts, Due, Promotes, Submitted
<1> DEFINE q == [p EXCEPT !.copy = row[t]]
<1>4. q \in InFlight /\ q.kind = "promote" /\ q.item = p.item /\ q.user = p.user
  BY <1>1, <1>3 DEF InFlight, Promoting, SubmissionInv, SubmissionTypes
<1>5. request' = [request EXCEPT ![r] = q] /\ UNCHANGED <<vars, sub, row, corrections, clock>>
  BY <1>1, <1>3 DEF PromoteRead
<1> HIDE DEF q
<1>6. Founded(q) /\ Due(q)
  BY <1>1, <1>2, <1>4 DEF Founded, Due, Promotes
<1>7. Free(r, q)
  BY <1>1, <1>4 DEF Free, SubmissionInv, InFlightOK, OneHolds, Promotes
<1>8. clock' \in Nat
  BY <1>5 DEF SubmissionInv, SubmissionTypes
<1> QED BY <1>4, <1>5, <1>6, <1>7, <1>8, RequestOnly

\* What the submission says of the decision.
Matches(i) ==
  /\ sub[i].status = "approved" <=> state[i] = "approved"
  /\ sub[i].status = "rejected" <=> state[i] = "rejected"
  /\ sub[i].status \in {"failed", "absent"} <=> state[i] = "absent"

\* An engine function called by a page, on an item that no promotion holds: at most the status of
\* the submission is written.
LEMMA PageStep ==
  ASSUME SubmissionInv, NEW i \in Items, NEW u \in Users, Step(i, u), ~Locked(i),
         UNCHANGED <<request, row, corrections, clock>>, state[i] # "absent",
         sub' = sub \/ \E x \in SubmissionStatus : sub' = [sub EXCEPT ![i].status = x] /\ x # "failed",
         state'[i] = "approved" <=> state[i] = "approved", Matches(i)'
  PROVE  [Next]_vars /\ SubmissionInv'
<1>1. /\ [Next]_vars /\ LogInv'
      /\ \A j \in Items \ {i} : state'[j] = state[j] /\ currentStage'[j] = currentStage[j]
  BY EngineKeeps DEF SubmissionInv
<1>2. PICK s \in Submission : s = sub[i] /\ Submitted(i)
  BY InReview
<1>3. PICK t \in Submission : /\ sub' = [sub EXCEPT ![i] = t]
                              /\ t.target = s.target /\ t.batch = s.batch /\ t.rows = s.rows
                              /\ t.status = s.status \/ t.status # "failed"
  <2>1. CASE sub' = sub
    BY <1>2, <2>1 DEF SubmissionInv, SubmissionTypes
  <2>2. CASE sub' # sub
    <3>1. PICK x \in SubmissionStatus : sub' = [sub EXCEPT ![i].status = x] /\ x # "failed"
      BY <2>2
    <3>2. sub' = [sub EXCEPT ![i] = [s EXCEPT !.status = x]]
      BY <1>2, <3>1
    <3> DEFINE t == [s EXCEPT !.status = x]
    <3>3. t \in Submission /\ t.status = x /\ t.target = s.target /\ t.batch = s.batch /\ t.rows = s.rows
      BY WithStatus
    <3> HIDE DEF t
    <3>4. sub' = [sub EXCEPT ![i] = t]
      BY <3>2 DEF t
    <3> QED BY <3>1, <3>3, <3>4
  <2> QED BY <2>1, <2>2
<1>4. /\ sub'[i] = t /\ t # Absent
      /\ \A j \in Items \ {i} : sub'[j] = sub[j]
      /\ sub' \in [Items -> Submission \cup {Absent}]
  BY <1>3, SubmissionFields DEF SubmissionInv, SubmissionTypes
<1>5. ExistStay /\ \A j \in Items : NoneOf(j)
  BY DEF ExistStay, NoneOf, Records!Exists
<1>6. \A j \in Items \ {i} : Untouched(j)
  BY <1>1, <1>4 DEF Untouched
<1>7. SubmissionTypes'
  BY <1>4 DEF SubmissionInv, SubmissionTypes
<1>8. InFlightOK'
  <2>1. \A s1 \in Requests : Promotes(request[s1]) => request[s1].item \in Items \ {i}
    BY RequestType, InFlightFields, LockedByHolder DEF SubmissionInv
  <2> QED BY <1>5, <1>6, <2>1, InFlightRests DEF SubmissionInv
<1>9. Agree(i)'
  <2>1. Agree(i)
    BY DEF SubmissionInv
  <2>2. s.target \in Observations \cup {NoObservation}
    BY SubmissionFields
  <2>3. t.status = "failed" => s.status = "failed"
    BY <1>3
  <2> QED BY <1>2, <1>3, <1>4, <2>1, <2>2, <2>3 DEF Agree, Matches, Submitted, Records!Exists
<1>10. PublishedOf(i)'
  BY <1>2, <1>3, <1>4 DEF SubmissionInv, PublishedOf, Submitted, Inserts, Records!Exists
<1>11. \A j \in Items : Agree(j)' /\ PublishedOf(j)'
  BY <1>5, <1>6, <1>9, <1>10, AgreeStays, PublishedStays DEF SubmissionInv
<1>12. Counted'
  <2>1. state'[i] = "approved" <=> t.status = "approved"
    BY <1>4 DEF Matches
  <2>2. state[i] = "approved" <=> s.status = "approved"
    BY <1>2 DEF SubmissionInv, Agree
  <2>3. ASSUME NEW o \in Observations
        PROVE  {j \in Items : Submitted(j) /\ sub[j].target = o
                  /\ sub[j].status = "approved" /\ sub[j].rows[1] = "promoted"}'
               = {j \in Items : Submitted(j) /\ sub[j].target = o
                  /\ sub[j].status = "approved" /\ sub[j].rows[1] = "promoted"}
    BY <1>2, <1>3, <1>4, <2>1, <2>2 DEF Submitted
  <2> QED BY <2>3 DEF SubmissionInv, Counted, EveryCorrectionOnRecord
<1> QED BY <1>1, <1>7, <1>8, <1>11, <1>12 DEF SubmissionInv

\* Before the step the submission says what its instance says.
LEMMA MatchesNow ==
  ASSUME SubmissionInv, NEW i \in Items
  PROVE  Matches(i)
BY DEF SubmissionInv, Agree, Matches

LEMMA AdvanceStageStep ==
  ASSUME SubmissionInv, NEW i \in Items, NEW u \in Users, AdvanceStage(i, u)
  PROVE  [Next]_vars /\ SubmissionInv'
<1>1. Step(i, u) /\ ~Locked(i) /\ UNCHANGED <<state, sub, request, row, corrections, clock>>
  BY DEF AdvanceStage, Step, Advance
<1>2. state[i] # "absent" /\ Matches(i)'
  BY <1>1, MatchesNow DEF AdvanceStage, Advance, MayApprove, Matches
<1> QED BY <1>1, <1>2, PageStep

LEMMA NoHookStep ==
  ASSUME SubmissionInv, NEW i \in Items, NEW u \in Users, NoHook(i, u)
  PROVE  [Next]_vars /\ SubmissionInv'
<1>1. Step(i, u) /\ ~Locked(i) /\ UNCHANGED <<sub, request, row, corrections, clock>>
  BY DEF NoHook, Step
<1>2. \/ state' = state /\ state[i] # "absent"
      \/ IsOpen(i) /\ \E s \in {"in_progress", "withdrawn"} : state' = [state EXCEPT ![i] = s]
  BY DEF NoHook, ReturnTo, Resubmit, Withdraw, CloseAs, Comment, IsOpen
<1>3. /\ \A v \in {"approved", "rejected", "absent"} : state'[i] = v <=> state[i] = v
      /\ state[i] # "absent"
  BY <1>2, StateOf DEF SubmissionInv, IsOpen
<1>4. Matches(i)'
  BY <1>1, <1>3, MatchesNow DEF Matches
<1> QED BY <1>1, <1>3, <1>4, PageStep

\* The two hooks that write the status.
LEMMA StatusHookStep ==
  ASSUME SubmissionInv, NEW i \in Items, NEW u \in Users, Step(i, u), ~Locked(i), IsOpen(i),
         NEW x \in {"rejected", "info_requested"}, state' = [state EXCEPT ![i] = x], SetStatus(i, x),
         UNCHANGED <<request, row, corrections, clock>>
  PROVE  [Next]_vars /\ SubmissionInv'
<1>1. state'[i] = x /\ state[i] \in {"in_progress", "info_requested"}
  BY StateOf DEF SubmissionInv, IsOpen
<1>2. sub' = [sub EXCEPT ![i].status = x] /\ x \in SubmissionStatus /\ x # "failed"
  BY DEF SetStatus, SubmissionStatus
<1>3. sub'[i].status = x
  <2>1. PICK s \in Submission : s = sub[i]
    BY <1>1, InReview
  <2>2. [s EXCEPT !.status = x].status = x
    BY <1>2, WithStatus
  <2>3. sub' = [sub EXCEPT ![i] = [s EXCEPT !.status = x]]
    BY <1>2, <2>1
  <2> QED BY <2>2, <2>3 DEF SubmissionInv, SubmissionTypes
<1>4. Matches(i)'
  BY <1>1, <1>3 DEF Matches
<1> QED BY <1>1, <1>2, <1>4, PageStep

LEMMA RejectSubmissionStep ==
  ASSUME SubmissionInv, NEW i \in Items, NEW u \in Users, RejectSubmission(i, u)
  PROVE  [Next]_vars /\ SubmissionInv'
<1>1. /\ Step(i, u) /\ ~Locked(i) /\ IsOpen(i) /\ UNCHANGED <<request, row, corrections, clock>>
      /\ state' = [state EXCEPT ![i] = "rejected"] /\ SetStatus(i, "rejected")
  BY DEF RejectSubmission, Step, Reject, CloseAs
<1> QED BY <1>1, StatusHookStep

LEMMA AskSubmitterStep ==
  ASSUME SubmissionInv, NEW i \in Items, NEW u \in Users, AskSubmitter(i, u)
  PROVE  [Next]_vars /\ SubmissionInv'
<1>1. /\ Step(i, u) /\ ~Locked(i) /\ IsOpen(i) /\ UNCHANGED <<request, row, corrections, clock>>
      /\ state' = [state EXCEPT ![i] = "info_requested"] /\ SetStatus(i, "info_requested")
  BY DEF AskSubmitter, Step, RequestInfo
<1> QED BY <1>1, StatusHookStep

-----------------------------------------------------------------------------
(***************************************************************************)
(* A new submission                                                        *)
(***************************************************************************)

\* A row is rejected for its errors, and for nothing else.
LEMMA VerdictIs ==
  ASSUME NEW b, NEW k
  PROVE  /\ Verdict(b, k) \in {"accepted", "flagged", "rejected"}
         /\ Verdict(b, k) = "rejected" <=> HasErrors(b, k)
<1>1. CASE HasErrors(b, k)
  BY <1>1 DEF Verdict
<1>2. CASE ~HasErrors(b, k) /\ HasFlags(b, k)
  BY <1>2 DEF Verdict
<1>3. CASE ~HasErrors(b, k) /\ ~HasFlags(b, k)
  BY <1>3 DEF Verdict
<1> QED BY <1>1, <1>2, <1>3

LEMMA FlaggedRows ==
  ASSUME NEW b \in Uploads, NEW odd \in SUBSET {k \in DOMAIN b : Verdict(b, k) = "accepted"}
  PROVE  /\ Flagged(b, odd) \in [DOMAIN b -> RecordStatus]
         /\ \A k \in DOMAIN b : /\ Flagged(b, odd)[k] = "rejected" <=> HasErrors(b, k)
                                /\ Flagged(b, odd)[k] # "promoted"
<1>1. ASSUME NEW k \in DOMAIN b
      PROVE  LET v == IF k \in odd THEN "flagged" ELSE Verdict(b, k)
             IN  v \in RecordStatus /\ (v = "rejected" <=> HasErrors(b, k)) /\ v # "promoted"
  BY VerdictIs DEF RecordStatus
<1> QED BY <1>1 DEF Flagged

LEMMA CreateCommitStep ==
  ASSUME SubmissionInv, NEW r \in Requests, NEW i \in Items,
         NEW odd \in SUBSET RowNos, CreateCommit(r, i, odd)
  PROVE  [Next]_vars /\ SubmissionInv'
<1>1. PICK q \in NewSubmissions : q = request[r] /\ q.kind = "create"
  BY RequestType, InFlightFields DEF SubmissionInv, CreateCommit
<1>2. /\ q.user \in Submitters /\ q.user \in Users /\ q.batch \in Uploads /\ q.key \in Keys \cup {NoKey}
      /\ q.target \in Observations \cup {NoObservation}
      /\ q.target # NoObservation => Len(q.batch) = 1 /\ Records!Exists(q.target)
  BY <1>1, SubmissionAssumption DEF NewSubmissions, SubmissionInv, InFlightOK, Founded, Sendable
<1> DEFINE st == Flagged(q.batch, odd)
<1>3. /\ ~Submitted(i) /\ odd \in SUBSET {k \in DOMAIN q.batch : Verdict(q.batch, k) = "accepted"}
      /\ sub' = [sub EXCEPT ![i] =
           [status |-> StatusOf(q, st), by |-> q.user, key |-> q.key, target |-> q.target,
            batch |-> q.batch, rows |-> st, counts |-> Counts(st)]]
      /\ IF Fails(q, st) THEN UNCHANGED vars ELSE Start(i, q.user)
      /\ request' = [request EXCEPT ![r] = NoRequest] /\ UNCHANGED <<row, corrections, clock>>
  BY <1>1 DEF CreateCommit, Tally
<1>4. /\ st \in [DOMAIN q.batch -> RecordStatus] /\ st \in RowStatuses
      /\ \A k \in DOMAIN q.batch : (st[k] = "rejected" <=> HasErrors(q.batch, k)) /\ st[k] # "promoted"
  BY <1>2, <1>3, FlaggedRows DEF RowStatuses
<1>5. Fails(q, st) => \A k \in DOMAIN q.batch : HasErrors(q.batch, k)
  BY <1>4 DEF Fails, Rejected
<1> HIDE DEF st
<1>6. PICK new \in Submission : /\ sub' = [sub EXCEPT ![i] = new]
                                /\ new.status = StatusOf(q, st) /\ new.target = q.target
                                /\ new.batch = q.batch /\ new.rows = st
  <2> DEFINE new == [status |-> StatusOf(q, st), by |-> q.user, key |-> q.key, target |-> q.target,
                     batch |-> q.batch, rows |-> st, counts |-> Counts(st)]
  <2>1. StatusOf(q, st) \in SubmissionStatus
    BY DEF StatusOf, SubmissionStatus
  <2>2. DOMAIN st = DOMAIN q.batch
    BY <1>4
  <2>3. new \in Submission
    BY <1>2, <1>4, <2>1, <2>2 DEF Submission
  <2> QED BY <1>3, <2>3
<1>7. /\ sub'[i] = new /\ new # Absent /\ \A j \in Items \ {i} : sub'[j] = sub[j]
      /\ sub' \in [Items -> Submission \cup {Absent}]
  BY <1>6, SubmissionFields DEF SubmissionInv, SubmissionTypes
<1>8. sub[i] = Absent /\ sub[i].status = "absent" /\ state[i] = "absent"
  BY <1>3 DEF Submitted, Absent, SubmissionInv, Agree
<1>9. /\ [Next]_vars /\ LogInv'
      /\ \A j \in Items \ {i} : state'[j] = state[j] /\ currentStage'[j] = currentStage[j]
      /\ IF Fails(q, st) THEN state'[i] = "absent" ELSE state'[i] = "in_progress"
  <2>1. CASE Fails(q, st)
    BY <1>3, <1>8, <2>1, EngineRests DEF SubmissionInv
  <2>2. CASE ~Fails(q, st)
    <3>1. Start(i, q.user)
      BY <1>3, <2>2
    <3>2. state'[i] = "in_progress"
      BY <3>1, StateOf DEF SubmissionInv, Start
    <3>3. Step(i, q.user)
      BY <3>1 DEF Step
    <3> QED BY <1>2, <2>2, <3>2, <3>3, EngineKeeps DEF SubmissionInv
  <2> QED BY <2>1, <2>2
<1>10. ExistStay /\ \A j \in Items : NoneOf(j)
  BY <1>3 DEF ExistStay, NoneOf, Records!Exists
<1>11. \A j \in Items \ {i} : Untouched(j)
  BY <1>7, <1>9 DEF Untouched
<1>12. NoRequest \in InFlight /\ Founded(NoRequest)' /\ Due(NoRequest)' /\ Free(r, NoRequest)
  BY DEF InFlight, NoRequest, Founded, Due, Promotes, Free
<1>13. SubmissionTypes'
  BY <1>3, <1>7, <1>12 DEF SubmissionInv, SubmissionTypes
<1>14. InFlightOK'
  <2>1. ASSUME NEW s \in Requests, Promotes(request[s]) PROVE request[s].item \in Items \ {i}
    BY <1>8, <2>1, RequestType, InFlightFields DEF SubmissionInv, InFlightOK, Due, Promotes
  <2> QED BY <1>3, <1>10, <1>11, <1>12, <2>1, InFlightStep DEF SubmissionInv
<1>15. Agree(i)'
  <2>1. \/ new.status = "failed" /\ state'[i] = "absent"
        \/ new.status = "under_review" /\ state'[i] = "in_progress"
    <3>1. CASE Fails(q, st)
      BY <1>6, <1>9, <3>1 DEF StatusOf
    <3>2. CASE ~Fails(q, st)
      BY <1>6, <1>9, <3>2 DEF StatusOf
    <3> QED BY <3>1, <3>2
  <2>2. new.status = "failed" => Fails(q, st)
    BY <1>6 DEF StatusOf
  <2>3. q.target # NoObservation => row'[q.target] # NoObservation
    BY <1>2, <1>3 DEF Records!Exists
  <2> QED BY <1>2, <1>4, <1>5, <1>6, <1>7, <2>1, <2>2, <2>3 DEF Agree, Submitted, Records!Exists
<1>16. PublishedOf(i)'
  BY <1>3, <1>4, <1>6, <1>7 DEF SubmissionInv, PublishedOf, Submitted, Records!Exists
<1>17. \A j \in Items : Agree(j)' /\ PublishedOf(j)'
  BY <1>10, <1>11, <1>15, <1>16, AgreeStays, PublishedStays DEF SubmissionInv
<1>18. Counted'
  <2>1. new.status # "approved"
    BY <1>6 DEF StatusOf
  <2> QED BY <1>3, <1>7, <1>8, <2>1, CountStays DEF SubmissionInv
<1> QED BY <1>9, <1>13, <1>14, <1>17, <1>18 DEF SubmissionInv

-----------------------------------------------------------------------------
(***************************************************************************)
(* The final approval                                                      *)
(***************************************************************************)

\* A submission in review has neither promoted rows nor published ones: what is promoted is what
\* is valid.
LEMMA BeforePromotion ==
  ASSUME SubmissionInv, NEW i \in Items, state[i] = "in_progress", NEW s \in Submission, s = sub[i]
  PROVE  /\ Promotable(i) = {k \in DOMAIN s.batch : ~HasErrors(s.batch, k)}
         /\ s.rows \in [DOMAIN s.batch -> RecordStatus]
         /\ \A k \in DOMAIN s.batch : s.rows[k] = "rejected" <=> HasErrors(s.batch, k)
         /\ \A k \in RowNos : ~Records!Exists(<<i, k>>)
<1>1. s.rows \in [DOMAIN s.batch -> RecordStatus]
  BY SubmissionFields
<1>2. Submitted(i)
  BY SubOf DEF SubmissionInv
<1>3. \A k \in DOMAIN s.batch : (s.rows[k] = "rejected" <=> HasErrors(s.batch, k)) /\ s.rows[k] # "promoted"
  BY <1>2 DEF SubmissionInv, Agree
<1>4. \A k \in RowNos : ~Records!Exists(<<i, k>>)
  BY <1>2, <1>3 DEF SubmissionInv, PublishedOf
<1>5. \A k \in DOMAIN s.batch : s.rows[k] \in {"accepted", "flagged"} <=> ~HasErrors(s.batch, k)
  BY <1>1, <1>3 DEF RecordStatus
<1>6. Promotable(i) = {k \in DOMAIN s.batch : ~HasErrors(s.batch, k)}
  BY <1>1, <1>5 DEF Promotable
<1> QED BY <1>1, <1>3, <1>4, <1>6

LEMMA PublishedIs ==
  ASSUME NEW v \in Payloads, NEW c \in DataClasses
  PROVE  Records!PublishedAs(v, c) \in Records!Observation /\ Records!PublishedAs(v, c) # NoObservation
<1>1. Records!PublishedAs(v, c) \in Records!Observation
  BY DEF Records!PublishedAs, Records!Observation, Records!ApprovalState
<1> QED BY <1>1, SubmissionAssumption

LEMMA CorrectedIs ==
  ASSUME NEW copy \in Records!Observation, NEW v \in Payloads, NEW c \in DataClasses
  PROVE  /\ Records!CorrectedFrom(copy, v, c) \in Records!Observation
         /\ Records!CorrectedFrom(copy, v, c) # NoObservation
         /\ copy.value \in Payloads
<1>1. Records!CorrectedFrom(copy, v, c) \in Records!Observation
  BY DEF Records!CorrectedFrom, Records!Observation, Records!ApprovalState
<1> QED BY <1>1, SubmissionAssumption DEF Records!Observation

\* The tables after the promotion of P, the valid rows of item i.
PromotedInto(i, P) ==
  /\ row' \in [Observations -> Records!Observation \cup {NoObservation}]
  /\ ExistStay
  /\ \A j \in Items \ {i} : NoneOf(j)
  /\ \A k \in RowNos : row'[<<i, k>>] # NoObservation <=> Inserts(i) /\ k \in P

LEMMA InsertDoes ==
  ASSUME SubmissionInv, NEW i \in Items, NEW c \in DataClasses, state[i] = "in_progress",
         Inserts(i), Insert(i, c)
  PROVE  PromotedInto(i, Promotable(i))
<1>1. PICK s \in Submission : s = sub[i]
  BY InReview
<1>2. s.batch \in Uploads
  BY SubmissionFields
<1>3. PICK P : P = Promotable(i) /\ P \subseteq DOMAIN s.batch
  BY <1>1, BeforePromotion
<1>4. row' = [o \in Observations |->
         IF \E k \in P : o = <<i, k>> THEN Records!PublishedAs(s.batch[o[2]], c) ELSE row[o]]
  BY <1>1, <1>3 DEF Insert
<1>5. ASSUME NEW o \in Observations, NEW k \in P, o = <<i, k>>
      PROVE  row'[o] \in Records!Observation /\ row'[o] # NoObservation
  <2>1. o[2] = k /\ s.batch[k] \in Payloads
    BY <1>2, <1>3, <1>5, BatchRows
  <2>2. row'[o] = Records!PublishedAs(s.batch[k], c)
    BY <1>4, <1>5, <2>1
  <2> QED BY <2>1, <2>2, PublishedIs
<1>6. ASSUME NEW o \in Observations, ~ \E k \in P : o = <<i, k>>
      PROVE  row'[o] = row[o]
  BY <1>4, <1>6
<1>7. row' \in [Observations -> Records!Observation \cup {NoObservation}]
  <2>1. \A o \in Observations : row'[o] \in Records!Observation \cup {NoObservation}
    BY <1>5, <1>6 DEF SubmissionInv, SubmissionTypes
  <2> QED BY <1>4, <2>1
<1>8. ExistStay
  BY <1>5, <1>6 DEF ExistStay, Records!Exists
<1>9. ASSUME NEW j \in Items \ {i}, NEW k \in RowNos PROVE row'[<<j, k>>] = row[<<j, k>>]
  <2>1. <<j, k>> \in Observations /\ \A m \in P : <<j, k>> # <<i, m>>
    BY DEF Observations
  <2> QED BY <1>6, <2>1
<1>10. ASSUME NEW k \in RowNos PROVE row'[<<i, k>>] # NoObservation <=> k \in P
  <2>1. <<i, k>> \in Observations /\ \A m \in P : <<i, k>> = <<i, m>> => m = k
    BY DEF Observations
  <2>2. row[<<i, k>>] = NoObservation
    BY <1>1, BeforePromotion DEF Records!Exists
  <2> QED BY <1>5, <1>6, <2>1, <2>2
<1> QED BY <1>3, <1>7, <1>8, <1>9, <1>10 DEF PromotedInto, NoneOf, Records!Exists

LEMMA ReplaceDoes ==
  ASSUME SubmissionInv, NEW i \in Items, NEW c \in DataClasses, state[i] = "in_progress",
         NEW q \in Promoting, q.item = i, ~Inserts(i), Promotable(i) # {} => q.copy # NoObservation,
         Replace(q, c), History(q)
  PROVE  /\ PromotedInto(i, Promotable(i))
         /\ corrections' \in [Observations -> Seq(HistoryRow)]
         /\ \A o \in Observations :
              Len(corrections'[o]) =
                IF o = sub[i].target /\ Promotable(i) # {} THEN Len(corrections[o]) + 1 ELSE Len(corrections[o])
<1>1. PICK s \in Submission : s = sub[i] /\ Submitted(i)
  BY InReview
<1>2. PICK t \in Observations : t = s.target
  BY <1>1, SubmissionFields DEF Inserts
<1>3. row[t] # NoObservation /\ Len(s.batch) = 1
  BY <1>1, <1>2, SubmissionAssumption DEF SubmissionInv, Agree, Records!Exists
<1>4. row \in [Observations -> Records!Observation \cup {NoObservation}]
      /\ corrections \in [Observations -> Seq(HistoryRow)]
  BY DEF SubmissionInv, SubmissionTypes
<1>5. CASE Promotable(i) = {}
  <2>1. row' = row /\ corrections' = corrections
    BY <1>5 DEF Replace, History
  <2>2. PromotedInto(i, Promotable(i))
    <3>1. \A k \in RowNos : row[<<i, k>>] = NoObservation
      BY <1>1, BeforePromotion DEF Records!Exists
    <3> QED BY <1>4, <1>5, <2>1, <3>1 DEF PromotedInto, ExistStay, NoneOf, Records!Exists
  <2> QED BY <1>4, <1>5, <2>1, <2>2
<1>6. CASE Promotable(i) # {}
  <2>1. PICK v \in Payloads : v = s.batch[1]
    <3>1. s.batch \in Uploads
      BY SubmissionFields
    <3>2. 1 \in DOMAIN s.batch
      BY <1>3, <3>1, BatchRows
    <3> QED BY <3>1, <3>2, BatchRows
  <2>2. q.copy \in Records!Observation /\ q.at \in Nat
    BY <1>6 DEF Promoting
  <2>3. PICK new \in Records!Observation : new = Records!CorrectedFrom(q.copy, v, c) /\ new # NoObservation
    BY <2>2, CorrectedIs
  <2>4. PICK h \in HistoryRow : h = Records!Correction(q.copy.value, v, q.at)
    BY <2>2, CorrectedIs DEF HistoryRow, Records!Correction, SubmissionInv, SubmissionTypes
  <2>5. row' = [row EXCEPT ![t] = new]
    BY <1>1, <1>2, <1>6, <2>1, <2>3 DEF Replace
  <2>6. EditOf(q).row = t /\ EditOf(q).copy = q.copy /\ EditOf(q).at = q.at
    BY <1>1, <1>2, <1>6 DEF EditOf
  <2>7. corrections' = [corrections EXCEPT ![t] = Append(corrections[t], h)]
    BY <1>1, <1>4, <1>6, <2>1, <2>4, <2>6 DEF History, Records!RecordCorrection, Records!Snapshot
  <2>8. PromotedInto(i, Promotable(i))
    <3>1. \A j \in Items, k \in RowNos : <<j, k>> \in Observations
      BY DEF Observations
    <3>2. \A k \in RowNos : row[<<i, k>>] = NoObservation
      BY <1>1, BeforePromotion DEF Records!Exists
    <3>3. /\ row' \in [Observations -> Records!Observation \cup {NoObservation}]
          /\ \A o \in Observations : row'[o] # NoObservation <=> row[o] # NoObservation
      BY <1>3, <1>4, <2>3, <2>5
    <3> QED BY <3>1, <3>2, <3>3 DEF PromotedInto, ExistStay, NoneOf, Records!Exists
  <2>9. Append(corrections[t], h) \in Seq(HistoryRow) /\ Len(Append(corrections[t], h)) = Len(corrections[t]) + 1
    BY <1>4
  <2>10. corrections' \in [Observations -> Seq(HistoryRow)]
    BY <1>4, <2>7, <2>9
  <2>11. ASSUME NEW o \in Observations
         PROVE  Len(corrections'[o]) = IF o = t THEN Len(corrections[o]) + 1 ELSE Len(corrections[o])
    BY <1>4, <2>7, <2>9
  <2> QED BY <1>1, <1>2, <1>6, <2>8, <2>10, <2>11
<1> QED BY <1>5, <1>6

\* The set of the approved corrections of a row grows by the one that is promoted.
LEMMA CountGrows ==
  ASSUME Counted, ~Generic, NEW i \in Items, sub[i].status # "approved",
         \A j \in Items \ {i} : sub'[j] = sub[j], NEW new \in Submission, sub'[i] = new,
         new.status = "approved", NEW P,
         new.target # NoObservation => (new.rows[1] = "promoted" <=> P # {}),
         \A o \in Observations :
           Len(corrections'[o]) =
             IF o = new.target /\ P # {} THEN Len(corrections[o]) + 1 ELSE Len(corrections[o])
  PROVE  Counted'
<1> DEFINE By(o) == {j \in Items : Submitted(j) /\ sub[j].target = o
                       /\ sub[j].status = "approved" /\ sub[j].rows[1] = "promoted"}
<1>1. new # Absent
  BY SubmissionFields
<1>2. ASSUME NEW o \in Observations
      PROVE  Len(corrections'[o]) =
               Cardinality({j \in Items : Submitted(j) /\ sub[j].target = o
                              /\ sub[j].status = "approved" /\ sub[j].rows[1] = "promoted"}')
  <2>1. PICK S \in SUBSET Items : S = By(o) /\ i \notin S
    OBVIOUS
  <2>2. IsFiniteSet(S)
    BY SubmissionAssumption, FS_Subset
  <2>3. Len(corrections[o]) = Cardinality(S)
    BY <2>1 DEF Counted, EveryCorrectionOnRecord
  <2>4. PICK T : T = {j \in Items : Submitted(j) /\ sub[j].target = o
                        /\ sub[j].status = "approved" /\ sub[j].rows[1] = "promoted"}'
    OBVIOUS
  <2>5. \A j \in Items \ {i} : j \in T <=> j \in S
    BY <2>1, <2>4 DEF Submitted
  <2>6. i \in T <=> new.target = o /\ new.rows[1] = "promoted"
    BY <1>1, <2>4 DEF Submitted
  <2>7. CASE o = new.target /\ P # {}
    <3>1. new.rows[1] = "promoted"
      BY <2>7, SubmissionAssumption
    <3>2. T = S \cup {i}
      BY <2>1, <2>4, <2>5, <2>6, <2>7, <3>1
    <3>3. Cardinality(T) = Cardinality(S) + 1
      BY <2>1, <2>2, <3>2, FS_AddElement
    <3> QED BY <2>3, <2>4, <2>7, <3>3
  <2>8. CASE ~(o = new.target /\ P # {})
    <3>1. o # NoObservation
      BY SubmissionAssumption
    <3>2. T = S
      BY <2>1, <2>4, <2>5, <2>6, <2>8, <3>1
    <3> QED BY <2>3, <2>4, <2>8, <3>2
  <2> QED BY <2>7, <2>8
<1> QED BY <1>2 DEF Counted, EveryCorrectionOnRecord

LEMMA PromoteCommitStep ==
  ASSUME SubmissionInv, NEW r \in Requests, NEW c \in DataClasses, PromoteCommit(r, c)
  PROVE  [Next]_vars /\ SubmissionInv'
<1>1. PICK q \in Promoting : q = request[r] /\ q.item \in Items /\ q.user \in Users
  BY RequestType, InFlightFields DEF SubmissionInv, PromoteCommit, Promotes
<1>2. PICK i \in Items : i = q.item
  BY <1>1
<1>3. Due(q) /\ q.kind = "promote"
  BY <1>1 DEF SubmissionInv, InFlightOK, PromoteCommit
<1>4. PICK s \in Submission : s = sub[i] /\ Submitted(i)
  BY <1>2, <1>3, SubOf DEF SubmissionInv, Due, Submitted
<1>5. /\ CloseAs(i, "approved")
      /\ Record(i, "final_approve", q.user, currentStage[i], NoStage)
      /\ UNCHANGED <<currentStage, submitter, enteredAt, clock>>
      /\ IF Inserts(i)
         THEN Insert(i, c) /\ UNCHANGED corrections
         ELSE (Promotable(i) # {} => q.copy # NoObservation) /\ Replace(q, c) /\ History(q)
      /\ MarkPromoted(i) /\ request' = [request EXCEPT ![r] = NoRequest]
  BY <1>1, <1>2, <1>4 DEF PromoteCommit
<1>6. Step(i, q.user)
  BY <1>2, <1>3, <1>5 DEF Step, Approve, FinalApprove, Due
<1>7. /\ [Next]_vars /\ LogInv' /\ state'[i] = "approved"
      /\ \A j \in Items \ {i} : state'[j] = state[j] /\ currentStage'[j] = currentStage[j]
  BY <1>1, <1>5, <1>6, EngineKeeps, StateOf DEF SubmissionInv, CloseAs
<1>8. state[i] = "in_progress"
  BY <1>2, <1>3 DEF Due, MayApprove
<1>9. PICK P : /\ P = Promotable(i) /\ P = {k \in DOMAIN s.batch : ~HasErrors(s.batch, k)}
               /\ s.rows \in [DOMAIN s.batch -> RecordStatus]
               /\ \A k \in DOMAIN s.batch : s.rows[k] = "rejected" <=> HasErrors(s.batch, k)
  BY <1>4, <1>8, BeforePromotion
<1>10. PICK st \in [DOMAIN s.batch -> RecordStatus] :
         st = [k \in DOMAIN s.rows |-> IF k \in P THEN "promoted" ELSE s.rows[k]]
  BY <1>9 DEF RecordStatus
<1>11. \A k \in DOMAIN s.batch : /\ st[k] = "promoted" <=> k \in P
                                 /\ st[k] = "rejected" <=> k \notin P
  BY <1>9, <1>10
<1>12. PICK new \in Submission : /\ sub' = [sub EXCEPT ![i] = new]
                                 /\ new.status = "approved" /\ new.target = s.target
                                 /\ new.batch = s.batch /\ new.rows = st
  <2> DEFINE new == [s EXCEPT !.status = "approved", !.rows = st]
  <2>1. /\ new \in Submission /\ new.status = "approved" /\ new.target = s.target
        /\ new.batch = s.batch /\ new.rows = st
    BY WithRows
  <2>2. sub' = [sub EXCEPT ![i] = new]
    BY <1>4, <1>5, <1>9, <1>10 DEF MarkPromoted
  <2> HIDE DEF new
  <2> QED BY <2>1, <2>2
<1>13. /\ sub'[i] = new /\ new # Absent /\ \A j \in Items \ {i} : sub'[j] = sub[j]
       /\ sub' \in [Items -> Submission \cup {Absent}]
  BY <1>12, SubmissionFields DEF SubmissionInv, SubmissionTypes
<1>14. /\ PromotedInto(i, P)
       /\ corrections' \in [Observations -> Seq(HistoryRow)]
       /\ ~Generic => \A o \in Observations :
            Len(corrections'[o]) =
              IF o = s.target /\ P # {} THEN Len(corrections[o]) + 1 ELSE Len(corrections[o])
  <2>1. CASE Inserts(i)
    <3>1. ~Generic => \A o \in Observations : o # s.target
      BY <1>4, <2>1, SubmissionAssumption DEF Inserts
    <3>2. corrections' = corrections /\ corrections \in [Observations -> Seq(HistoryRow)]
      BY <1>5, <2>1 DEF SubmissionInv, SubmissionTypes
    <3>3. PromotedInto(i, P)
      BY <1>4, <1>5, <1>8, <1>9, <2>1, InsertDoes
    <3> QED BY <3>1, <3>2, <3>3
  <2>2. CASE ~Inserts(i)
    BY <1>1, <1>2, <1>4, <1>5, <1>8, <1>9, <2>2, ReplaceDoes
  <2> QED BY <2>1, <2>2
<1>15. /\ ExistStay /\ \A j \in Items \ {i} : Untouched(j) /\ NoneOf(j)
       /\ row' \in [Observations -> Records!Observation \cup {NoObservation}]
  BY <1>7, <1>13, <1>14 DEF Untouched, PromotedInto
<1>16. NoRequest \in InFlight /\ Founded(NoRequest)' /\ Due(NoRequest)' /\ Free(r, NoRequest)
  BY DEF InFlight, NoRequest, Founded, Due, Promotes, Free
<1>17. SubmissionTypes'
  BY <1>5, <1>13, <1>14, <1>15, <1>16 DEF SubmissionInv, SubmissionTypes
<1>18. InFlightOK'
  <2>1. ASSUME NEW t \in Requests \ {r}, Promotes(request[t]) PROVE request[t].item \in Items \ {i}
    BY <1>1, <1>2, <1>3, <2>1, RequestType, InFlightFields
       DEF SubmissionInv, InFlightOK, OneHolds, Promotes
  <2> QED BY <1>5, <1>15, <1>16, <2>1, InFlightStep DEF SubmissionInv
<1>19. Agree(i)'
  <2>1. s.target # NoObservation => Len(s.batch) = 1 /\ row'[s.target] # NoObservation
    <3>1. s.target \in Observations \cup {NoObservation}
      BY SubmissionFields
    <3>2. s.target # NoObservation => Len(s.batch) = 1 /\ Records!Exists(s.target)
      BY <1>4 DEF SubmissionInv, Agree
    <3> QED BY <1>15, <3>1, <3>2 DEF ExistStay
  <2> QED BY <1>7, <1>9, <1>11, <1>12, <1>13, <2>1 DEF Agree, Submitted, Records!Exists
<1>20. PublishedOf(i)'
  <2>1. P \subseteq DOMAIN s.batch /\ \A k \in RowNos :
          row'[<<i, k>>] # NoObservation <=> Inserts(i) /\ k \in P
    BY <1>4, <1>9, <1>14 DEF PromotedInto
  <2> QED BY <1>4, <1>11, <1>12, <1>13, <2>1 DEF PublishedOf, Submitted, Inserts, Records!Exists
<1>21. \A j \in Items : Agree(j)' /\ PublishedOf(j)'
  BY <1>15, <1>19, <1>20, AgreeStays, PublishedStays DEF SubmissionInv
<1>22. Counted'
  <2>1. sub[i].status # "approved"
    BY <1>8 DEF SubmissionInv, Agree
  <2>2. ASSUME s.target # NoObservation PROVE st[1] = "promoted" <=> P # {}
    <3>1. s.batch \in Uploads /\ Len(s.batch) = 1
      BY <1>4, <2>2, SubmissionFields DEF SubmissionInv, Agree
    <3>2. DOMAIN s.batch = {1}
      BY <3>1, BatchRows
    <3> QED BY <1>9, <1>11, <3>2
  <2>3. /\ new.target # NoObservation => (new.rows[1] = "promoted" <=> P # {})
        /\ ~Generic => \A o \in Observations :
             Len(corrections'[o]) =
               IF o = new.target /\ P # {} THEN Len(corrections[o]) + 1 ELSE Len(corrections[o])
    BY <1>12, <1>14, <2>2
  <2>4. Counted
    BY DEF SubmissionInv
  <2>5. new.status = "approved" /\ sub'[i] = new /\ \A j \in Items \ {i} : sub'[j] = sub[j]
    BY <1>12, <1>13
  <2>6. CASE Generic
    BY <2>6 DEF Counted
  <2>7. CASE ~Generic
    BY <2>1, <2>3, <2>4, <2>5, <2>7, CountGrows
  <2> QED BY <2>6, <2>7
<1> QED BY <1>7, <1>17, <1>18, <1>21, <1>22 DEF SubmissionInv

-----------------------------------------------------------------------------
(***************************************************************************)
(* The invariant                                                           *)
(***************************************************************************)
LEMMA SubmissionStart == SubmissionInit => SubmissionInv
<1> SUFFICES ASSUME SubmissionInit PROVE SubmissionInv
  OBVIOUS
<1>1. LogInv
  BY DEF SubmissionInit, Init, LogInv, TypeOK, LogDecidesState, LogEndsHere, LogIsAWalk
<1>2. /\ sub = [i \in Items |-> Absent] /\ request = [r \in Requests |-> NoRequest]
      /\ corrections = [o \in Observations |-> << >>] /\ state = [i \in Items |-> "absent"]
      /\ clock = 0
  BY DEF SubmissionInit, Init
<1>3. PICK c \in DataClasses : c = CHOOSE d \in DataClasses : TRUE
  BY SubmissionAssumption
<1>4. PICK old \in Records!Observation : old = Records!PublishedAs(OriginalValue, c) /\ old # NoObservation
  BY PublishedIs DEF Payloads
<1>5. row = [o \in Observations |-> IF o \in OnRecord THEN old ELSE NoObservation]
  BY <1>3, <1>4 DEF SubmissionInit
<1>6. SubmissionTypes
  <2>1. << >> \in Seq(HistoryRow) /\ NoRequest \in InFlight
    BY DEF InFlight
  <2> QED BY <1>2, <1>5, <2>1 DEF SubmissionTypes
<1>7. InFlightOK
  BY <1>2 DEF InFlightOK, OneHolds, Founded, Due, NoRequest
<1>8. \A i \in Items : Agree(i)
  BY <1>2 DEF Agree, Submitted, Absent
<1>9. \A i \in Items : PublishedOf(i)
  <2>1. ASSUME NEW i \in Items, NEW k \in RowNos PROVE ~Records!Exists(<<i, k>>)
    <3>1. <<i, k>> \in Observations /\ <<i, k>> \notin OnRecord
      BY SubmissionAssumption DEF Observations
    <3> QED BY <1>5, <3>1 DEF Records!Exists
  <2> QED BY <1>2, <2>1 DEF PublishedOf, Submitted
<1>10. Counted
  <2>1. ASSUME NEW o \in Observations
        PROVE  {i \in Items : Submitted(i) /\ sub[i].target = o
                  /\ sub[i].status = "approved" /\ sub[i].rows[1] = "promoted"} = {}
    BY <1>2 DEF Submitted
  <2> QED BY <1>2, <2>1, FS_EmptySet DEF Counted, EveryCorrectionOnRecord
<1> QED BY <1>1, <1>6, <1>7, <1>8, <1>9, <1>10 DEF SubmissionInv

LEMMA SubmissionStep ==
  ASSUME SubmissionInv, [SubmissionNext]_svars
  PROVE  [Next]_vars /\ SubmissionInv'
<1>1. CASE UNCHANGED svars
  <2>1. UNCHANGED <<vars, sub, request, row, corrections, clock>>
    BY <1>1 DEF svars
  <2>2. [Next]_vars /\ LogInv' /\ UNCHANGED <<state, currentStage>>
    BY <2>1, EngineRests DEF SubmissionInv
  <2>3. ExistStay /\ \A i \in Items : Untouched(i) /\ NoneOf(i)
    BY <2>1, <2>2 DEF ExistStay, Untouched, NoneOf, Records!Exists
  <2>4. InFlightOK'
    BY <2>1, <2>3, InFlightRests, RequestType, InFlightFields DEF SubmissionInv
  <2>5. \A i \in Items : Agree(i)' /\ PublishedOf(i)'
    BY <2>3, AgreeStays, PublishedStays DEF SubmissionInv
  <2>6. Counted'
    BY <2>1, CountStays DEF SubmissionInv
  <2> QED BY <2>1, <2>2, <2>4, <2>5, <2>6 DEF SubmissionInv, SubmissionTypes
<1>2. ASSUME NEW i \in Items, NEW u \in Users, Reviewing(i, u) PROVE [Next]_vars /\ SubmissionInv'
  BY <1>2, AdvanceStageStep, PromoteBeginStep, RejectSubmissionStep, AskSubmitterStep, NoHookStep
     DEF Reviewing
<1>3. ASSUME NEW r \in Requests, Working(r) PROVE [Next]_vars /\ SubmissionInv'
  BY <1>3, CreateBeginStep, CreateCommitStep, PromoteReadStep, PromoteCommitStep, DropStep DEF Working
<1> QED BY <1>1, <1>2, <1>3 DEF SubmissionNext

LEMMA SubmissionInvariant == SubmissionSpec => []SubmissionInv
BY SubmissionStart, SubmissionStep, PTL DEF SubmissionSpec

-----------------------------------------------------------------------------
(***************************************************************************)
(* What follows from it                                                    *)
(***************************************************************************)

\* The columns of a submission, of its records and of the published rows keep their types.
THEOREM SubmissionTypesHold == SubmissionSpec => []SubmissionTypeOK
<1>1. SubmissionInv => SubmissionTypeOK
  <2> SUFFICES ASSUME SubmissionInv PROVE SubmissionTypeOK
    OBVIOUS
  <2>1. \A i \in Items : Submitted(i) => sub[i] \in Submission
    BY SubOf DEF SubmissionInv
  <2>2. \A o \in Observations : Records!Exists(o) => row[o] \in Records!Observation
    BY DEF SubmissionInv, SubmissionTypes, Records!Exists
  <2> QED BY <2>1, <2>2, SubmissionFields DEF SubmissionTypeOK
<1> QED BY <1>1, SubmissionInvariant, PTL

\* An approval publishes every valid row of its batch, or what it corrects, in one step
\* (promotion.promote inside engine.approve).
THEOREM ApprovalsPublish == SubmissionSpec => []ApprovedIsPublished
<1>1. SubmissionInv => ApprovedIsPublished
  <2> SUFFICES ASSUME SubmissionInv, NEW i \in Items, state[i] = "approved",
                      NEW k \in DOMAIN sub[i].batch, ~HasErrors(sub[i].batch, k)
               PROVE  sub[i].rows[k] = "promoted" /\ (Published(i, k) \/ ~Inserts(i))
    BY DEF ApprovedIsPublished
  <2>1. PICK s \in Submission : s = sub[i] /\ Submitted(i)
    BY InReview
  <2>2. k \in RowNos
    BY <2>1, SubmissionFields, BatchRows
  <2>3. sub[i].rows[k] = "promoted"
    BY <2>1 DEF SubmissionInv, Agree
  <2> QED BY <2>1, <2>2, <2>3 DEF SubmissionInv, PublishedOf, Published
<1> QED BY <1>1, SubmissionInvariant, PTL

\* The status of a submission under review or withdrawn: it shows whether the log has a question.
Told(i) ==
  state[i] \in {"in_progress", "info_requested", "withdrawn"} =>
    sub[i].status = IF Asked(i) THEN "info_requested" ELSE "under_review"

\* One action is added to the log: it asks, or the log asks what it asked.
LEMMA AskedStep ==
  ASSUME SubmissionInv, NEW i \in Items, NEW a \in ActionType, NEW u, NEW from, NEW to, Record(i, a, u, from, to)
  PROVE  /\ Asked(i)' <=> Asked(i) \/ a = "request_info"
         /\ \A j \in Items \ {i} : Asked(j)' <=> Asked(j)
<1>1. actions \in [Items -> Seq(WorkflowAction)]
  BY DEF SubmissionInv, LogInv, TypeOK
<1> DEFINE e == [action |-> a, actor |-> u, from |-> from, to |-> to]
<1>2. actions' = [actions EXCEPT ![i] = Append(actions[i], e)] /\ e.action = a
  BY DEF Record
<1> HIDE DEF e
<1>3. actions'[i] = Append(actions[i], e) /\ \A j \in Items \ {i} : actions'[j] = actions[j]
  BY <1>1, <1>2
<1>4. PICK log \in Seq(WorkflowAction) : log = actions[i]
  BY <1>1
<1>5. /\ DOMAIN Append(log, e) = 1 .. Len(log) + 1 /\ DOMAIN log = 1 .. Len(log) /\ Len(log) \in Nat
      /\ \A k \in 1 .. Len(log) : Append(log, e)[k] = log[k]
      /\ Append(log, e)[Len(log) + 1] = e
  OBVIOUS
<1>6. Asked(i)' <=> Asked(i) \/ a = "request_info"
  BY <1>2, <1>3, <1>4, <1>5 DEF Asked
<1> QED BY <1>3, <1>6 DEF Asked

LEMMA ToldStays ==
  ASSUME NEW j \in Items, Told(j), sub'[j] = sub[j], Asked(j)' <=> Asked(j),
         state'[j] \in {"in_progress", "info_requested", "withdrawn"} =>
           state[j] \in {"in_progress", "info_requested", "withdrawn"}
  PROVE  Told(j)'
BY DEF Told

LEMMA ToldStep ==
  ASSUME SubmissionInv, SubmissionInv', [SubmissionNext]_svars, \A j \in Items : Told(j), NEW j \in Items
  PROVE  Told(j)'
<1> USE DEF ActionType, Deciding
<1>1. CASE UNCHANGED <<vars, sub>>
  BY <1>1, ToldStays DEF vars, Asked
<1>2. ASSUME NEW i \in Items, NEW u \in Users, Reviewing(i, u) PROVE Told(j)'
  <2>1. CASE AdvanceStage(i, u)
    <3>1. PICK t \in Stages : Record(i, "approve", u, currentStage[i], t)
      BY <2>1 DEF AdvanceStage, Advance
    <3>2. Asked(j)' <=> Asked(j)
      BY <3>1, AskedStep
    <3> QED BY <2>1, <3>2, ToldStays DEF AdvanceStage, Advance
  <2>2. CASE NoHook(i, u)
    <3>1. PICK a \in {"return", "resubmit", "withdraw", "comment"} : \E from, to : Record(i, a, u, from, to)
      BY <2>2 DEF NoHook, ReturnTo, Resubmit, Withdraw, Comment
    <3>2. Asked(j)' <=> Asked(j)
      BY <3>1, AskedStep
    <3>3. /\ sub' = sub
          /\ \/ state' = state
             \/ IsOpen(i) /\ \E x \in {"in_progress", "withdrawn"} : state' = [state EXCEPT ![i] = x]
      BY <2>2 DEF NoHook, ReturnTo, Resubmit, Withdraw, CloseAs, Comment, IsOpen
    <3>4. state'[j] \in {"in_progress", "info_requested", "withdrawn"} =>
            state[j] \in {"in_progress", "info_requested", "withdrawn"}
      BY <3>3, StateOf DEF SubmissionInv, IsOpen
    <3> QED BY <3>2, <3>3, <3>4, ToldStays
  <2>3. CASE RejectSubmission(i, u)
    <3>1. Record(i, "reject", u, currentStage[i], NoStage) /\ SetStatus(i, "rejected")
          /\ state' = [state EXCEPT ![i] = "rejected"]
      BY <2>3 DEF RejectSubmission, Reject, CloseAs
    <3>2. Asked(j)' <=> Asked(j)
      BY <3>1, AskedStep
    <3>3. /\ i # j => sub'[j] = sub[j] /\ state'[j] = state[j]
          /\ state'[i] = "rejected"
      BY <3>1, StateOf DEF SetStatus, SubmissionInv, SubmissionTypes
    <3> QED BY <3>2, <3>3, ToldStays DEF Told
  <2>4. CASE AskSubmitter(i, u)
    <3>1. Record(i, "request_info", u, currentStage[i], NoStage) /\ SetStatus(i, "info_requested")
          /\ IsOpen(i) /\ state' = [state EXCEPT ![i] = "info_requested"]
      BY <2>4 DEF AskSubmitter, RequestInfo
    <3>2. Asked(i)' /\ (i # j => (Asked(j)' <=> Asked(j)))
      BY <3>1, AskedStep
    <3>3. /\ i # j => sub'[j] = sub[j] /\ state'[j] = state[j]
          /\ sub'[i] = [sub[i] EXCEPT !.status = "info_requested"]
      BY <3>1 DEF SetStatus, SubmissionInv, SubmissionTypes, LogInv, TypeOK
    <3>4. PICK s \in Submission : s = sub[i]
      BY <3>1, InReview DEF IsOpen
    <3>5. sub'[i].status = "info_requested"
      BY <3>3, <3>4, WithStatus DEF SubmissionStatus
    <3> QED BY <3>2, <3>3, <3>5, ToldStays DEF Told
  <2> QED BY <1>1, <1>2, <2>1, <2>2, <2>3, <2>4 DEF Reviewing, PromoteBegin
<1>3. ASSUME NEW r \in Requests, Working(r) PROVE Told(j)'
  <2>1. ASSUME NEW i \in Items, NEW odd \in SUBSET RowNos, CreateCommit(r, i, odd) PROVE Told(j)'
    <3>1. PICK q, st : /\ ~Submitted(i) /\ IF Fails(q, st) THEN UNCHANGED vars ELSE Start(i, q.user)
                       /\ sub'[i].status = StatusOf(q, st) /\ \A k \in Items \ {i} : sub'[k] = sub[k]
      BY <2>1 DEF CreateCommit, SubmissionInv, SubmissionTypes
    <3>2. state[i] = "absent"
      BY <3>1 DEF Submitted, Absent, SubmissionInv, Agree
    <3>3. CASE Fails(q, st)
      BY <3>1, <3>2, <3>3, ToldStays DEF vars, Told, Asked
    <3>4. CASE ~Fails(q, st)
      <4>1. PICK s : Record(i, "submit", q.user, NoStage, s)
        BY <3>1, <3>4 DEF Start
      <4>2. Asked(j)' <=> Asked(j)
        BY <4>1, AskedStep
      <4>3. ~Asked(i)
        BY <3>2 DEF SubmissionInv, LogInv, LogDecidesState, LastDecision, Outcome, Asked
      <4>4. i # j => state'[j] = state[j]
        BY <3>1, <3>4 DEF Start, SubmissionInv, LogInv, TypeOK
      <4> QED BY <3>1, <3>4, <4>2, <4>3, <4>4, ToldStays DEF Told, StatusOf
    <3> QED BY <3>3, <3>4
  <2>2. ASSUME NEW c \in DataClasses, PromoteCommit(r, c) PROVE Told(j)'
    <3>1. PICK i \in Items : i = request[r].item
      BY <2>2, RequestType, InFlightFields DEF SubmissionInv, PromoteCommit, Promotes
    <3>2. CloseAs(i, "approved") /\ MarkPromoted(i)
          /\ Record(i, "final_approve", request[r].user, currentStage[i], NoStage)
      BY <2>2, <3>1 DEF PromoteCommit
    <3>3. Asked(j)' <=> Asked(j)
      BY <3>2, AskedStep
    <3>4. /\ i # j => sub'[j] = sub[j] /\ state'[j] = state[j]
          /\ state'[i] = "approved"
      BY <3>2, StateOf DEF CloseAs, MarkPromoted, SubmissionInv, SubmissionTypes
    <3> QED BY <3>3, <3>4, ToldStays DEF Told
  <2> QED BY <1>1, <1>3, <2>1, <2>2 DEF Working, CreateBegin, PromoteRead, Drop
<1> QED BY <1>1, <1>2, <1>3 DEF SubmissionNext, svars

\* What the hooks make of the review: its decisions, and the questions asked of the submitter, are
\* the submission's status, and what failed validation is never reviewed
\* (Submission.on_workflow_*, services.create_submission).
THEOREM StatusesFollow == SubmissionSpec => []StatusFollowsReview
<1>1. SubmissionInit => \A i \in Items : Told(i)
  BY DEF SubmissionInit, Init, Told
<1>2. SubmissionInv /\ SubmissionInv' /\ (\A i \in Items : Told(i)) /\ [SubmissionNext]_svars
        => (\A i \in Items : Told(i))'
  BY ToldStep
<1>3. SubmissionInv /\ (\A i \in Items : Told(i)) => StatusFollowsReview
  <2> SUFFICES ASSUME SubmissionInv, NEW i \in Items, Told(i)
               PROVE  /\ state[i] \in {"approved", "rejected"} => sub[i].status = state[i]
                      /\ state[i] \in {"in_progress", "info_requested", "withdrawn"} =>
                           sub[i].status = IF Asked(i) THEN "info_requested" ELSE "under_review"
                      /\ state[i] = "absent" => sub[i].status \in {"failed", "absent"}
                      /\ sub[i].status = "failed" =>
                           \A k \in DOMAIN sub[i].batch : HasErrors(sub[i].batch, k)
    BY DEF StatusFollowsReview
  <2>1. sub[i].status = "failed" => Submitted(i)
    BY SubOf DEF SubmissionInv
  <2> QED BY <2>1 DEF SubmissionInv, Agree, Told
<1> QED BY <1>1, <1>2, <1>3, SubmissionInvariant, PTL DEF SubmissionSpec

\* The later of two rows with one key breaks a unique_in_batch rule.
LEMMA LaterIsBroken ==
  ASSUME NEW b, NEW j \in DOMAIN b, NEW k \in DOMAIN b, j \in Nat, k \in Nat, j < k,
         NEW m \in DOMAIN Rules, Rules[m].type = "unique_in_batch", Rules[m].hard,
         Key(b[j], Rules[m]) = Key(b[k], Rules[m])
  PROVE  HasErrors(b, k)
<1>1. Repeats(b, k, m)
  BY DEF Repeats, Earlier
<1>2. Broken(b, k, m)
  BY <1>1 DEF Broken
<1> QED BY <1>2 DEF HasErrors

\* No hard duplicate of a batch is published (services._apply_rule, promotion.promote).
THEOREM NoDuplicates == SubmissionSpec => []NoDuplicatePublished
<1>1. SubmissionInv => NoDuplicatePublished
  <2> SUFFICES ASSUME SubmissionInv, NEW i \in Items, NEW j \in RowNos, NEW k \in RowNos,
                      NEW m \in DOMAIN Rules, j # k, Published(i, j), Published(i, k),
                      Rules[m].type = "unique_in_batch", Rules[m].hard,
                      Key(sub[i].batch[j], Rules[m]) = Key(sub[i].batch[k], Rules[m])
               PROVE  FALSE
    BY DEF NoDuplicatePublished
  <2>1. /\ Submitted(i) /\ j \in DOMAIN sub[i].batch /\ k \in DOMAIN sub[i].batch
        /\ sub[i].rows[j] = "promoted" /\ sub[i].rows[k] = "promoted"
    BY DEF SubmissionInv, PublishedOf, Published
  <2>2. ~HasErrors(sub[i].batch, j) /\ ~HasErrors(sub[i].batch, k)
    BY <2>1 DEF SubmissionInv, Agree
  <2>3. j \in Nat /\ k \in Nat
    <3>1. sub[i].batch \in Uploads
      BY <2>1, SubOf, SubmissionFields DEF SubmissionInv
    <3> QED BY <2>1, <3>1, BatchRows
  <2>4. j < k \/ k < j
    BY <2>3
  <2> QED BY <2>1, <2>2, <2>3, <2>4, LaterIsBroken
<1> QED BY <1>1, SubmissionInvariant, PTL

\* Unless the target is the GenericRecord, the history of a row counts its approved corrections, also
\* those that overlapped (promotion.promote: the branch of a correction).
THEOREM CorrectionsOnRecord == ~Generic => (SubmissionSpec => []EveryCorrectionOnRecord)
<1> SUFFICES ASSUME ~Generic PROVE SubmissionSpec => []EveryCorrectionOnRecord
  OBVIOUS
<1>1. SubmissionInv => EveryCorrectionOnRecord
  BY DEF SubmissionInv, Counted
<1> QED BY <1>1, SubmissionInvariant, PTL

\* Submissions take the engine through steps of its own: every theorem about WorkflowEngine!Spec is
\* one about their reviews, too.
THEOREM SubmissionsRunTheEngine == SubmissionSpec => EngineSteps
<1>1. SubmissionInit => Init
  BY DEF SubmissionInit
<1> QED BY <1>1, SubmissionInvariant, SubmissionStep, PTL DEF SubmissionSpec, EngineSteps

-----------------------------------------------------------------------------
(***************************************************************************)
(* The observation tables under the promotions                             *)
(***************************************************************************)

\* What the observation tables see of a request.
EditAt(r) ==
  IF Corrects(r) THEN EditOf(request[r]) ELSE Records!NoEdit

LEMMA EditIs ==
  ASSUME NEW r \in Requests
  PROVE  /\ EditsInFlight[r] = EditAt(r) /\ EditsInFlight'[r] = EditAt(r)'
         /\ ~Promotes(request[r]) => EditAt(r) = Records!NoEdit
         /\ ~Promotes(request'[r]) => EditAt(r)' = Records!NoEdit
         /\ request'[r] = NoRequest => ~Promotes(request'[r])
BY DEF EditsInFlight, EditAt, Corrects, Promotes, NoRequest, Records!NoEdit

\* A request that goes on, and whose submission keeps its target, edits what it edited.
EditKept(r) ==
  /\ request'[r] = request[r]
  /\ Promotes(request[r]) => sub'[request[r].item].target = sub[request[r].item].target

LEMMA EditsStay ==
  ASSUME \A r \in Requests : EditKept(r) \/ EditAt(r)' = EditAt(r)
  PROVE  EditsInFlight' = EditsInFlight
<1>1. ASSUME NEW r \in Requests PROVE EditAt(r)' = EditAt(r)
  BY DEF EditKept, EditAt, EditOf, Corrects, Inserts, Promotes
<1>2. ASSUME NEW r \in Requests PROVE EditsInFlight'[r] = EditsInFlight[r]
  BY <1>1, EditIs
<1>3. /\ EditsInFlight = [r \in Requests |-> EditsInFlight[r]]
      /\ EditsInFlight' = [r \in Requests |-> EditsInFlight'[r]]
  BY DEF EditsInFlight
<1> QED BY <1>2, <1>3

LEMMA OneEditMoves ==
  ASSUME NEW r \in Requests, \A s \in Requests \ {r} : EditKept(s)
  PROVE  \A e : EditAt(r)' = e => EditsInFlight' = [EditsInFlight EXCEPT ![r] = e]
<1>1. ASSUME NEW s \in Requests \ {r} PROVE EditsInFlight'[s] = EditsInFlight[s]
  <2>1. EditAt(s)' = EditAt(s)
    BY DEF EditKept, EditAt, EditOf, Corrects, Inserts, Promotes
  <2> QED BY <2>1, EditIs
<1>2. /\ EditsInFlight = [s \in Requests |-> EditsInFlight[s]]
      /\ EditsInFlight' = [s \in Requests |-> EditsInFlight'[s]]
  BY DEF EditsInFlight
<1>3. EditsInFlight'[r] = EditAt(r)'
  BY EditIs
<1> QED BY <1>1, <1>2, <1>3

TablesRest == UNCHANGED <<row, corrections, EditsInFlight, clock>>

LEMMA TablesRestIs == TablesRest => Records!ovars' = Records!ovars
BY DEF TablesRest, Records!ovars

\* A step that leaves the tables and every item held by a promotion alone.
LEMMA ReviewRests ==
  ASSUME SubmissionInv, UNCHANGED <<request, row, corrections, clock>>,
         NEW i \in Items, ~Locked(i) \/ sub' = sub, \A j \in Items \ {i} : sub'[j] = sub[j]
  PROVE  TablesRest
<1>1. ASSUME NEW r \in Requests, Promotes(request[r]) PROVE sub'[request[r].item] = sub[request[r].item]
  BY <1>1, RequestType, InFlightFields, LockedByHolder DEF SubmissionInv
<1> QED BY <1>1, EditsStay DEF TablesRest, EditKept

LEMMA DropTables ==
  ASSUME SubmissionInv, NEW r \in Requests, Drop(r)
  PROVE  TablesRest \/ Records!GiveUp(r)
<1>1. request' = [request EXCEPT ![r] = NoRequest] /\ UNCHANGED <<sub, row, corrections, clock>>
  BY DEF Drop
<1>2. /\ request'[r] = NoRequest /\ \A s \in Requests \ {r} : EditKept(s)
      /\ EditAt(r)' = Records!NoEdit
  BY <1>1, EditIs DEF SubmissionInv, SubmissionTypes, EditKept
<1>3. CASE EditAt(r) = Records!NoEdit
  BY <1>1, <1>2, <1>3, EditsStay DEF TablesRest
<1>4. CASE EditAt(r) # Records!NoEdit
  BY <1>1, <1>2, <1>4, OneEditMoves, EditIs DEF Records!GiveUp, Records!Finish
<1> QED BY <1>3, <1>4

LEMMA BeginTables ==
  ASSUME SubmissionInv, NEW r \in Requests, NEW i \in Items, NEW u \in Users, PromoteBegin(r, i, u)
  PROVE  TablesRest \/ \E o \in Observations : Records!Stamp(r, o)
<1>1. PICK t \in Observations \cup {NoObservation} :
        t = sub[i].target /\ (t # NoObservation => Records!Exists(t))
  BY InReview, SubmissionFields DEF PromoteBegin, MayApprove, SubmissionInv, Agree
<1>2. /\ request' = [request EXCEPT ![r] =
           [kind |-> "promote", item |-> i, user |-> u, at |-> clock', copy |-> NoObservation]]
      /\ request[r] = NoRequest /\ UNCHANGED <<sub, row, corrections>>
      /\ IF Inserts(i) THEN UNCHANGED clock ELSE clock < MaxStamps /\ clock' = clock + 1
  BY DEF PromoteBegin
<1>3. \A s \in Requests \ {r} : EditKept(s)
  BY <1>2 DEF SubmissionInv, SubmissionTypes, EditKept
<1>4. EditAt(r) = Records!NoEdit
  BY <1>2, EditIs DEF Promotes, NoRequest
<1>5. EditAt(r)' = IF Inserts(i) THEN Records!NoEdit
                   ELSE [kind |-> "stamped", row |-> t, at |-> clock']
  BY <1>1, <1>2 DEF SubmissionInv, SubmissionTypes, EditAt, EditOf, Corrects, Inserts
<1>6. CASE Inserts(i)
  BY <1>2, <1>3, <1>4, <1>5, <1>6, EditsStay DEF TablesRest
<1>7. CASE ~Inserts(i)
  <2>1. EditsInFlight' = [EditsInFlight EXCEPT ![r] = [kind |-> "stamped", row |-> t, at |-> clock']]
    BY <1>3, <1>5, <1>7, OneEditMoves
  <2>2. EditsInFlight[r] = Records!NoEdit
    BY <1>4, EditIs
  <2>3. t \in Observations /\ Records!Exists(t)
    BY <1>1, <1>7 DEF Inserts
  <2>4. Records!Stamp(r, t)
    BY <1>2, <1>7, <2>1, <2>2, <2>3 DEF Records!Stamp
  <2> QED BY <2>3, <2>4
<1> QED BY <1>6, <1>7

LEMMA ReadTables ==
  ASSUME SubmissionInv, NEW r \in Requests, PromoteRead(r)
  PROVE  Records!Read(r)
<1>1. PICK q \in Promoting : q = request[r] /\ q.item \in Items /\ Promotes(q)
  BY RequestType, InFlightFields DEF SubmissionInv, PromoteRead, Corrects, Promotes
<1>2. PICK t : t = sub[q.item].target
  OBVIOUS
<1>3. Due(q)
  BY <1>1 DEF SubmissionInv, InFlightOK
<1>4. t \in Observations /\ Records!Exists(t)
  BY <1>1, <1>2, <1>3, SubOf, SubmissionFields
     DEF SubmissionInv, Agree, PromoteRead, Corrects, Inserts, Due, Promotes, Submitted
<1>5. request' = [request EXCEPT ![r] = [q EXCEPT !.copy = row[t]]]
      /\ UNCHANGED <<sub, row, corrections, clock>>
      /\ Corrects(r) /\ q.copy = NoObservation
  BY <1>1, <1>2 DEF PromoteRead
<1>6. \A s \in Requests \ {r} : EditKept(s)
  BY <1>5 DEF SubmissionInv, SubmissionTypes, EditKept
<1>7. EditAt(r) = [kind |-> "stamped", row |-> t, at |-> q.at]
  BY <1>1, <1>2, <1>5 DEF EditAt, EditOf
<1> DEFINE p == [q EXCEPT !.copy = row[t]]
<1>8. /\ p.kind = "promote" /\ p.item = q.item /\ p.at = q.at
      /\ p.copy = row[t] /\ p.copy # NoObservation /\ request'[r] = p
  BY <1>1, <1>4, <1>5 DEF Promoting, Promotes, Records!Exists, SubmissionInv, SubmissionTypes
<1> HIDE DEF p
<1>9. EditAt(r)' = [kind |-> "correct", row |-> t, copy |-> row[t], at |-> q.at]
  BY <1>1, <1>2, <1>5, <1>8 DEF EditAt, EditOf, Corrects, Inserts
<1>10. EditsInFlight' = [EditsInFlight EXCEPT ![r] =
          [kind |-> "correct", row |-> t, copy |-> row[t], at |-> q.at]]
  BY <1>6, <1>9, OneEditMoves
<1>11. EditsInFlight[r] = [kind |-> "stamped", row |-> t, at |-> q.at]
  BY <1>7, EditIs
<1> QED BY <1>5, <1>10, <1>11 DEF Records!Read

LEMMA CreateTables ==
  ASSUME SubmissionInv, NEW r \in Requests, NEW i \in Items,
         NEW odd \in SUBSET RowNos, CreateCommit(r, i, odd)
  PROVE  TablesRest
<1>1. /\ request[r].kind = "create" /\ request' = [request EXCEPT ![r] = NoRequest]
      /\ ~Submitted(i) /\ \A j \in Items \ {i} : sub'[j] = sub[j]
  BY DEF CreateCommit, SubmissionInv, SubmissionTypes
<1>2. UNCHANGED <<row, corrections, clock>>
  BY DEF CreateCommit
<1>3. EditAt(r)' = EditAt(r)
  BY <1>1, EditIs DEF SubmissionInv, SubmissionTypes, Promotes
<1>4. ASSUME NEW s \in Requests \ {r} PROVE EditKept(s)
  <2>1. request'[s] = request[s]
    BY <1>1 DEF SubmissionInv, SubmissionTypes
  <2>2. ASSUME Promotes(request[s]) PROVE request[s].item \in Items \ {i}
    BY <1>1, <2>2, RequestType, InFlightFields DEF SubmissionInv, InFlightOK, Due, Promotes, Submitted
  <2> QED BY <1>1, <2>1, <2>2 DEF EditKept
<1> QED BY <1>2, <1>3, <1>4, EditsStay DEF TablesRest

LEMMA CommitTables ==
  ASSUME SubmissionInv, SubmissionInv', NEW r \in Requests, NEW c \in DataClasses, PromoteCommit(r, c)
  PROVE  TablesRest \/ Records!RecordsNext
<1>1. PICK q \in Promoting : q = request[r] /\ q.item \in Items /\ q.kind = "promote"
  BY RequestType, InFlightFields DEF SubmissionInv, PromoteCommit, Promotes
<1>2. PICK i \in Items : i = q.item
  BY <1>1
<1>3. PICK s \in Submission : s = sub[i] /\ Submitted(i)
  BY <1>1, <1>2, SubOf DEF SubmissionInv, InFlightOK, Due, Submitted
<1>4. state[i] = "in_progress"
  BY <1>1, <1>2 DEF SubmissionInv, InFlightOK, Due, MayApprove
<1>5. PICK t \in Observations \cup {NoObservation} : t = s.target
  BY SubmissionFields
<1>6. /\ IF Inserts(i)
         THEN Insert(i, c) /\ UNCHANGED corrections
         ELSE (Promotable(i) # {} => q.copy # NoObservation) /\ Replace(q, c) /\ History(q)
      /\ MarkPromoted(i) /\ request' = [request EXCEPT ![r] = NoRequest] /\ UNCHANGED clock
  BY <1>1, <1>2, <1>3, <1>5 DEF PromoteCommit
<1>7. ASSUME NEW x \in Requests \ {r} PROVE EditKept(x)
  <2>1. request'[x] = request[x]
    BY <1>6 DEF SubmissionInv, SubmissionTypes
  <2>2. ASSUME Promotes(request[x]) PROVE request[x].item \in Items \ {i}
    BY <1>1, <1>2, <2>2, RequestType, InFlightFields DEF SubmissionInv, InFlightOK, OneHolds, Promotes
  <2>3. \A j \in Items \ {i} : sub'[j] = sub[j]
    BY <1>6 DEF MarkPromoted, SubmissionInv, SubmissionTypes
  <2> QED BY <2>1, <2>2, <2>3 DEF EditKept
<1>8. EditAt(r)' = Records!NoEdit
  BY <1>6, EditIs DEF SubmissionInv, SubmissionTypes
<1>9. EditAt(r) = IF Inserts(i) THEN Records!NoEdit ELSE EditOf(q)
  BY <1>1, <1>2 DEF EditAt, Corrects
<1>10. EditsInFlight' = [EditsInFlight EXCEPT ![r] = Records!NoEdit]
  BY <1>7, <1>8, OneEditMoves
<1>11. PICK P : P = Promotable(i) /\ P = {k \in DOMAIN s.batch : ~HasErrors(s.batch, k)}
  BY <1>3, <1>4, BeforePromotion
<1>12. CASE Inserts(i)
  <2>1. EditsInFlight' = EditsInFlight
    BY <1>7, <1>8, <1>9, <1>12, EditsStay
  <2> DEFINE new == [o \in {i} \X Valid(s.batch) |-> s.batch[o[2]]]
  <2>2. P = Valid(s.batch)
    BY <1>11 DEF Valid
  <2>3. new \in Publications
    <3>1. s.batch \in Uploads
      BY SubmissionFields
    <3> QED BY <3>1 DEF Publications
  <2>4. \A o \in DOMAIN new : ~Records!Exists(o)
    <3>1. P \subseteq RowNos /\ \A k \in RowNos : ~Records!Exists(<<i, k>>)
      BY <1>3, <1>4, <1>11, BeforePromotion, SubmissionFields, BatchRows
    <3> QED BY <2>2, <3>1
  <2>5. row' = [o \in Observations |->
           IF o \in DOMAIN new THEN Records!PublishedAs(new[o], c) ELSE row[o]]
    <3>1. row' = [o \in Observations |->
            IF \E k \in P : o = <<i, k>> THEN Records!PublishedAs(s.batch[o[2]], c) ELSE row[o]]
      BY <1>3, <1>6, <1>11, <1>12 DEF Insert
    <3>2. ASSUME NEW o \in Observations
          PROVE  /\ o \in DOMAIN new <=> \E k \in P : o = <<i, k>>
                 /\ o \in DOMAIN new => new[o] = s.batch[o[2]]
      BY <2>2
    <3> HIDE DEF new
    <3>3. ASSUME NEW o \in Observations
          PROVE  (IF \E k \in P : o = <<i, k>> THEN Records!PublishedAs(s.batch[o[2]], c) ELSE row[o])
                 = IF o \in DOMAIN new THEN Records!PublishedAs(new[o], c) ELSE row[o]
      BY <3>2
    <3> QED BY <3>1, <3>3
  <2> HIDE DEF new
  <2>6. Records!Publish(new, c)
    BY <1>6, <1>12, <2>1, <2>4, <2>5 DEF Records!Publish
  <2> QED BY <2>3, <2>6 DEF Records!RecordsNext
<1>13. CASE ~Inserts(i)
  <2>1. EditsInFlight[r] = EditOf(q) /\ t \in Observations
    BY <1>3, <1>5, <1>9, <1>13, EditIs DEF Inserts
  <2>2. Records!Finish(r)
    BY <1>10 DEF Records!Finish, Records!NoEdit
  <2>3. CASE P = {}
    <3>1. Records!GiveUp(r)
      BY <1>2, <1>6, <1>11, <1>13, <2>1, <2>2, <2>3
         DEF Replace, History, EditOf, Records!GiveUp, Records!NoEdit
    <3> QED BY <3>1 DEF Records!RecordsNext, Records!Editing
  <2>4. CASE P # {}
    <3>1. s.batch[1] \in Payloads
      <4>1. s.batch \in Uploads /\ Len(s.batch) = 1
        BY <1>3, <1>5, <2>1, SubmissionAssumption, SubmissionFields DEF SubmissionInv, Agree
      <4> QED BY <4>1, BatchRows
    <3>2. PICK v \in Payloads : v = s.batch[1]
      BY <3>1
    <3>3. Len(corrections[t]) < Cardinality(Items)
      <4> DEFINE S == {j \in Items : Submitted(j) /\ sub[j].target = t
                         /\ sub[j].status = "approved" /\ sub[j].rows[1] = "promoted"}
      <4>1. i \notin S
        BY <1>4 DEF SubmissionInv, Agree
      <4>2. Len(corrections[t]) = Cardinality(S)
        BY <1>13, <2>1 DEF SubmissionInv, Counted, EveryCorrectionOnRecord, Inserts
      <4>3. S \in SUBSET Items
        OBVIOUS
      <4> HIDE DEF S
      <4>4. IsFiniteSet(Items) /\ Cardinality(Items) \in Nat /\ IsFiniteSet(S) /\ Cardinality(S) \in Nat
        BY <4>3, SubmissionAssumption, FS_Subset, FS_CardinalityType
      <4>5. Cardinality(S) <= Cardinality(Items) /\ Cardinality(S) # Cardinality(Items)
        BY <4>1, <4>3, <4>4, FS_Subset
      <4> QED BY <4>2, <4>4, <4>5
    <3>4. Records!Edits(t) < Cardinality(Items)
      BY <2>1, <3>3 DEF Records!Edits, SubmissionInv, SubmissionTypes
    <3>5. row' = [row EXCEPT ![t] = Records!CorrectedFrom(q.copy, v, c)]
      BY <1>2, <1>3, <1>5, <1>6, <1>11, <1>13, <2>4, <3>2 DEF Replace
    <3>6. Records!RecordCorrection(EditOf(q), v)
      BY <1>2, <1>3, <1>6, <1>11, <1>13, <2>4, <3>2 DEF History
    <3>7. EditOf(q) = [kind |-> "correct", row |-> t, copy |-> q.copy, at |-> q.at]
      BY <1>2, <1>3, <1>5, <1>6, <1>11, <1>13, <2>4 DEF EditOf
    <3>8. Records!Correct(r, v, c)
      BY <1>6, <2>1, <2>2, <3>4, <3>5, <3>6, <3>7 DEF Records!Correct
    <3> QED BY <3>2, <3>8 DEF Records!RecordsNext, Records!Editing
  <2> QED BY <2>3, <2>4
<1> QED BY <1>12, <1>13

LEMMA TablesMove ==
  ASSUME SubmissionInv, SubmissionInv', [SubmissionNext]_svars, Records!ovars' # Records!ovars
  PROVE  Records!RecordsNext
<1>1. ~TablesRest
  BY TablesRestIs
<1>2. CASE UNCHANGED svars
  <2>1. \A r \in Requests : EditKept(r)
    BY <1>2 DEF svars, EditKept
  <2> QED BY <1>1, <1>2, <2>1, EditsStay DEF TablesRest, svars
<1>3. ASSUME NEW i \in Items, NEW u \in Users, Reviewing(i, u) PROVE Records!RecordsNext
  <2>1. ASSUME NEW r \in Requests, PromoteBegin(r, i, u) PROVE Records!RecordsNext
    BY <1>1, <2>1, BeginTables DEF Records!RecordsNext, Records!Editing
  <2>2. CASE AdvanceStage(i, u) \/ RejectSubmission(i, u) \/ AskSubmitter(i, u) \/ NoHook(i, u)
    <3>1. UNCHANGED <<request, row, corrections, clock>> /\ ~Locked(i) /\ \A j \in Items \ {i} : sub'[j] = sub[j]
      BY <2>2
         DEF AdvanceStage, RejectSubmission, AskSubmitter, NoHook, SetStatus, SubmissionInv, SubmissionTypes
    <3> QED BY <1>1, <3>1, ReviewRests
  <2> QED BY <1>3, <2>1, <2>2 DEF Reviewing
<1>4. ASSUME NEW r \in Requests, Working(r) PROVE Records!RecordsNext
  <2>1. ASSUME NEW q \in NewSubmissions, CreateBegin(r, q) PROVE TablesRest
    <3>1. request[r] = NoRequest /\ request' = [request EXCEPT ![r] = q] /\ UNCHANGED <<sub, row, corrections, clock>>
      BY <2>1 DEF CreateBegin
    <3>2. q.kind = "create"
      BY DEF NewSubmissions
    <3>3. EditAt(r)' = EditAt(r)
      BY <3>1, <3>2, EditIs DEF SubmissionInv, SubmissionTypes, Promotes, NoRequest
    <3>4. \A s \in Requests \ {r} : EditKept(s)
      BY <3>1 DEF SubmissionInv, SubmissionTypes, EditKept
    <3> QED BY <3>1, <3>3, <3>4, EditsStay DEF TablesRest
  <2>2. ASSUME Drop(r) PROVE Records!RecordsNext
    BY <1>1, <2>2, DropTables DEF Records!RecordsNext, Records!Editing
  <2>3. ASSUME PromoteRead(r) PROVE Records!RecordsNext
    BY <2>3, ReadTables DEF Records!RecordsNext, Records!Editing
  <2> QED BY <1>1, <1>4, <2>1, <2>2, <2>3, CreateTables, CommitTables DEF Working
<1> QED BY <1>2, <1>3, <1>4 DEF SubmissionNext

\* The observation tables see only what ObservationRecords allows: a batch is published as a whole,
\* a correction begins by reading its row and ends with a history row (promotion.promote).
THEOREM PromotionsRunTheRecords == SubmissionSpec => RecordsSteps
<1>1. SubmissionInv /\ SubmissionInv' /\ [SubmissionNext]_svars =>
        [Records!ovars' # Records!ovars => Records!RecordsNext]_(Records!ovars)
  BY TablesMove
<1> QED BY <1>1, SubmissionInvariant, PTL DEF SubmissionSpec, RecordsSteps

-----------------------------------------------------------------------------
(***************************************************************************)
(* What is published is what was sent                                      *)
(***************************************************************************)
SourceOf(i, k) ==
  Published(i, k) =>
    row[<<i, k>>].value = sub[i].batch[k] \/ corrections[<<i, k>>] # << >>

Sourced == \A i \in Items, k \in RowNos : SourceOf(i, k)

\* The batch of a submission is never written again.
LEMMA BatchStays ==
  ASSUME SubmissionInv, [SubmissionNext]_svars, NEW i \in Items, Submitted(i)
  PROVE  sub'[i].batch = sub[i].batch
<1>1. PICK s \in Submission : s = sub[i]
  BY SubOf DEF SubmissionInv
<1>2. ASSUME NEW j \in Items, NEW x, SetStatus(j, x) PROVE sub'[i].batch = sub[i].batch
  BY <1>2 DEF SetStatus, SubmissionInv, SubmissionTypes
<1>3. ASSUME NEW j \in Items, MarkPromoted(j) PROVE sub'[i].batch = sub[i].batch
  <2>1. PICK P : P = Promotable(j)
    OBVIOUS
  <2>2. PICK t : t = [k \in DOMAIN sub[j].rows |-> IF k \in P THEN "promoted" ELSE sub[j].rows[k]]
    OBVIOUS
  <2>3. sub' = [sub EXCEPT ![j] = [sub[j] EXCEPT !.status = "approved", !.rows = t]]
    BY <1>3, <2>1, <2>2 DEF MarkPromoted
  <2>4. j = i => sub'[i] = [s EXCEPT !.status = "approved", !.rows = t]
    BY <1>1, <2>3 DEF SubmissionInv, SubmissionTypes
  <2>5. [s EXCEPT !.status = "approved", !.rows = t].batch = s.batch
    BY DEF Submission
  <2>6. j # i => sub'[i] = sub[i]
    BY <2>3 DEF SubmissionInv, SubmissionTypes
  <2> QED BY <1>1, <2>4, <2>5, <2>6
<1>4. ASSUME NEW r \in Requests, NEW j \in Items, NEW odd, CreateCommit(r, j, odd) PROVE sub'[i] = sub[i]
  BY <1>4 DEF CreateCommit, SubmissionInv, SubmissionTypes
<1>5. ASSUME NEW j \in Items, NEW u, Reviewing(j, u) PROVE sub'[i].batch = sub[i].batch
  BY <1>2, <1>5 DEF Reviewing, AdvanceStage, PromoteBegin, RejectSubmission, AskSubmitter, NoHook
<1>6. ASSUME NEW r \in Requests, Working(r) PROVE sub'[i].batch = sub[i].batch
  <2>1. ASSUME NEW c \in DataClasses, PromoteCommit(r, c) PROVE sub'[i].batch = sub[i].batch
    <3>1. PICK j \in Items : j = request[r].item
      BY <2>1, RequestType, InFlightFields DEF SubmissionInv, PromoteCommit, Promotes
    <3> QED BY <1>3, <2>1, <3>1 DEF PromoteCommit
  <2> QED BY <1>4, <1>6, <2>1 DEF Working, CreateBegin, PromoteRead, Drop
<1> QED BY <1>5, <1>6 DEF SubmissionNext, svars

LEMMA SourcedStep ==
  ASSUME SubmissionInv, SubmissionInv', [SubmissionNext]_svars, NEW i \in Items,
         NEW k \in RowNos, SourceOf(i, k)
  PROVE  SourceOf(i, k)'
<1>1. CASE UNCHANGED <<row, corrections>>
  <2>1. Published(i, k) => sub'[i].batch = sub[i].batch
    BY BatchStays DEF SubmissionInv, PublishedOf, Published
  <2> QED BY <1>1, <2>1 DEF SourceOf, Published, Records!Exists
<1>2. ASSUME NEW r \in Requests, NEW c \in DataClasses, PromoteCommit(r, c) PROVE SourceOf(i, k)'
  <2>1. PICK q \in Promoting : q = request[r] /\ q.item \in Items /\ q.kind = "promote"
    BY <1>2, RequestType, InFlightFields DEF SubmissionInv, PromoteCommit, Promotes
  <2>2. PICK j \in Items : j = q.item
    BY <2>1
  <2>3. state[j] = "in_progress"
    BY <2>1, <2>2 DEF SubmissionInv, InFlightOK, Due, MayApprove
  <2>4. PICK s \in Submission : s = sub[j] /\ Submitted(j)
    BY <2>3, InReview
  <2>5. PICK t \in Observations \cup {NoObservation} : t = s.target
    BY SubmissionFields
  <2>6. IF Inserts(j)
        THEN Insert(j, c) /\ UNCHANGED corrections
        ELSE (Promotable(j) # {} => q.copy # NoObservation) /\ Replace(q, c) /\ History(q)
    BY <1>2, <2>1, <2>2, <2>4, <2>5 DEF PromoteCommit
  <2>7. <<i, k>> \in Observations
    BY DEF Observations
  <2>8. Published(i, k) => sub'[i].batch = sub[i].batch
    BY BatchStays DEF SubmissionInv, PublishedOf, Published
  <2>9. CASE Inserts(j)
    <3>1. row' = [o \in Observations |->
            IF \E m \in Promotable(j) : o = <<j, m>>
            THEN Records!PublishedAs(sub[j].batch[o[2]], c) ELSE row[o]]
      BY <2>6, <2>9 DEF Insert
    <3>2. CASE \E m \in Promotable(j) : <<i, k>> = <<j, m>>
      <4>1. PICK v : v = sub[i].batch[k]
        OBVIOUS
      <4>2. Records!PublishedAs(v, c).value = v
        BY DEF Records!PublishedAs
      <4>3. row'[<<i, k>>] = Records!PublishedAs(v, c)
        BY <2>7, <3>1, <3>2, <4>1
      <4>4. sub'[i].batch = sub[i].batch
        BY <2>4, <3>2, BatchStays
      <4> QED BY <4>1, <4>2, <4>3, <4>4 DEF SourceOf
    <3>3. CASE ~ \E m \in Promotable(j) : <<i, k>> = <<j, m>>
      <4>1. row'[<<i, k>>] = row[<<i, k>>] /\ corrections' = corrections
        BY <2>6, <2>7, <2>9, <3>1, <3>3
      <4> QED BY <2>8, <4>1 DEF SourceOf, Published, Records!Exists
    <3> QED BY <3>2, <3>3
  <2>10. CASE ~Inserts(j)
    <3>1. t \in Observations
      BY <2>4, <2>5, <2>10 DEF Inserts
    <3>2. CASE <<i, k>> = t /\ Promotable(j) # {}
      <4>1. Len(corrections'[t]) = Len(corrections[t]) + 1
        BY <2>1, <2>2, <2>3, <2>4, <2>5, <2>6, <2>10, <3>1, <3>2, ReplaceDoes
      <4>2. Len(corrections[t]) \in Nat
        BY <3>1 DEF SubmissionInv, SubmissionTypes
      <4>3. corrections'[t] # << >>
        BY <4>1, <4>2
      <4> QED BY <3>2, <4>3 DEF SourceOf
    <3>3. CASE ~(<<i, k>> = t /\ Promotable(j) # {})
      <4>1. Promotable(j) # {} => EditOf(q).row = t
        BY <2>2, <2>4, <2>5, <2>6, <2>10 DEF EditOf
      <4>2. row'[<<i, k>>] = row[<<i, k>>] /\ corrections'[<<i, k>>] = corrections[<<i, k>>]
        BY <2>2, <2>4, <2>5, <2>6, <2>7, <2>10, <3>3, <4>1
           DEF Replace, History, Records!RecordCorrection, SubmissionInv, SubmissionTypes
      <4> QED BY <2>8, <4>2 DEF SourceOf, Published, Records!Exists
    <3> QED BY <3>2, <3>3
  <2> QED BY <2>9, <2>10
<1>3. \/ UNCHANGED <<row, corrections>>
      \/ \E r \in Requests, c \in DataClasses : PromoteCommit(r, c)
  BY DEF SubmissionNext, svars, Reviewing, Working, AdvanceStage, PromoteBegin, RejectSubmission,
         AskSubmitter, NoHook, CreateBegin, CreateCommit, PromoteRead, Drop
<1> QED BY <1>1, <1>2, <1>3

\* Nothing enters the consolidated database but the valid rows of a submission that was approved at
\* its last stage, as they were sent or corrected since (promotion.promote).
THEOREM OnlyReviewed == SubmissionSpec => []OnlyReviewedIsPublished
<1>1. SubmissionInit => Sourced
  <2> SUFFICES ASSUME SubmissionInit, NEW i \in Items, NEW k \in RowNos PROVE ~Published(i, k)
    BY DEF Sourced, SourceOf
  <2>1. PublishedOf(i)
    BY SubmissionStart DEF SubmissionInv
  <2>2. ~Submitted(i)
    BY DEF SubmissionInit, Submitted
  <2> QED BY <2>1, <2>2 DEF PublishedOf, Published
<1>2. SubmissionInv /\ SubmissionInv' /\ Sourced /\ [SubmissionNext]_svars => Sourced'
  BY SourcedStep DEF Sourced
<1>3. SubmissionInv /\ Sourced => OnlyReviewedIsPublished
  <2> SUFFICES ASSUME SubmissionInv, Sourced, NEW i \in Items, NEW k \in RowNos, Published(i, k)
               PROVE  /\ state[i] = "approved" /\ k \in DOMAIN sub[i].batch /\ ~HasErrors(sub[i].batch, k)
                      /\ row[<<i, k>>].value = sub[i].batch[k] \/ corrections[<<i, k>>] # << >>
    BY DEF OnlyReviewedIsPublished
  <2>1. Submitted(i) /\ k \in DOMAIN sub[i].batch /\ sub[i].rows[k] = "promoted"
    BY DEF SubmissionInv, PublishedOf, Published
  <2> QED BY <2>1 DEF SubmissionInv, Agree, Sourced, SourceOf
<1> QED BY <1>1, <1>2, <1>3, SubmissionInvariant, PTL DEF SubmissionSpec

-----------------------------------------------------------------------------
(***************************************************************************)
(* What was counted is what is published                                   *)
(***************************************************************************)
CountOf(i) ==
  Submitted(i) =>
    IF sub[i].status # "approved" THEN sub[i].counts = Counts(sub[i].rows)
    ELSE /\ sub[i].counts["rejected"] = Count(sub[i].rows, "rejected")
         /\ sub[i].counts["accepted"] + sub[i].counts["flagged"] = Count(sub[i].rows, "promoted")

\* The statuses of the rows of a submission, once its valid rows are promoted.
PromotedOf(st) ==
  [k \in DOMAIN st |-> IF st[k] \in {"accepted", "flagged"} THEN "promoted" ELSE st[k]]

\* Promoting moves what was accepted or flagged into one status, and nothing else.
LEMMA PromotedCounts ==
  ASSUME NEW st, NEW n \in Nat, DOMAIN st = 1 .. n, \A k \in DOMAIN st : st[k] # "promoted"
  PROVE  /\ Count(PromotedOf(st), "rejected") = Count(st, "rejected")
         /\ Count(PromotedOf(st), "promoted") = Count(st, "accepted") + Count(st, "flagged")
<1> DEFINE With(s) == {k \in DOMAIN st : st[k] = s}
<1>1. ASSUME NEW s PROVE IsFiniteSet(With(s)) /\ Cardinality(With(s)) \in Nat
  <2>1. IsFiniteSet(1 .. n)
    BY FS_Interval
  <2>2. With(s) \subseteq 1 .. n
    OBVIOUS
  <2> QED BY <2>1, <2>2, FS_Subset, FS_CardinalityType
<1>2. With("accepted") \cap With("flagged") = {}
  OBVIOUS
<1>3. {k \in DOMAIN PromotedOf(st) : PromotedOf(st)[k] = "rejected"} = With("rejected")
  BY DEF PromotedOf
<1>4. {k \in DOMAIN PromotedOf(st) : PromotedOf(st)[k] = "promoted"} = With("accepted") \cup With("flagged")
  BY DEF PromotedOf
<1> HIDE DEF With
<1>5. Cardinality(With("accepted") \cup With("flagged"))
        = Cardinality(With("accepted")) + Cardinality(With("flagged"))
  <2>1. PICK A, F : A = With("accepted") /\ F = With("flagged")
    OBVIOUS
  <2>2. IsFiniteSet(A) /\ IsFiniteSet(F) /\ Cardinality(A) \in Nat /\ Cardinality(F) \in Nat
    BY <1>1, <2>1
  <2>3. Cardinality(A \cup F) = Cardinality(A) + Cardinality(F) - Cardinality(A \cap F)
    BY <2>2, FS_Union
  <2>4. Cardinality(A \cap F) = 0
    BY <1>2, <2>1, FS_EmptySet
  <2> QED BY <2>1, <2>2, <2>3, <2>4
<1> QED BY <1>3, <1>4, <1>5 DEF Count, With

\* A page writes the status of a submission in review, no count and no row.
LEMMA StatusKeepsCount ==
  ASSUME SubmissionInv, NEW j \in Items, state[j] \in {"in_progress", "info_requested"},
         NEW x \in {"rejected", "info_requested"}, SetStatus(j, x), NEW i \in Items, CountOf(i)
  PROVE  CountOf(i)'
<1>1. PICK s \in Submission : s = sub[j] /\ Submitted(j) /\ s.status # "approved"
  BY InReview DEF SubmissionInv, Agree
<1>2. PICK t : t = [s EXCEPT !.status = x]
  OBVIOUS
<1>3. t.status # "approved" /\ t.rows = s.rows /\ t.counts = s.counts
  BY <1>2 DEF Submission
<1>4. sub' = [sub EXCEPT ![j] = t]
  BY <1>1, <1>2 DEF SetStatus
<1>5. sub'[i] = IF i = j THEN t ELSE sub[i]
  BY <1>4 DEF SubmissionInv, SubmissionTypes
<1> QED BY <1>1, <1>3, <1>5 DEF CountOf, Submitted

\* The counts of a new submission are taken with the anomalies that were found.
LEMMA CreateCounts ==
  ASSUME SubmissionInv, NEW r \in Requests, NEW j \in Items, NEW odd, CreateCommit(r, j, odd),
         NEW i \in Items, CountOf(i)
  PROVE  CountOf(i)'
<1>1. PICK t : t = [status |-> StatusOf(request[r], Flagged(request[r].batch, odd)),
                    by |-> request[r].user, key |-> request[r].key, target |-> request[r].target,
                    batch |-> request[r].batch, rows |-> Flagged(request[r].batch, odd),
                    counts |-> Tally(request[r].batch, odd)]
  OBVIOUS
<1>2. sub' = [sub EXCEPT ![j] = t]
  BY <1>1 DEF CreateCommit
<1>3. t.status # "approved" /\ t.counts = Counts(t.rows)
  BY <1>1 DEF StatusOf, Tally
<1>4. sub'[i] = IF i = j THEN t ELSE sub[i]
  BY <1>2 DEF SubmissionInv, SubmissionTypes
<1> QED BY <1>3, <1>4 DEF CountOf, Submitted

\* The final approval promotes the rows that were counted accepted or flagged.
LEMMA PromotionCounts ==
  ASSUME SubmissionInv, NEW r \in Requests, NEW c \in DataClasses, PromoteCommit(r, c),
         NEW i \in Items, CountOf(i)
  PROVE  CountOf(i)'
<1>1. PICK j \in Items : j = request[r].item /\ state[j] = "in_progress"
  <2>1. request[r].kind = "promote" /\ request[r].item \in Items
    BY RequestType, InFlightFields DEF SubmissionInv, PromoteCommit, Promotes
  <2> QED BY <2>1 DEF SubmissionInv, InFlightOK, Due, MayApprove
<1>2. PICK s \in Submission : s = sub[j] /\ Submitted(j) /\ s.status # "approved"
  BY <1>1, InReview DEF SubmissionInv, Agree
<1>3. \A k \in DOMAIN s.rows : s.rows[k] # "promoted"
  BY <1>1, <1>2, SubmissionFields DEF SubmissionInv, Agree
<1>4. s.counts = Counts(s.rows) \/ i # j
  BY <1>2 DEF CountOf
<1>5. PICK n \in Nat : DOMAIN s.rows = 1 .. n
  BY SubmissionFields, BatchRows
<1>6. PICK t : t = [s EXCEPT !.status = "approved", !.rows = PromotedOf(s.rows)]
  OBVIOUS
<1>7. t.status = "approved" /\ t.rows = PromotedOf(s.rows) /\ t.counts = s.counts
  BY <1>6 DEF Submission
<1>8. sub' = [sub EXCEPT ![j] = t]
  <2>1. MarkPromoted(j)
    BY <1>1 DEF PromoteCommit
  <2>2. PICK P : P = Promotable(j)
    OBVIOUS
  <2>3. PICK w : w = [k \in DOMAIN s.rows |-> IF k \in P THEN "promoted" ELSE s.rows[k]]
    OBVIOUS
  <2>4. sub' = [sub EXCEPT ![j] = [s EXCEPT !.status = "approved", !.rows = w]]
    BY <1>2, <2>1, <2>2, <2>3 DEF MarkPromoted
  <2>5. w = PromotedOf(s.rows)
    BY <1>2, <2>2, <2>3 DEF Promotable, PromotedOf
  <2> QED BY <1>6, <2>4, <2>5
<1>9. sub'[i] = IF i = j THEN t ELSE sub[i]
  BY <1>8 DEF SubmissionInv, SubmissionTypes
<1>10. /\ Count(t.rows, "rejected") = Count(s.rows, "rejected")
       /\ Count(t.rows, "promoted") = Count(s.rows, "accepted") + Count(s.rows, "flagged")
  BY <1>3, <1>5, <1>7, PromotedCounts
<1>11. /\ Counts(s.rows)["rejected"] = Count(s.rows, "rejected")
       /\ Counts(s.rows)["accepted"] = Count(s.rows, "accepted")
       /\ Counts(s.rows)["flagged"] = Count(s.rows, "flagged")
  BY DEF Counts
<1>12. CASE i = j
  <2>1. sub'[i].status = "approved" /\ sub'[i].counts = Counts(s.rows) /\ sub'[i].rows = t.rows
    BY <1>4, <1>7, <1>9, <1>12
  <2> QED BY <1>10, <1>11, <2>1 DEF CountOf
<1>13. CASE i # j
  BY <1>9, <1>13 DEF CountOf, Submitted
<1> QED BY <1>12, <1>13

LEMMA CountOfStep ==
  ASSUME SubmissionInv, [SubmissionNext]_svars, NEW i \in Items, CountOf(i)
  PROVE  CountOf(i)'
<1>1. CASE UNCHANGED sub
  BY <1>1 DEF CountOf, Submitted
<1>2. ASSUME NEW j \in Items, NEW u \in Users, Reviewing(j, u) PROVE CountOf(i)'
  <2>1. CASE RejectSubmission(j, u)
    <3>1. IsOpen(j) /\ SetStatus(j, "rejected")
      BY <2>1 DEF RejectSubmission, Reject
    <3>2. state[j] \in {"in_progress", "info_requested"}
      BY <3>1, StateOf DEF SubmissionInv, IsOpen
    <3> QED BY <3>1, <3>2, StatusKeepsCount
  <2>2. CASE AskSubmitter(j, u)
    <3>1. IsOpen(j) /\ SetStatus(j, "info_requested")
      BY <2>2 DEF AskSubmitter, RequestInfo
    <3>2. state[j] \in {"in_progress", "info_requested"}
      BY <3>1, StateOf DEF SubmissionInv, IsOpen
    <3> QED BY <3>1, <3>2, StatusKeepsCount
  <2> QED BY <1>1, <1>2, <2>1, <2>2 DEF Reviewing, AdvanceStage, PromoteBegin, NoHook
<1>3. ASSUME NEW r \in Requests, Working(r) PROVE CountOf(i)'
  BY <1>1, <1>3, CreateCounts, PromotionCounts DEF Working, CreateBegin, PromoteRead, Drop
<1> QED BY <1>1, <1>2, <1>3 DEF SubmissionNext, svars

\* The counts a submission shows are those of its rows while it is reviewed, and an approval puts
\* as many rows into the database as were counted accepted or flagged
\* (services.create_submission, anomaly.flag_anomalies, promotion.promote).
THEOREM PublishedAsCounted == SubmissionSpec => []CountsAgree
<1>1. SubmissionInit => \A i \in Items : CountOf(i)
  BY DEF SubmissionInit, CountOf, Submitted
<1>2. SubmissionInv /\ (\A i \in Items : CountOf(i)) /\ [SubmissionNext]_svars => (\A i \in Items : CountOf(i))'
  BY CountOfStep
<1>3. ASSUME SubmissionInv, NEW i \in Items, Submitted(i), Inserts(i)
      PROVE  Count(sub[i].rows, "promoted") = Cardinality({k \in RowNos : Published(i, k)})
  <2>1. PICK s \in Submission : s = sub[i]
    BY <1>3, SubOf DEF SubmissionInv
  <2>2. DOMAIN s.rows = DOMAIN s.batch /\ DOMAIN s.batch \subseteq RowNos
    BY SubmissionFields, BatchRows
  <2>3. {k \in DOMAIN s.rows : s.rows[k] = "promoted"} = {k \in RowNos : Published(i, k)}
    BY <1>3, <2>1, <2>2 DEF SubmissionInv, PublishedOf, Published
  <2> QED BY <2>1, <2>3 DEF Count
<1>4. SubmissionInv /\ (\A i \in Items : CountOf(i)) => CountsAgree
  BY <1>3 DEF CountOf, CountsAgree
<1> QED BY <1>1, <1>2, <1>4, SubmissionInvariant, PTL DEF SubmissionSpec

-----------------------------------------------------------------------------
(***************************************************************************)
(* The review and the database together                                    *)
(***************************************************************************)
RowsAreSignedOff ==
  \A i \in Items, k \in RowNos : Published(i, k) => \A s \in Stages : SignedOffAt(i, s)

\* Through the pages of the submissions, too, a review is the case that ReviewCase describes:
\* decided once, its log only grows (WorkflowInstance, WorkflowAction).
THEOREM SubmissionsAreCases == SubmissionSpec => IsAReviewCase
<1>1. SubmissionSpec => Spec
  BY SubmissionsRunTheEngine DEF EngineSteps, Spec
<1> QED BY <1>1, EngineIsAReviewCase, PTL

\* Behind every row of the consolidated database that came with a submission stands an approval of
\* each stage of its workflow, by somebody entitled to it, that no return has taken back since
\* (engine.approve, promotion.promote).
THEOREM NothingPublishedUnreviewed == ReturnsGoBack => (SubmissionSpec => []RowsAreSignedOff)
<1> SUFFICES ASSUME ReturnsGoBack PROVE SubmissionSpec => []RowsAreSignedOff
  OBVIOUS
<1>1. Spec => []NoStageSkipped
  BY NoStageIsSkipped
<1>2. SubmissionSpec => Spec
  BY SubmissionsRunTheEngine DEF EngineSteps, Spec
<1>3. OnlyReviewedIsPublished /\ NoStageSkipped => RowsAreSignedOff
  BY DEF OnlyReviewedIsPublished, NoStageSkipped, RowsAreSignedOff
<1> QED BY <1>1, <1>2, <1>3, OnlyReviewed, PTL
=============================================================================
