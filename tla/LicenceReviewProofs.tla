------------------------- MODULE LicenceReviewProofs -------------------------
(***************************************************************************)
(* Proofs about LicenceReview, for every set of applications, reviewers,   *)
(* stages, forms and concurrent requests: the pages take the engine and    *)
(* the register through steps of theirs only, the three agree on every     *)
(* decision, and nothing is granted without an assessment and an approval  *)
(* of every stage.                                                         *)
(***************************************************************************)
EXTENDS LicenceReview, WorkflowEngineProofs

AppRow ==
  [status : ApplicationStatus \cup {"absent"}, wmu : AppUnits, granted : Volumes \cup {NoVolume}]

\* The requests in flight, by what they have in hand.
Submitting == [kind : {"submit"}, item : Items]
Assessing  == [kind : {"assess", "assessed", "conditioned"}, item : Items, app : AppRow, form : Forms,
               isNew : BOOLEAN]
Finalising == [kind : {"final"}, item : Items, user : Users, app : AppRow, typed : Typed]
Committing == [kind : {"deciding"}, item : Items, user : Users, app : AppRow, typed : Typed,
               assess : Assessment \cup {NoAssessment}]
InFlight   == {NoRequest} \cup Submitting \cup Assessing \cup Finalising \cup Committing

ReviewTypes ==
  /\ app \in [Items -> AppRow]
  /\ docs \in [Items -> SUBSET Scans]
  /\ assess \in [Items -> Assessment \cup {NoAssessment}]
  /\ request \in [Requests -> InFlight]
  /\ licence \in [Items -> Register!Licence \cup {NoLicence}]

\* A request to save an assessment of which there is one already finds it; one that has saved it, too.
SavesOn(q) ==
  /\ q.kind = "assess" /\ ~q.isNew => assess[q.item] # NoAssessment
  /\ q.kind \in {"assessed", "conditioned"} => assess[q.item] # NoAssessment

\* A final approval in flight is due, whatever happens meanwhile: the instance is locked.
Holds(q) == q.kind \in {"final", "deciding"}

Due(q) ==
  Holds(q) =>
    /\ MayApprove(q.item) /\ RequireStageActor(q.item, q.user) /\ IsFinal(currentStage[q.item])
    /\ WorkflowCanAdvance(q.item)

OneHolds ==
  \A r, s \in Requests :
    Holds(request[r]) /\ Holds(request[s]) /\ request[r].item = request[s].item => r = s

InFlightOK == OneHolds /\ \A r \in Requests : SavesOn(request[r]) /\ Due(request[r])

\* What the instance, the application and the register say of item i.
Agree(i) ==
  /\ state[i] = "approved" <=> app[i].status = "granted"
  /\ state[i] = "approved" <=> licence[i] # NoLicence
  /\ state[i] = "rejected" <=> app[i].status = "refused"
  /\ state[i] = "absent" <=> app[i].status \in {"absent", "draft"}
  /\ docs[i] # {} => app[i].status # "absent"
  /\ app[i].status # "absent" => Register!Renewable(i)
  /\ licence[i] # NoLicence => app[i].granted = licence[i].grant.volume

ReviewInv == LogInv /\ ReviewTypes /\ InFlightOK /\ \A i \in Items : Agree(i)

\* An item is past the assessment stages only with its assessment.
AssessedPast ==
  \A i \in Items : \A s \in AssessmentStages \cap Stages :
    \/ state[i] = "approved"
    \/ currentStage[i] # NoStage /\ Order[s] < Order[currentStage[i]]
    => assess[i] # NoAssessment

-----------------------------------------------------------------------------
(***************************************************************************)
(* Requests in flight                                                      *)
(***************************************************************************)
LEMMA InFlightFields ==
  ASSUME NEW q \in InFlight
  PROVE  /\ q.kind = "submit" => q \in Submitting
         /\ q.kind \in {"assess", "assessed", "conditioned"} => q \in Assessing
         /\ q.kind = "final" => q \in Finalising
         /\ q.kind = "deciding" => q \in Committing
         /\ q.kind = "none" <=> q = NoRequest
         /\ q.kind # "none" => q.item \in Items
         /\ Holds(q) => q.item \in Items /\ q.user \in Users
<1>1. CASE q = NoRequest
  BY <1>1 DEF NoRequest, Holds
<1>2. CASE q \in Submitting
  BY <1>2 DEF Submitting, NoRequest, Holds
<1>3. CASE q \in Assessing
  BY <1>3 DEF Assessing, NoRequest, Holds
<1>4. CASE q \in Finalising
  BY <1>4 DEF Finalising, NoRequest, Holds
<1>5. CASE q \in Committing
  BY <1>5 DEF Committing, NoRequest, Holds
<1> QED BY <1>1, <1>2, <1>3, <1>4, <1>5 DEF InFlight

LEMMA RequestType == ASSUME ReviewTypes, NEW r \in Requests PROVE request[r] \in InFlight
BY DEF ReviewTypes

LEMMA LockedByHolder ==
  ASSUME NEW i \in Items
  PROVE  Locked(i) <=> \E r \in Requests : Holds(request[r]) /\ request[r].item = i
BY DEF Locked, Holds

\* Assessments are saved over, never removed.
AssessGrows == \A i \in Items : assess[i] # NoAssessment => assess'[i] # NoAssessment

LEMMA SavesStay ==
  ASSUME NEW q \in InFlight, SavesOn(q), AssessGrows
  PROVE  SavesOn(q)'
BY InFlightFields DEF SavesOn, AssessGrows

LEMMA DueStays ==
  ASSUME NEW q \in InFlight, Due(q), AssessGrows,
         Holds(q) => state'[q.item] = state[q.item] /\ currentStage'[q.item] = currentStage[q.item]
  PROVE  Due(q)'
<1>1. Holds(q) => q.item \in Items
  BY InFlightFields
<1> QED BY <1>1 DEF Due, AssessGrows, MayApprove, RequireStageActor, StageActor, UnitMayAct, OwnerForStage, IsFinal,
                    WorkflowCanAdvance, Holds

\* One request goes on, or none, and those that hold an item find it as it was.
LEMMA InFlightStep ==
  ASSUME ReviewTypes, InFlightOK, AssessGrows, NEW r \in Requests, NEW q \in InFlight,
         request' = [request EXCEPT ![r] = q], SavesOn(q)', Due(q)',
         Holds(q) => \/ Holds(request[r]) /\ q.item = request[r].item
                     \/ ~Locked(q.item),
         \A s \in Requests \ {r} : Holds(request[s]) =>
           LET i == request[s].item IN state'[i] = state[i] /\ currentStage'[i] = currentStage[i]
  PROVE  InFlightOK'
<1>1. request'[r] = q /\ \A s \in Requests \ {r} : request'[s] = request[s]
  BY DEF ReviewTypes
<1>2. ASSUME NEW s \in Requests PROVE SavesOn(request[s])' /\ Due(request[s])'
  <2>1. CASE s = r
    BY <1>1, <2>1
  <2>2. CASE s # r
    <3>1. PICK p \in InFlight : p = request[s]
      BY RequestType
    <3>2. SavesOn(p) /\ Due(p)
      BY <3>1 DEF InFlightOK
    <3>3. Holds(p) => state'[p.item] = state[p.item] /\ currentStage'[p.item] = currentStage[p.item]
      BY <2>2, <3>1
    <3>4. SavesOn(p)' /\ Due(p)'
      BY <3>2, <3>3, SavesStay, DueStays
    <3>5. p = request'[s]
      BY <1>1, <2>2, <3>1
    <3> QED BY <3>4, <3>5
  <2> QED BY <2>1, <2>2
<1>3. ASSUME NEW s \in Requests, s # r, Holds(request[s]), Holds(q) PROVE request[s].item # q.item
  <2>1. CASE Holds(request[r]) /\ q.item = request[r].item
    BY <1>3, <2>1 DEF InFlightOK, OneHolds
  <2>2. CASE ~Locked(q.item)
    BY <1>3, <2>2, InFlightFields, LockedByHolder
  <2> QED BY <1>3, <2>1, <2>2
<1>4. OneHolds'
  <2>1. ASSUME NEW s \in Requests, NEW t \in Requests, Holds(request'[s]), Holds(request'[t]),
               request'[s].item = request'[t].item
        PROVE  s = t
    BY <1>1, <1>3, <2>1 DEF InFlightOK, OneHolds
  <2> QED BY <2>1 DEF OneHolds, Holds
<1> QED BY <1>2, <1>4 DEF InFlightOK

LEMMA InFlightRests ==
  ASSUME ReviewTypes, InFlightOK, AssessGrows, UNCHANGED request,
         \A s \in Requests : Holds(request[s]) =>
           LET i == request[s].item IN state'[i] = state[i] /\ currentStage'[i] = currentStage[i]
  PROVE  InFlightOK'
<1>1. ASSUME NEW s \in Requests PROVE SavesOn(request[s])' /\ Due(request[s])'
  <2>1. PICK p \in InFlight : p = request[s]
    BY RequestType
  <2>2. SavesOn(p) /\ Due(p)
    BY <2>1 DEF InFlightOK
  <2>3. SavesOn(p)' /\ Due(p)'
    BY <2>1, <2>2, SavesStay, DueStays
  <2>4. p = request'[s]
    BY <2>1
  <2> QED BY <2>3, <2>4
<1>2. OneHolds'
  BY DEF InFlightOK, OneHolds, Holds
<1> QED BY <1>1, <1>2 DEF InFlightOK

-----------------------------------------------------------------------------
(***************************************************************************)
(* Engine steps under the pages                                            *)
(***************************************************************************)
LEMMA RowType ==
  ASSUME ReviewTypes, NEW i \in Items
  PROVE  /\ app[i] \in AppRow /\ app[i].status \in ApplicationStatus \cup {"absent"}
         /\ assess[i] \in Assessment \cup {NoAssessment}
         /\ licence[i] \in Register!Licence \cup {NoLicence}
BY DEF ReviewTypes, AppRow

\* An engine function finds no final approval in flight for its item: the others are not disturbed.
LEMMA FreeStep ==
  ASSUME LogInv, ReviewTypes, InFlightOK, NEW i \in Items, NEW u \in Users, Step(i, u), ~Locked(i),
         UNCHANGED <<assess, request>>
  PROVE  InFlightOK'
<1>1. AssessGrows
  BY DEF AssessGrows
<1>2. ASSUME NEW s \in Requests, Holds(request[s])
      PROVE  LET j == request[s].item IN state'[j] = state[j] /\ currentStage'[j] = currentStage[j]
  <2>1. request[s].item \in Items \ {i}
    BY <1>2, LockedByHolder, RequestType, InFlightFields
  <2> QED BY <2>1, EngineKeeps
<1> QED BY <1>1, <1>2, InFlightRests

\* What the decision on an application rests on stays as it was.
Keeps(i) ==
  /\ \A v \in {"approved", "rejected", "absent"} : state'[i] = v <=> state[i] = v
  /\ \/ app'[i].status = app[i].status
     \/ {app[i].status, app'[i].status} \subseteq {"under_review", "info_requested"}
  /\ docs'[i] # {} => docs[i] # {} \/ app[i].status # "absent"
  /\ app'[i].granted = app[i].granted
  /\ licence'[i] # NoLicence <=> licence[i] # NoLicence
  /\ licence[i] # NoLicence => licence'[i].grant = licence[i].grant

IssuedStay == \A i \in Items : licence[i] # NoLicence => licence'[i] # NoLicence

LEMMA RenewableStays ==
  ASSUME NEW i \in Items, Register!Renewable(i), IssuedStay
  PROVE  Register!Renewable(i)'
<1>1. RenewalOf[i] \in Items \cup {NoItem}
  BY ReviewAssumption
<1> QED BY <1>1 DEF IssuedStay, Register!Renewable, Register!Issued

LEMMA AgreeStays ==
  ASSUME NEW i \in Items, Agree(i), Keeps(i), IssuedStay
  PROVE  Agree(i)'
BY RenewableStays DEF Agree, Keeps

-----------------------------------------------------------------------------
(***************************************************************************)
(* Each action keeps ReviewInv                                             *)
(***************************************************************************)
LEMMA CreateStep ==
  ASSUME ReviewInv, NEW i \in Items, Create(i)
  PROVE  [Next]_vars /\ ReviewInv'
<1>1. [Next]_vars /\ LogInv' /\ UNCHANGED <<state, currentStage>>
  BY EngineRests DEF ReviewInv, Create
<1>2. app' = [app EXCEPT ![i].status = "draft"] /\ UNCHANGED <<docs, assess, request, licence>>
  BY DEF Create, SetStatus, register
<1>3. ReviewTypes'
  BY <1>2 DEF ReviewInv, ReviewTypes, AppRow, ApplicationStatus
<1>4. InFlightOK'
  BY <1>1, <1>2, InFlightRests DEF ReviewInv, AssessGrows
<1>5. IssuedStay
  BY <1>2 DEF IssuedStay
<1>6. ASSUME NEW j \in Items PROVE Agree(j)'
  <2>1. CASE j = i
    <3>1. app'[j].status = "draft" /\ app'[j].granted = app[j].granted
      BY <1>2, <2>1, RowType DEF ReviewInv, ReviewTypes, AppRow
    <3>2. app[j].status = "absent" /\ Register!Renewable(j)
      BY <2>1 DEF Create
    <3>3. Register!Renewable(j)'
      BY <3>2, <1>5, RenewableStays
    <3> QED BY <1>1, <1>2, <3>1, <3>2, <3>3 DEF ReviewInv, Agree
  <2>2. CASE j # i
    <3>1. Keeps(j)
      BY <1>1, <1>2, <2>2 DEF Keeps, ReviewInv, ReviewTypes
    <3> QED BY <1>5, <3>1, AgreeStays DEF ReviewInv
  <2> QED BY <2>1, <2>2
<1> QED BY <1>1, <1>3, <1>4, <1>6 DEF ReviewInv

LEMMA UploadStep ==
  ASSUME ReviewInv, NEW i \in Items, NEW scan \in Scans, Upload(i, scan)
  PROVE  [Next]_vars /\ ReviewInv'
<1>1. [Next]_vars /\ LogInv' /\ UNCHANGED <<state, currentStage>>
  BY EngineRests DEF ReviewInv, Upload
<1>2. docs' = [docs EXCEPT ![i] = @ \cup {scan}] /\ UNCHANGED <<app, assess, request, licence>>
  BY DEF Upload, register
<1>3. ReviewTypes'
  BY <1>2 DEF ReviewInv, ReviewTypes
<1>4. InFlightOK'
  BY <1>1, <1>2, InFlightRests DEF ReviewInv, AssessGrows
<1>5. ASSUME NEW j \in Items PROVE Agree(j)'
  <2>1. docs'[j] # {} => docs[j] # {} \/ app[j].status # "absent"
    BY <1>2 DEF Upload, ReviewInv, ReviewTypes
  <2> QED BY <1>1, <1>2, <2>1, AgreeStays DEF ReviewInv, Keeps, IssuedStay
<1> QED BY <1>1, <1>3, <1>4, <1>5 DEF ReviewInv

\* A step of one request that writes nothing else.
LEMMA RequestOnly ==
  ASSUME ReviewInv, NEW r \in Requests, NEW q \in InFlight,
         request' = [request EXCEPT ![r] = q], UNCHANGED <<vars, app, docs, assess, licence>>,
         SavesOn(q), Due(q),
         Holds(q) => \/ Holds(request[r]) /\ q.item = request[r].item
                     \/ ~Locked(q.item)
  PROVE  [Next]_vars /\ ReviewInv'
<1>1. [Next]_vars /\ LogInv' /\ UNCHANGED <<state, currentStage>>
  BY EngineRests DEF ReviewInv
<1>2. ReviewTypes'
  BY DEF ReviewInv, ReviewTypes
<1>3. AssessGrows
  BY DEF AssessGrows
<1>4. SavesOn(q)' /\ Due(q)'
  BY <1>1, <1>3, SavesStay, DueStays
<1>5. InFlightOK'
  BY <1>1, <1>3, <1>4, InFlightStep DEF ReviewInv
<1>6. \A j \in Items : Agree(j)'
  BY <1>1, AgreeStays DEF ReviewInv, Keeps, IssuedStay
<1> QED BY <1>1, <1>2, <1>5, <1>6 DEF ReviewInv

LEMMA SubmitLoadStep ==
  ASSUME ReviewInv, NEW i \in Items, NEW r \in Requests, SubmitLoad(r, i)
  PROVE  [Next]_vars /\ ReviewInv'
<1> DEFINE q == [kind |-> "submit", item |-> i]
<1>1. q \in InFlight
  BY DEF InFlight, Submitting
<1>2. SavesOn(q) /\ Due(q) /\ ~Holds(q)
  BY DEF SavesOn, Due, Holds
<1>3. request' = [request EXCEPT ![r] = q] /\ UNCHANGED <<vars, app, docs, assess, licence>>
  BY DEF SubmitLoad, Begin, subjects, register
<1> HIDE DEF q
<1> QED BY <1>1, <1>2, <1>3, RequestOnly

LEMMA AssessLoadStep ==
  ASSUME ReviewInv, NEW i \in Items, NEW r \in Requests, NEW form \in Forms, AssessLoad(r, i, form)
  PROVE  [Next]_vars /\ ReviewInv'
<1>1. PICK new \in BOOLEAN : new <=> assess[i] = NoAssessment
  OBVIOUS
<1>2. PICK a \in AppRow : a = app[i]
  BY RowType DEF ReviewInv
<1> DEFINE q == [kind |-> "assess", item |-> i, app |-> a, form |-> form, isNew |-> new]
<1>3. q \in InFlight
  BY DEF InFlight, Assessing
<1>4. SavesOn(q) /\ Due(q) /\ ~Holds(q)
  BY <1>1 DEF SavesOn, Due, Holds
<1>5. new = (assess[i] = NoAssessment)
  BY <1>1
<1>6. request' = [request EXCEPT ![r] = q] /\ UNCHANGED <<vars, app, docs, assess, licence>>
  BY <1>2, <1>5, Zenon DEF AssessLoad, Begin, subjects, register
<1> HIDE DEF q
<1> QED BY <1>3, <1>4, <1>6, RequestOnly

LEMMA FinalLoadStep ==
  ASSUME ReviewInv, NEW i \in Items, NEW u \in Users, NEW r \in Requests, NEW typed \in Typed,
         FinalLoad(r, i, u, typed)
  PROVE  [Next]_vars /\ ReviewInv'
<1>1. PICK a \in AppRow : a = app[i]
  BY RowType DEF ReviewInv
<1> DEFINE q == [kind |-> "final", item |-> i, user |-> u, app |-> a, typed |-> typed]
<1>2. q \in InFlight
  BY DEF InFlight, Finalising
<1>3. SavesOn(q) /\ Due(q) /\ ~Locked(q.item)
  BY DEF FinalLoad, SavesOn, Due
<1>4. request' = [request EXCEPT ![r] = q] /\ UNCHANGED <<vars, app, docs, assess, licence>>
  BY <1>1 DEF FinalLoad, Begin, subjects, register
<1> HIDE DEF q
<1> QED BY <1>2, <1>3, <1>4, RequestOnly

LEMMA FinalDecideStep ==
  ASSUME ReviewInv, NEW r \in Requests, FinalDecide(r)
  PROVE  [Next]_vars /\ ReviewInv'
<1>1. PICK p \in InFlight : p = request[r]
  BY RequestType DEF ReviewInv
<1>2. p.kind = "final" /\ p \in Finalising
  BY <1>1, InFlightFields DEF FinalDecide
<1>3. p.item \in Items
  BY <1>2 DEF Finalising
<1>4. PICK a \in Assessment \cup {NoAssessment} : a = assess[p.item]
  BY <1>3, RowType DEF ReviewInv
<1> DEFINE q == [kind |-> "deciding", item |-> p.item, user |-> p.user, app |-> p.app,
                 typed |-> p.typed, assess |-> a]
<1>5. q \in InFlight
  BY <1>2 DEF InFlight, Finalising, Committing
<1>6. Due(p) /\ Holds(p)
  BY <1>1, <1>2 DEF ReviewInv, InFlightOK, Holds
<1>7. SavesOn(q) /\ Due(q)
  BY <1>6 DEF SavesOn, Due
<1>8. Holds(request[r]) /\ q.item = request[r].item
  BY <1>1, <1>6
<1>9. request' = [request EXCEPT ![r] = q] /\ UNCHANGED <<vars, app, docs, assess, licence>>
  BY <1>1, <1>4 DEF FinalDecide, Become, subjects, Register!IssueBegin
<1> HIDE DEF q
<1> QED BY <1>5, <1>7, <1>8, <1>9, RequestOnly

LEMMA DropStep ==
  ASSUME ReviewInv, NEW r \in Requests, Drop(r)
  PROVE  [Next]_vars /\ ReviewInv'
<1>1. NoRequest \in InFlight
  BY DEF InFlight
<1>2. SavesOn(NoRequest) /\ Due(NoRequest) /\ ~Holds(NoRequest)
  BY DEF SavesOn, Due, Holds, NoRequest
<1>3. request' = [request EXCEPT ![r] = NoRequest] /\ UNCHANGED <<vars, app, docs, assess, licence>>
  BY DEF Drop, Finish, Become, subjects, register, Register!IssueAbort
<1> QED BY <1>1, <1>2, <1>3, RequestOnly

\* A step of an assessment: the assessment and its request go on, nothing is decided.
LEMMA AssessingStep ==
  ASSUME ReviewInv, NEW r \in Requests, NEW q \in InFlight, ~Holds(q),
         request' = [request EXCEPT ![r] = q], SavesOn(q)',
         UNCHANGED <<vars, docs, licence>>, AssessGrows,
         app' \in [Items -> AppRow], assess' \in [Items -> Assessment \cup {NoAssessment}],
         \A i \in Items : app'[i].status = app[i].status /\ app'[i].granted = app[i].granted
  PROVE  [Next]_vars /\ ReviewInv'
<1>1. [Next]_vars /\ LogInv' /\ UNCHANGED <<state, currentStage>>
  BY EngineRests DEF ReviewInv
<1>2. ReviewTypes'
  BY DEF ReviewInv, ReviewTypes
<1>3. Due(q)'
  BY DEF Due, Holds
<1>4. InFlightOK'
  BY <1>1, <1>3, InFlightStep DEF ReviewInv
<1>5. \A j \in Items : Agree(j)'
  BY <1>1, AgreeStays DEF ReviewInv, Keeps, IssuedStay
<1> QED BY <1>1, <1>2, <1>4, <1>5 DEF ReviewInv

\* A request of the assessment view on its way.
LEMMA AssessingOn ==
  ASSUME NEW p \in Assessing, NEW k \in {"assessed", "conditioned"}
  PROVE  /\ [p EXCEPT !.kind = k] \in InFlight
         /\ [p EXCEPT !.kind = k].kind = k
         /\ [p EXCEPT !.kind = k].item = p.item
BY DEF Assessing, InFlight

LEMMA AssessSaveStep ==
  ASSUME ReviewInv, NEW r \in Requests, AssessSave(r)
  PROVE  [Next]_vars /\ ReviewInv' /\ AssessGrows
<1>1. PICK p \in Assessing : p = request[r] /\ p.kind = "assess"
  BY RequestType, InFlightFields DEF ReviewInv, AssessSave
<1>2. p.item \in Items /\ p.form \in Assessment
  BY <1>1, ReviewAssumption DEF Assessing
<1>3. p.isNew \/ assess[p.item] \in Assessment
  BY <1>1, <1>2, RowType DEF ReviewInv, InFlightOK, SavesOn
<1>4. PICK a \in Assessment :
        assess' = [assess EXCEPT ![p.item] = a] /\ a # NoAssessment
  <2> DEFINE c == IF p.isNew THEN "none" ELSE assess[p.item].conditions
  <2>1. [p.form EXCEPT !.conditions = c] \in Assessment
    BY <1>2, <1>3 DEF Assessment
  <2>2. assess' = [assess EXCEPT ![p.item] = [p.form EXCEPT !.conditions = c]]
    BY <1>1 DEF AssessSave
  <2> QED BY <2>1, <2>2, ReviewAssumption
<1> DEFINE q == [p EXCEPT !.kind = "assessed"]
<1>5. q \in InFlight /\ q.kind = "assessed" /\ q.item = p.item
  BY AssessingOn
<1>6. request' = [request EXCEPT ![r] = q] /\ UNCHANGED <<vars, app, docs, licence>>
  BY <1>1 DEF AssessSave, Become, register
<1> HIDE DEF q
<1>7. /\ assess' \in [Items -> Assessment \cup {NoAssessment}]
      /\ AssessGrows
      /\ assess'[p.item] # NoAssessment
  BY <1>2, <1>4 DEF ReviewInv, ReviewTypes, AssessGrows
<1>8. SavesOn(q)' /\ ~Holds(q)
  BY <1>5, <1>7 DEF SavesOn, Holds
<1>9. app' \in [Items -> AppRow]
  BY <1>6 DEF ReviewInv, ReviewTypes
<1> QED BY <1>5, <1>6, <1>7, <1>8, <1>9, AssessingStep

LEMMA AssessConditionsStep ==
  ASSUME ReviewInv, NEW r \in Requests, AssessConditions(r)
  PROVE  [Next]_vars /\ ReviewInv' /\ AssessGrows
<1>1. PICK p \in Assessing : p = request[r] /\ p.kind = "assessed"
  BY RequestType, InFlightFields DEF ReviewInv, AssessConditions
<1>2. p.item \in Items /\ p.form \in Assessment
  BY <1>1, ReviewAssumption DEF Assessing
<1>3. assess[p.item] \in Assessment
  BY <1>1, <1>2, RowType DEF ReviewInv, InFlightOK, SavesOn
<1>4. [assess[p.item] EXCEPT !.conditions = p.form.conditions] \in Assessment
  BY <1>2, <1>3 DEF Assessment
<1>5. assess' = [assess EXCEPT ![p.item] = [assess[p.item] EXCEPT !.conditions = p.form.conditions]]
  BY <1>1, <1>2 DEF AssessConditions, ReviewInv, ReviewTypes
<1> DEFINE q == [p EXCEPT !.kind = "conditioned"]
<1>6. q \in InFlight /\ q.kind = "conditioned" /\ q.item = p.item
  BY AssessingOn
<1>7. request' = [request EXCEPT ![r] = q] /\ UNCHANGED <<vars, app, docs, licence>>
  BY <1>1 DEF AssessConditions, Become, register
<1> HIDE DEF q
<1>8. /\ assess' \in [Items -> Assessment \cup {NoAssessment}]
      /\ AssessGrows
      /\ assess'[p.item] # NoAssessment
  BY <1>2, <1>4, <1>5, ReviewAssumption DEF ReviewInv, ReviewTypes, AssessGrows
<1>9. SavesOn(q)' /\ ~Holds(q) /\ app' \in [Items -> AppRow]
  BY <1>6, <1>7, <1>8 DEF SavesOn, Holds, ReviewInv, ReviewTypes
<1> QED BY <1>6, <1>7, <1>8, <1>9, AssessingStep

LEMMA AssessUnitStep ==
  ASSUME ReviewInv, NEW r \in Requests, AssessUnit(r)
  PROVE  [Next]_vars /\ ReviewInv'
<1>1. PICK p \in Assessing : p = request[r] /\ p.kind = "conditioned"
  BY RequestType, InFlightFields DEF ReviewInv, AssessUnit
<1>2. p.item \in Items /\ p.form \in Assessment
  BY <1>1, ReviewAssumption DEF Assessing
<1>3. app' = app \/ app' = [app EXCEPT ![p.item].wmu = p.form.wmu]
  BY <1>1 DEF AssessUnit, SaveUnit
<1>4. p.form.wmu \in AppUnits
  BY <1>2 DEF Assessment
<1>5. /\ app' \in [Items -> AppRow]
      /\ \A i \in Items : app'[i].status = app[i].status /\ app'[i].granted = app[i].granted
  <2>1. CASE app' = app
    BY <2>1 DEF ReviewInv, ReviewTypes
  <2>2. CASE app' = [app EXCEPT ![p.item].wmu = p.form.wmu]
    <3>1. PICK w \in AppUnits : w = p.form.wmu
      BY <1>4
    <3>2. app \in [Items -> AppRow] /\ app' = [app EXCEPT ![p.item].wmu = w]
      BY <2>2, <3>1 DEF ReviewInv, ReviewTypes
    <3>3. app' \in [Items -> AppRow]
      BY <1>2, <3>2 DEF AppRow
    <3>4. ASSUME NEW i \in Items PROVE app'[i].status = app[i].status /\ app'[i].granted = app[i].granted
      BY <1>2, <3>2 DEF AppRow
    <3> QED BY <3>3, <3>4
  <2> QED BY <1>3, <2>1, <2>2
<1>6. request' = [request EXCEPT ![r] = NoRequest] /\ UNCHANGED <<vars, docs, assess, licence>>
  BY <1>1 DEF AssessUnit, Finish, Become, register
<1>7. NoRequest \in InFlight /\ SavesOn(NoRequest)' /\ ~Holds(NoRequest)
  BY DEF InFlight, SavesOn, Holds, NoRequest
<1>8. AssessGrows /\ assess' \in [Items -> Assessment \cup {NoAssessment}]
  BY <1>6 DEF AssessGrows, ReviewInv, ReviewTypes
<1> QED BY <1>5, <1>6, <1>7, <1>8, AssessingStep

-----------------------------------------------------------------------------
\* An engine function called by a page, on an item no final approval holds.
LEMMA PageStep ==
  ASSUME ReviewInv, NEW i \in Items, NEW u \in Users, Step(i, u), ~Locked(i),
         UNCHANGED <<docs, assess, request, licence>>,
         app' \in [Items -> AppRow], \A j \in Items \ {i} : app'[j] = app[j],
         Agree(i)'
  PROVE  [Next]_vars /\ ReviewInv'
<1>1. /\ [Next]_vars /\ LogInv'
      /\ \A j \in Items \ {i} : state'[j] = state[j] /\ currentStage'[j] = currentStage[j]
  BY EngineKeeps DEF ReviewInv
<1>2. ReviewTypes'
  BY DEF ReviewInv, ReviewTypes
<1>3. InFlightOK'
  BY FreeStep DEF ReviewInv
<1>4. ASSUME NEW j \in Items PROVE Agree(j)'
  <2>1. CASE j # i
    BY <1>1, <2>1, AgreeStays DEF ReviewInv, Keeps, IssuedStay
  <2> QED BY <2>1
<1> QED BY <1>1, <1>2, <1>3, <1>4 DEF ReviewInv

\* The application is under review as long as its item is open.
LEMMA OpenUnderReview ==
  ASSUME ReviewInv, NEW i \in Items, IsOpen(i)
  PROVE  /\ app[i].status \in {"under_review", "info_requested"}
         /\ licence[i] = NoLicence /\ Register!Renewable(i)
BY RowType DEF ReviewInv, Agree, IsOpen, ApplicationStatus

LEMMA AdvanceStageStep ==
  ASSUME ReviewInv, NEW i \in Items, NEW u \in Users, AdvanceStage(i, u)
  PROVE  [Next]_vars /\ ReviewInv'
<1>1. Step(i, u) /\ ~Locked(i) /\ UNCHANGED <<state, app, docs, assess, request, licence>>
  BY DEF AdvanceStage, Step, Advance, subjects, register
<1>2. Agree(i)'
  BY <1>1, AgreeStays DEF ReviewInv, Keeps, IssuedStay
<1> QED BY <1>1, <1>2, PageStep DEF ReviewInv, ReviewTypes

LEMMA NoHookStep ==
  ASSUME ReviewInv, NEW i \in Items, NEW u \in Users, NoHook(i, u)
  PROVE  [Next]_vars /\ ReviewInv'
<1>1. Step(i, u) /\ ~Locked(i) /\ UNCHANGED <<app, docs, assess, request, licence>>
  BY DEF NoHook, Step, subjects, register
<1>2. \/ state' = state
      \/ IsOpen(i) /\ \E s \in {"in_progress", "withdrawn"} : state' = [state EXCEPT ![i] = s]
  BY DEF NoHook, ReturnTo, Resubmit, Withdraw, CloseAs, Comment, IsOpen
<1>3. \A v \in {"approved", "rejected", "absent"} : state'[i] = v <=> state[i] = v
  BY <1>2, StateOf DEF ReviewInv, IsOpen
<1>4. Agree(i)'
  BY <1>1, <1>3, AgreeStays DEF ReviewInv, Keeps, IssuedStay
<1> QED BY <1>1, <1>4, PageStep DEF ReviewInv, ReviewTypes

LEMMA RejectApplicationStep ==
  ASSUME ReviewInv, NEW i \in Items, NEW u \in Users, RejectApplication(i, u)
  PROVE  [Next]_vars /\ ReviewInv'
<1>1. Step(i, u) /\ ~Locked(i) /\ UNCHANGED <<docs, assess, request, licence>>
  BY DEF RejectApplication, Step, register
<1>2. state' = [state EXCEPT ![i] = "rejected"] /\ IsOpen(i)
  BY DEF RejectApplication, Reject, CloseAs
<1>3. app' = [app EXCEPT ![i].status = "refused"]
  BY DEF RejectApplication, SetStatus
<1>4. /\ app' \in [Items -> AppRow] /\ \A j \in Items \ {i} : app'[j] = app[j]
      /\ app'[i].status = "refused"
  BY <1>3 DEF ReviewInv, ReviewTypes, AppRow, ApplicationStatus
<1>5. state'[i] = "rejected" /\ licence'[i] = NoLicence
  BY <1>1, <1>2, StateOf, OpenUnderReview DEF ReviewInv
<1>6. Register!Renewable(i)'
  BY <1>1, <1>2, OpenUnderReview, RenewableStays DEF IssuedStay
<1>7. Agree(i)'
  BY <1>4, <1>5, <1>6 DEF Agree
<1> QED BY <1>1, <1>4, <1>7, PageStep

LEMMA AskApplicantStep ==
  ASSUME ReviewInv, NEW i \in Items, NEW u \in Users, AskApplicant(i, u)
  PROVE  [Next]_vars /\ ReviewInv'
<1>1. Step(i, u) /\ ~Locked(i) /\ UNCHANGED <<docs, assess, request, licence>>
  BY DEF AskApplicant, Step, register
<1>2. state' = [state EXCEPT ![i] = "info_requested"] /\ IsOpen(i)
  BY DEF AskApplicant, RequestInfo
<1>3. app' = [app EXCEPT ![i].status = "info_requested"]
  BY DEF AskApplicant, SetStatus
<1>4. /\ app' \in [Items -> AppRow] /\ \A j \in Items \ {i} : app'[j] = app[j]
      /\ app'[i].status = "info_requested"
  BY <1>3 DEF ReviewInv, ReviewTypes, AppRow, ApplicationStatus
<1>5. state'[i] = "info_requested" /\ licence'[i] = NoLicence
  BY <1>1, <1>2, StateOf, OpenUnderReview DEF ReviewInv
<1>6. Register!Renewable(i)'
  BY <1>1, <1>2, OpenUnderReview, RenewableStays DEF IssuedStay
<1>7. Agree(i)'
  BY <1>4, <1>5, <1>6 DEF Agree
<1> QED BY <1>1, <1>4, <1>7, PageStep

LEMMA SubmitStep ==
  ASSUME ReviewInv, NEW r \in Requests, Submit(r)
  PROVE  [Next]_vars /\ ReviewInv'
<1>1. PICK i \in Items : i = request[r].item /\ request[r].kind = "submit"
  BY RequestType, InFlightFields DEF ReviewInv, Submit
<1>2. /\ Start(i, Applicant[i]) /\ Applicant[i] \in Users /\ docs[i] # {}
      /\ app' = [app EXCEPT ![i].status = "under_review"]
      /\ request' = [request EXCEPT ![r] = NoRequest]
      /\ UNCHANGED <<docs, assess, licence>>
  BY <1>1, ReviewAssumption DEF Submit, SetStatus, Finish, Become, register
<1>3. /\ [Next]_vars /\ LogInv'
      /\ \A j \in Items \ {i} : state'[j] = state[j] /\ currentStage'[j] = currentStage[j]
  BY <1>2, EngineKeeps DEF ReviewInv, Step
<1>4. state[i] = "absent" /\ state'[i] = "in_progress"
  BY <1>2, StateOf DEF ReviewInv, Start
<1>5. /\ app' \in [Items -> AppRow] /\ \A j \in Items \ {i} : app'[j] = app[j]
      /\ app'[i].status = "under_review"
  BY <1>2 DEF ReviewInv, ReviewTypes, AppRow, ApplicationStatus
<1>6. NoRequest \in InFlight /\ SavesOn(NoRequest)' /\ Due(NoRequest)' /\ ~Holds(NoRequest)
  BY DEF InFlight, SavesOn, Due, Holds, NoRequest
<1>7. ReviewTypes'
  BY <1>2, <1>5, <1>6 DEF ReviewInv, ReviewTypes
<1>8. ASSUME NEW s \in Requests \ {r}, Holds(request[s])
      PROVE  LET j == request[s].item IN state'[j] = state[j] /\ currentStage'[j] = currentStage[j]
  <2>1. request[s].item \in Items /\ state[request[s].item] = "in_progress"
    BY <1>8, RequestType, InFlightFields DEF ReviewInv, InFlightOK, Due, MayApprove
  <2> QED BY <1>3, <1>4, <2>1
<1>9. InFlightOK'
  <2>1. AssessGrows
    BY <1>2 DEF AssessGrows
  <2> QED BY <1>2, <1>6, <1>8, <2>1, InFlightStep DEF ReviewInv
<1>10. IssuedStay
  BY <1>2 DEF IssuedStay
<1>11. ASSUME NEW j \in Items PROVE Agree(j)'
  <2>1. CASE j = i
    <3>1. licence[i] = NoLicence /\ app[i].status # "absent" /\ Register!Renewable(i)
      BY <1>2, <1>4 DEF ReviewInv, Agree
    <3>2. Register!Renewable(i)'
      BY <1>10, <3>1, RenewableStays
    <3> QED BY <1>2, <1>4, <1>5, <2>1, <3>1, <3>2 DEF Agree
  <2>2. CASE j # i
    BY <1>2, <1>3, <1>5, <1>10, <2>2, AgreeStays DEF ReviewInv, Keeps
  <2> QED BY <2>1, <2>2
<1> QED BY <1>3, <1>7, <1>9, <1>11 DEF ReviewInv

-----------------------------------------------------------------------------
(***************************************************************************)
(* The final approval                                                      *)
(***************************************************************************)

\* What is granted is what a licence can say.
LEMMA GrantIsGranted ==
  ASSUME NEW p \in Committing
  PROVE  GrantFor(p) \in Granted /\ GrantFor(p).volume \in Volumes
<1>1. PICK a \in Assessment \cup {NoAssessment} : a = p.assess
  BY DEF Committing
<1>2. PICK w \in AppUnits : w = p.app.wmu
  BY DEF Committing, AppRow
<1>3. PICK v \in Volumes : v = IF a = NoAssessment THEN Requested ELSE Volume(a)
  BY <1>1 DEF Assessment, Volumes, Volume
<1>4. PICK c \in {"none"} \cup {f.conditions : f \in Forms} :
        c = IF a = NoAssessment THEN "none" ELSE a.conditions
  BY <1>1 DEF Assessment
<1>5. GrantFor(p) = [volume |-> v, wmu |-> w, conditions |-> c]
  BY <1>1, <1>2, <1>3, <1>4 DEF GrantFor
<1> QED BY <1>5 DEF Granted

LEMMA GrantedRow ==
  ASSUME NEW a \in AppRow, NEW v \in Volumes
  PROVE  LET c == [a EXCEPT !.status = "granted", !.granted = v]
         IN  c \in AppRow /\ c.status = "granted" /\ c.granted = v
<1>1. [a EXCEPT !.status = "granted"] \in AppRow
  BY DEF AppRow, ApplicationStatus
<1>2. [[a EXCEPT !.status = "granted"] EXCEPT !.granted = v] \in AppRow
  BY <1>1 DEF AppRow
<1>3. [a EXCEPT !.status = "granted", !.granted = v].status = "granted"
  BY DEF AppRow
<1>4. [a EXCEPT !.status = "granted", !.granted = v].granted = v
  BY DEF AppRow
<1> QED BY <1>1, <1>2, <1>3, <1>4

\* The commit issues the licence of i and, at most, marks another as renewed.
LEMMA CommitIssues ==
  ASSUME ReviewTypes, NEW i \in Items, Register!Renewable(i), NEW g \in Granted, Register!IssueCommit(i, g, 1)
  PROVE  /\ licence' \in [Items -> Register!Licence \cup {NoLicence}]
         /\ licence'[i] # NoLicence /\ licence'[i].grant = g
         /\ \A k \in Items \ {i} :
              /\ licence'[k] # NoLicence <=> licence[k] # NoLicence
              /\ licence[k] # NoLicence => licence'[k].grant = licence[k].grant
<1> DEFINE new == [status |-> "active", expires |-> 0 + 1, grant |-> g, warned |-> {}, expiredAlert |-> FALSE]
<1>1. new \in Register!Licence /\ new.grant = g
  BY DEF Register!Licence, Register!LicenceStatus
<1>2. licence' = [k \in Items |->
          CASE k = i -> new
            [] k # i /\ k = RenewalOf[i] -> [licence[k] EXCEPT !.status = "renewed"]
            [] OTHER -> licence[k]]
  BY DEF Register!IssueCommit
<1> HIDE DEF new
<1>3. licence'[i] = new
  BY <1>2
<1>4. ASSUME NEW k \in Items \ {i}
      PROVE  /\ licence'[k] \in Register!Licence \cup {NoLicence}
             /\ licence'[k] # NoLicence <=> licence[k] # NoLicence
             /\ licence[k] # NoLicence => licence'[k].grant = licence[k].grant
  <2>1. CASE k = RenewalOf[i]
    <3>1. licence[k] # NoLicence
      BY <2>1, ReviewAssumption DEF Register!Renewable, Register!Issued
    <3>2. PICK l \in Register!Licence : l = licence[k]
      BY <3>1, RowType
    <3>3. [l EXCEPT !.status = "renewed"] \in Register!Licence /\ [l EXCEPT !.status = "renewed"].grant = l.grant
      BY DEF Register!Licence, Register!LicenceStatus
    <3>4. licence'[k] = [l EXCEPT !.status = "renewed"]
      BY <1>2, <2>1, <3>2
    <3> QED BY <3>1, <3>2, <3>3, <3>4, ReviewAssumption
  <2>2. CASE k # RenewalOf[i]
    BY <1>2, <2>2, RowType
  <2> QED BY <2>1, <2>2
<1> QED BY <1>1, <1>2, <1>3, <1>4, ReviewAssumption

LEMMA FinalCommitStep ==
  ASSUME ReviewInv, NEW r \in Requests, FinalCommit(r)
  PROVE  [Next]_vars /\ ReviewInv'
<1>1. PICK p \in Committing : p = request[r] /\ p.kind = "deciding"
  BY RequestType, InFlightFields DEF ReviewInv, FinalCommit
<1>2. PICK i \in Items : i = p.item
  BY DEF Committing
<1>3. p.user \in Users
  BY DEF Committing
<1>4. Due(p) /\ Holds(p)
  BY <1>1 DEF ReviewInv, InFlightOK, Holds
<1>5. FinalApprove(i, p.user)
  BY <1>1, <1>2, <1>4 DEF FinalCommit, FinalApprove, Due
<1>6. /\ [Next]_vars /\ LogInv'
      /\ \A j \in Items \ {i} : state'[j] = state[j] /\ currentStage'[j] = currentStage[j]
  BY <1>3, <1>5, EngineKeeps DEF ReviewInv, Step
<1>7. state[i] = "in_progress" /\ state'[i] = "approved"
  BY <1>5, StateOf DEF ReviewInv, FinalApprove, MayApprove, CloseAs
<1>8. PICK g \in Granted : g = GrantFor(p) /\ g.volume \in Volumes
  BY GrantIsGranted
<1>9. /\ app' = [app EXCEPT ![i] = [p.app EXCEPT !.status = "granted", !.granted = g.volume]]
      /\ request' = [request EXCEPT ![r] = NoRequest]
      /\ UNCHANGED <<docs, assess>>
      /\ Register!IssueCommit(i, g, 1)
  BY <1>1, <1>2, <1>8 DEF FinalCommit, GrantedApp, IssueLicence, Finish, Become
<1>10. Register!Renewable(i) /\ app[i].status # "absent"
  BY <1>7, OpenUnderReview DEF IsOpen
<1>11. /\ licence' \in [Items -> Register!Licence \cup {NoLicence}]
       /\ licence'[i] # NoLicence /\ licence'[i].grant = g
       /\ \A k \in Items \ {i} :
            /\ licence'[k] # NoLicence <=> licence[k] # NoLicence
            /\ licence[k] # NoLicence => licence'[k].grant = licence[k].grant
  BY <1>9, <1>10, CommitIssues DEF ReviewInv
<1>12. /\ app' \in [Items -> AppRow] /\ \A j \in Items \ {i} : app'[j] = app[j]
       /\ app'[i].status = "granted" /\ app'[i].granted = g.volume
  <2>1. PICK a \in AppRow : a = p.app
    BY DEF Committing
  <2>2. PICK v \in Volumes : v = g.volume
    BY <1>8
  <2>3. PICK b \in AppRow :
          b = [a EXCEPT !.status = "granted", !.granted = v] /\ b.status = "granted" /\ b.granted = v
    BY GrantedRow
  <2>4. app' = [app EXCEPT ![i] = b]
    BY <1>9, <2>1, <2>2, <2>3
  <2> QED BY <2>2, <2>3, <2>4 DEF ReviewInv, ReviewTypes
<1>13. NoRequest \in InFlight /\ SavesOn(NoRequest)' /\ Due(NoRequest)' /\ ~Holds(NoRequest)
  BY DEF InFlight, SavesOn, Due, Holds, NoRequest
<1>14. ReviewTypes'
  BY <1>9, <1>11, <1>12, <1>13 DEF ReviewInv, ReviewTypes
<1>15. ASSUME NEW s \in Requests \ {r}, Holds(request[s])
       PROVE  LET j == request[s].item IN state'[j] = state[j] /\ currentStage'[j] = currentStage[j]
  <2>1. request[s].item \in Items
    BY <1>15, RequestType, InFlightFields DEF ReviewInv
  <2>2. request[s].item # i
    BY <1>1, <1>2, <1>4, <1>15 DEF ReviewInv, InFlightOK, OneHolds
  <2> QED BY <1>6, <2>1, <2>2
<1>16. InFlightOK'
  <2>1. AssessGrows
    BY <1>9 DEF AssessGrows
  <2> QED BY <1>9, <1>13, <1>15, <2>1, InFlightStep DEF ReviewInv
<1>17. IssuedStay
  BY <1>11 DEF IssuedStay
<1>18. ASSUME NEW j \in Items PROVE Agree(j)'
  <2>1. CASE j = i
    <3>1. Register!Renewable(i)'
      BY <1>10, <1>17, RenewableStays
    <3> QED BY <1>7, <1>11, <1>12, <2>1, <3>1 DEF Agree
  <2>2. CASE j # i
    BY <1>6, <1>9, <1>11, <1>12, <1>17, <2>2, AgreeStays DEF ReviewInv, Keeps
  <2> QED BY <2>1, <2>2
<1> QED BY <1>6, <1>14, <1>16, <1>18 DEF ReviewInv

-----------------------------------------------------------------------------
(***************************************************************************)
(* The invariant                                                           *)
(***************************************************************************)
LEMMA ReviewStart == ReviewInit => ReviewInv /\ AssessedPast
<1> SUFFICES ASSUME ReviewInit PROVE ReviewInv /\ AssessedPast
  OBVIOUS
<1>1. LogInv
  BY DEF ReviewInit, Init, LogInv, TypeOK, LogDecidesState, LogEndsHere, LogIsAWalk
<1>2. /\ app = [i \in Items |-> Absent] /\ docs = [i \in Items |-> {}]
      /\ assess = [i \in Items |-> NoAssessment] /\ request = [r \in Requests |-> NoRequest]
      /\ licence = [i \in Items |-> NoLicence]
      /\ state = [i \in Items |-> "absent"] /\ currentStage = [i \in Items |-> NoStage]
  BY DEF ReviewInit, Init
<1>3. Absent \in AppRow /\ Absent.status = "absent"
  BY DEF Absent, AppRow, AppUnits, Volumes
<1>4. ReviewTypes
  <2>1. NoRequest \in InFlight
    BY DEF InFlight
  <2>2. docs \in [Items -> SUBSET Scans]
    BY <1>2
  <2> QED BY <1>2, <1>3, <2>1, <2>2 DEF ReviewTypes
<1>5. InFlightOK
  BY <1>2 DEF InFlightOK, OneHolds, Holds, SavesOn, Due, NoRequest
<1>6. \A i \in Items : Agree(i)
  BY <1>2, <1>3 DEF Agree
<1>7. AssessedPast
  BY <1>2 DEF AssessedPast
<1> QED BY <1>1, <1>4, <1>5, <1>6, <1>7 DEF ReviewInv

LEMMA ReviewStep ==
  ASSUME ReviewInv, [ReviewNext]_rvars
  PROVE  [Next]_vars /\ ReviewInv' /\ AssessGrows
<1>1. CASE UNCHANGED rvars
  <2>1. UNCHANGED <<vars, app, docs, assess, request, licence>>
    BY <1>1 DEF rvars, subjects, register
  <2>2. [Next]_vars /\ LogInv' /\ UNCHANGED <<state, currentStage>> /\ AssessGrows
    BY <2>1, EngineRests DEF ReviewInv, AssessGrows
  <2>3. InFlightOK'
    BY <2>1, <2>2, InFlightRests DEF ReviewInv
  <2>4. \A i \in Items : Agree(i)'
    BY <2>1, <2>2, AgreeStays DEF ReviewInv, Keeps, IssuedStay
  <2> QED BY <2>1, <2>2, <2>3, <2>4 DEF ReviewInv, ReviewTypes
<1>2. ASSUME NEW i \in Items, Applying(i) PROVE [Next]_vars /\ ReviewInv' /\ AssessGrows
  <2>1. UNCHANGED assess
    BY <1>2 DEF Applying, Create, Upload, SubmitLoad, subjects
  <2> QED BY <1>2, <2>1, CreateStep, UploadStep, SubmitLoadStep DEF Applying, AssessGrows
<1>3. ASSUME NEW i \in Items, NEW u \in Users, Reviewing(i, u) PROVE [Next]_vars /\ ReviewInv' /\ AssessGrows
  <2>1. UNCHANGED assess
    BY <1>3 DEF Reviewing, AdvanceStage, FinalLoad, RejectApplication, AskApplicant, NoHook, subjects
  <2> QED BY <1>3, <2>1, AdvanceStageStep, FinalLoadStep, RejectApplicationStep, AskApplicantStep, NoHookStep
          DEF Reviewing, AssessGrows
<1>4. ASSUME NEW i \in Items, NEW r \in Requests, NEW form \in Forms, AssessLoad(r, i, form)
      PROVE  [Next]_vars /\ ReviewInv' /\ AssessGrows
  <2>1. UNCHANGED assess
    BY <1>4 DEF AssessLoad, subjects
  <2> QED BY <1>4, <2>1, AssessLoadStep DEF AssessGrows
<1>5. ASSUME NEW r \in Requests, Working(r) PROVE [Next]_vars /\ ReviewInv' /\ AssessGrows
  <2>1. CASE AssessSave(r) \/ AssessConditions(r)
    BY <2>1, AssessSaveStep, AssessConditionsStep
  <2>2. CASE Submit(r) \/ AssessUnit(r) \/ FinalDecide(r) \/ FinalCommit(r) \/ Drop(r)
    <3>1. UNCHANGED assess
      BY <2>2 DEF Submit, AssessUnit, FinalDecide, FinalCommit, Drop, subjects
    <3> QED BY <2>2, <3>1, SubmitStep, AssessUnitStep, FinalDecideStep, FinalCommitStep, DropStep DEF AssessGrows
  <2> QED BY <1>5, <2>1, <2>2 DEF Working
<1> QED BY <1>1, <1>2, <1>3, <1>4, <1>5 DEF ReviewNext

LEMMA ReviewInvariant == ReviewSpec => []ReviewInv
BY ReviewStart, ReviewStep, PTL DEF ReviewSpec

\* Every variable of the application and every request has its type.
THEOREM ReviewTypesHold == ReviewSpec => []ReviewTypeOK
<1>1. ReviewInv => ReviewTypeOK
  BY InFlightFields, RequestType DEF ReviewInv, ReviewTypes, ReviewTypeOK, AppRow
<1> QED BY <1>1, ReviewInvariant, PTL

\* The instance, the application and the register agree on every decision: no page undoes one or
\* decides again (views.application_assess, services.on_workflow_approved).
THEOREM DecisionsAgree == ReviewSpec => []DecisionMirrored
<1>1. ReviewInv => DecisionMirrored
  BY DEF ReviewInv, Agree, DecisionMirrored
<1> QED BY <1>1, ReviewInvariant, PTL

\* An application goes on saying the volume its licence grants (services.on_workflow_approved).
THEOREM VolumesOnRecord == ReviewSpec => []GrantedVolumeOnRecord
<1>1. ReviewInv => GrantedVolumeOnRecord
  BY DEF ReviewInv, Agree, GrantedVolumeOnRecord
<1> QED BY <1>1, ReviewInvariant, PTL

\* The pages take the engine through steps of its own: every theorem about WorkflowEngine!Spec is
\* one about the applications, too.
THEOREM PagesRunTheEngine == ReviewSpec => EngineSteps
<1>1. ReviewInit => Init
  BY DEF ReviewInit
<1> QED BY <1>1, ReviewInvariant, ReviewStep, PTL DEF ReviewSpec, EngineSteps

-----------------------------------------------------------------------------
(***************************************************************************)
(* Nothing is granted without an assessment                                *)
(***************************************************************************)

\* How an item may move: ahead, and out of its last stage, through the gate; else not ahead.
Gated(i) ==
  \/ state'[i] = state[i] /\ currentStage'[i] = currentStage[i]
  \/ /\ currentStage[i] \in Stages /\ WorkflowCanAdvance(i)
     /\ \/ IsNext(currentStage[i], currentStage'[i]) /\ currentStage'[i] \in Stages /\ state'[i] # "approved"
        \/ IsFinal(currentStage[i]) /\ currentStage'[i] = currentStage[i]
  \/ /\ state'[i] # "approved"
     /\ \/ currentStage'[i] = currentStage[i]
        \/ currentStage'[i] \in Stages /\ IsFirst(currentStage'[i])
        \/ currentStage[i] \in Stages /\ currentStage'[i] \in CanReturnTo[currentStage[i]]

LEMMA StageOf ==
  ASSUME ReviewInv, NEW i \in Items
  PROVE  currentStage[i] \in Stages \cup {NoStage} /\ currentStage \in [Items -> Stages \cup {NoStage}]
BY DEF ReviewInv, LogInv, TypeOK

LEMMA NoHookGated ==
  ASSUME ReviewInv, NEW i \in Items, NEW u \in Users, NoHook(i, u)
  PROVE  Gated(i)
<1>1. ASSUME NEW t \in Stages, ReturnTo(i, u, t) PROVE Gated(i)
  <2>1. /\ currentStage[i] \in Stages /\ currentStage'[i] = t /\ t \in CanReturnTo[currentStage[i]]
        /\ state'[i] = "in_progress"
    BY <1>1, StageOf, StateOf DEF ReviewInv, ReturnTo, RequireStageActor, EnterStage
  <2> QED BY <2>1 DEF Gated
<1>2. CASE Resubmit(i, u)
  <2>1. currentStage'[i] = currentStage[i] /\ state'[i] = "in_progress"
    BY <1>2, StageOf, StateOf DEF ReviewInv, Resubmit, EnterStage
  <2> QED BY <2>1 DEF Gated
<1>3. CASE Withdraw(i, u)
  <2>1. currentStage'[i] = currentStage[i] /\ state'[i] = "withdrawn"
    BY <1>3, StageOf, StateOf DEF ReviewInv, Withdraw, CloseAs
  <2> QED BY <2>1 DEF Gated
<1>4. CASE Comment(i, u)
  BY <1>4 DEF Gated, Comment
<1> QED BY <1>1, <1>2, <1>3, <1>4 DEF NoHook

LEMMA ReviewingGated ==
  ASSUME ReviewInv, NEW i \in Items, NEW u \in Users, Reviewing(i, u)
  PROVE  Gated(i)
<1>1. CASE AdvanceStage(i, u)
  <2>1. PICK t \in Stages : IsNext(currentStage[i], t) /\ currentStage' = [currentStage EXCEPT ![i] = t]
    BY <1>1 DEF AdvanceStage, Advance, EnterStage
  <2>2. state'[i] = "in_progress" /\ currentStage[i] \in Stages /\ WorkflowCanAdvance(i)
    BY <1>1, StageOf DEF AdvanceStage, Advance, RequireStageActor, MayApprove
  <2>3. currentStage'[i] = t
    BY <2>1, StageOf
  <2> QED BY <2>1, <2>2, <2>3 DEF Gated
<1>2. CASE \E r \in Requests, typed \in Typed : FinalLoad(r, i, u, typed)
  BY <1>2 DEF Gated, FinalLoad, vars
<1>3. CASE RejectApplication(i, u)
  <2>1. currentStage'[i] = currentStage[i] /\ state'[i] = "rejected"
    BY <1>3, StageOf, StateOf DEF ReviewInv, RejectApplication, Reject, CloseAs
  <2> QED BY <2>1 DEF Gated
<1>4. CASE AskApplicant(i, u)
  <2>1. currentStage'[i] = currentStage[i] /\ state'[i] = "info_requested"
    BY <1>4, StageOf, StateOf DEF ReviewInv, AskApplicant, RequestInfo
  <2> QED BY <2>1 DEF Gated
<1>5. CASE NoHook(i, u)
  BY <1>5, NoHookGated
<1> QED BY <1>1, <1>2, <1>3, <1>4, <1>5 DEF Reviewing

LEMMA SubmitGated ==
  ASSUME ReviewInv, NEW r \in Requests, Submit(r), NEW i \in Items, i = request[r].item
  PROVE  Gated(i)
<1>1. PICK s \in Stages : IsFirst(s) /\ currentStage' = [currentStage EXCEPT ![i] = s]
  BY DEF Submit, Start, EnterStage
<1>2. state'[i] = "in_progress"
  BY StateOf DEF ReviewInv, Submit, Start
<1>3. currentStage'[i] = s
  BY <1>1, StageOf
<1> QED BY <1>1, <1>2, <1>3 DEF Gated

LEMMA FinalCommitGated ==
  ASSUME ReviewInv, NEW r \in Requests, FinalCommit(r), NEW i \in Items, i = request[r].item
  PROVE  Gated(i)
<1>1. PICK p \in InFlight : p = request[r] /\ Holds(p)
  BY RequestType DEF ReviewInv, FinalCommit, Holds
<1>2. Due(p)
  BY <1>1 DEF ReviewInv, InFlightOK
<1>3. currentStage[i] \in Stages /\ WorkflowCanAdvance(i) /\ IsFinal(currentStage[i])
  BY <1>1, <1>2, StageOf DEF Due, RequireStageActor
<1>4. currentStage'[i] = currentStage[i]
  BY DEF FinalCommit
<1> QED BY <1>3, <1>4 DEF Gated

LEMMA AllGated ==
  ASSUME ReviewInv, [ReviewNext]_rvars, NEW i \in Items
  PROVE  Gated(i)
<1>1. CASE state'[i] = state[i] /\ currentStage'[i] = currentStage[i]
  BY <1>1 DEF Gated
<1>2. ASSUME NEW j \in Items, NEW u \in Users, Reviewing(j, u) PROVE Gated(i)
  <2>1. CASE j = i
    BY <1>2, <2>1, ReviewingGated
  <2>2. CASE j # i
    <3>1. Step(j, u) \/ UNCHANGED vars
      BY <1>2 DEF Reviewing, AdvanceStage, FinalLoad, RejectApplication, AskApplicant, NoHook, Step
    <3> QED BY <2>2, <3>1, EngineKeeps DEF ReviewInv, vars, Gated
  <2> QED BY <2>1, <2>2
<1>3. ASSUME NEW r \in Requests, Submit(r) \/ FinalCommit(r) PROVE Gated(i)
  <2>1. CASE i = request[r].item
    BY <1>3, <2>1, SubmitGated, FinalCommitGated
  <2>2. CASE i # request[r].item
    <3>1. state'[i] = state[i]
      BY <1>3, <2>2, StateOf DEF ReviewInv, Submit, Start, FinalCommit, CloseAs
    <3>2. currentStage'[i] = currentStage[i]
      BY <1>3, <2>2, StageOf DEF Submit, Start, EnterStage, FinalCommit
    <3> QED BY <3>1, <3>2 DEF Gated
  <2> QED BY <2>1, <2>2
<1>4. CASE UNCHANGED vars
  BY <1>4 DEF vars, Gated
<1>5. ReviewNext => \/ \E j \in Items, u \in Users : Reviewing(j, u)
                    \/ \E r \in Requests : Submit(r) \/ FinalCommit(r)
                    \/ UNCHANGED vars
  BY DEF ReviewNext, Applying, Create, Upload, SubmitLoad, AssessLoad, Working, AssessSave, AssessConditions,
         AssessUnit, FinalDecide, Drop
<1> QED BY <1>2, <1>3, <1>4, <1>5 DEF rvars

LEMMA AssessedPastStep ==
  ASSUME ReviewInv, AssessedPast, ReturnsGoBack, [ReviewNext]_rvars
  PROVE  AssessedPast'
<1> SUFFICES ASSUME NEW i \in Items, NEW s \in AssessmentStages \cap Stages,
                    \/ state'[i] = "approved"
                    \/ currentStage'[i] # NoStage /\ Order[s] < Order[currentStage'[i]]
             PROVE  assess'[i] # NoAssessment
  BY DEF AssessedPast
<1>1. assess[i] # NoAssessment => assess'[i] # NoAssessment
  BY ReviewStep DEF AssessGrows
<1>2. currentStage[i] \in Stages => Order[currentStage[i]] \in Nat /\ Order[s] \in Nat
  BY StagesAssumption
<1>3. CASE state'[i] = state[i] /\ currentStage'[i] = currentStage[i]
  BY <1>1, <1>3 DEF AssessedPast
<1>4. CASE /\ currentStage[i] \in Stages /\ WorkflowCanAdvance(i)
           /\ \/ IsNext(currentStage[i], currentStage'[i]) /\ currentStage'[i] \in Stages /\ state'[i] # "approved"
              \/ IsFinal(currentStage[i]) /\ currentStage'[i] = currentStage[i]
  <2>1. CASE currentStage[i] = s
    BY <1>1, <1>4, <2>1 DEF WorkflowCanAdvance
  <2>2. CASE Order[s] < Order[currentStage[i]]
    BY <1>1, <1>4, <2>2, StagesAssumption DEF AssessedPast
  <2>3. CASE Order[currentStage[i]] < Order[s]
    <3>1. ~IsFinal(currentStage[i])
      BY <1>2, <1>4, <2>3 DEF IsFinal
    <3>2. Order[currentStage'[i]] <= Order[s]
      BY <1>4, <2>3, <3>1 DEF IsNext
    <3>3. Order[currentStage'[i]] \in Nat /\ Order[s] \in Nat
      BY <1>4, <3>1, StagesAssumption
    <3> QED BY <1>4, <3>1, <3>2, <3>3
  <2> QED BY <1>4, <2>1, <2>2, <2>3, StageOrder
<1>5. CASE /\ state'[i] # "approved"
           /\ \/ currentStage'[i] = currentStage[i]
              \/ currentStage'[i] \in Stages /\ IsFirst(currentStage'[i])
              \/ currentStage[i] \in Stages /\ currentStage'[i] \in CanReturnTo[currentStage[i]]
  <2>1. CASE currentStage'[i] = currentStage[i]
    BY <1>1, <1>5, <2>1 DEF AssessedPast
  <2>2. CASE currentStage'[i] \in Stages /\ IsFirst(currentStage'[i])
    <3>1. Order[currentStage'[i]] <= Order[s] /\ Order[currentStage'[i]] \in Nat /\ Order[s] \in Nat
      BY <2>2, StagesAssumption DEF IsFirst
    <3> QED BY <1>5, <3>1
  <2>3. CASE currentStage[i] \in Stages /\ currentStage'[i] \in CanReturnTo[currentStage[i]]
    <3>1. currentStage'[i] \in Stages
      BY <2>3, StagesAssumption
    <3>2. Order[currentStage'[i]] < Order[currentStage[i]]
      BY <2>3 DEF ReturnsGoBack
    <3>3. Order[s] < Order[currentStage[i]]
      BY <1>5, <2>3, <3>1, <3>2, StagesAssumption
    <3> QED BY <1>1, <2>3, <3>3, StagesAssumption DEF AssessedPast
  <2> QED BY <1>5, <2>1, <2>2, <2>3
<1> QED BY <1>3, <1>4, <1>5, AllGated DEF Gated

\* Where the workflow has an assessment stage and its returns go back, as bootstrap_workflows sets it
\* up, no licence is issued for an application that was never assessed (workflow_can_advance).
THEOREM AssessedFirst ==
  ReturnsGoBack /\ AssessmentStages \cap Stages # {} => (ReviewSpec => []AssessedBeforeGranted)
<1> SUFFICES ASSUME ReturnsGoBack, AssessmentStages \cap Stages # {}
             PROVE  ReviewSpec => []AssessedBeforeGranted
  OBVIOUS
<1>1. ReviewInv /\ AssessedPast /\ [ReviewNext]_rvars => AssessedPast'
  BY AssessedPastStep
<1>2. ReviewInv /\ AssessedPast => AssessedBeforeGranted
  BY DEF ReviewInv, Agree, AssessedPast, AssessedBeforeGranted
<1> QED BY <1>1, <1>2, ReviewStart, ReviewInvariant, PTL DEF ReviewSpec

-----------------------------------------------------------------------------
(***************************************************************************)
(* The register under the approvals                                        *)
(***************************************************************************)
LEMMA RegisterStart == ReviewInit => Register!Init
<1> SUFFICES ASSUME ReviewInit PROVE Register!Init
  OBVIOUS
<1>1. << >> = [j \in {} |-> Register!Idle]
  OBVIOUS
<1> QED BY <1>1 DEF ReviewInit, Register!Init

LEMMA RegisterMoves ==
  ASSUME ReviewInv, [ReviewNext]_rvars
  PROVE  [Register!Next]_(Register!vars)
<1>1. ASSUME NEW i \in Items, Register!IssueStep(i) PROVE Register!Next
  BY <1>1 DEF Register!Next, Register!Issuing, Register!taskVars
<1>2. CASE UNCHANGED register
  BY <1>2 DEF register, Register!vars, Register!register, Register!numbering, Register!taskVars
<1>3. ASSUME NEW r \in Requests, FinalDecide(r) PROVE Register!Next
  <2>1. PICK p \in InFlight : p = request[r] /\ p.kind = "final" /\ Holds(p)
    BY <1>3, RequestType DEF ReviewInv, FinalDecide, Holds
  <2>2. PICK i \in Items : i = p.item
    BY <2>1, InFlightFields
  <2>3. state[i] = "in_progress"
    BY <2>1, <2>2 DEF ReviewInv, InFlightOK, Due, MayApprove
  <2>4. Register!Renewable(i)
    BY <2>3, OpenUnderReview DEF IsOpen
  <2>5. Register!IssueBegin(i)
    BY <1>3, <2>1, <2>2 DEF FinalDecide
  <2> QED BY <1>1, <2>4, <2>5 DEF Register!IssueStep
<1>4. ASSUME NEW r \in Requests, FinalCommit(r) PROVE Register!Next
  <2>1. PICK p \in Committing : p = request[r]
    BY <1>4, RequestType, InFlightFields DEF ReviewInv, FinalCommit
  <2>2. PICK i \in Items : i = p.item
    BY DEF Committing
  <2>3. PICK g \in Granted : g = GrantFor(p)
    BY GrantIsGranted
  <2>4. Register!IssueCommit(i, g, 1)
    BY <1>4, <2>1, <2>2, <2>3 DEF FinalCommit, IssueLicence
  <2> QED BY <1>1, <2>4 DEF Register!IssueStep
<1>5. ASSUME NEW r \in Requests, Drop(r) PROVE UNCHANGED register \/ Register!Next
  <2>1. CASE request[r].kind = "deciding"
    <3>1. PICK i \in Items : i = request[r].item
      BY <2>1, RequestType, InFlightFields DEF ReviewInv
    <3>2. Register!IssueAbort(i)
      BY <1>5, <2>1, <3>1 DEF Drop
    <3> QED BY <1>1, <3>2 DEF Register!IssueStep
  <2>2. CASE request[r].kind # "deciding"
    BY <1>5, <2>2 DEF Drop
  <2> QED BY <2>1, <2>2
<1>6. ReviewNext => \/ UNCHANGED register
                    \/ \E r \in Requests : FinalDecide(r) \/ FinalCommit(r) \/ Drop(r)
  BY DEF ReviewNext, Applying, Create, Upload, SubmitLoad, Reviewing, AdvanceStage, FinalLoad, RejectApplication,
         AskApplicant, NoHook, AssessLoad, Working, Submit, AssessSave, AssessConditions, AssessUnit
<1> QED BY <1>2, <1>3, <1>4, <1>5, <1>6 DEF rvars

\* What an approval does to the register, the register allows (Licence.issue): it issues once, for
\* an application that has no licence, and renews only a licence that exists.
THEOREM ApprovalsRunTheRegister == ReviewSpec => RegisterSteps
BY RegisterStart, RegisterMoves, ReviewInvariant, PTL DEF ReviewSpec, RegisterSteps, Register!Spec

-----------------------------------------------------------------------------
(***************************************************************************)
(* The review and the register together                                    *)
(***************************************************************************)
(* What LicenceRegisterProofs proves of any register holds of this one.    *)
Proven ==
  INSTANCE LicenceRegisterProofs
    WITH Apps <- Items, NoApp <- NoItem, Grants <- Granted, Terms <- {1},
         LeadTimes <- << >>, Jobs <- {}, MaxDay <- 0, MaxCrashes <- 0,
         day <- 0, job <- << >>, alerts <- {}, crashes <- 0

\* The constants of the review meet what LicenceRegister asks of its own.
LEMMA RegisterAssumptions == Proven!RegisterAssumption /\ Proven!NoLicenceAssumption
<1>1. << >> \in Seq(Nat \ {0})
  OBVIOUS
<1>2. Proven!RegisterAssumption
  BY <1>1, ReviewAssumption DEF Proven!RegisterAssumption
<1>3. Proven!NoLicenceAssumption
  BY ReviewAssumption
     DEF Proven!NoLicenceAssumption, Proven!Licence, Proven!LicenceStatus, Proven!Leads,
         Register!Licence, Register!LicenceStatus, Register!Leads
<1> QED BY <1>2, <1>3

\* The register of the review is a register of LicenceRegister, whose task has no deliveries here.
LEMMA RegisterProven == ReviewSpec => Proven!Spec
<1>1. Register!Init => Proven!Init
  BY DEF Register!Init, Proven!Init, Register!Number!Init, Proven!Number!Init, Register!Idle, Proven!Idle
<1>0. Proven!Cardinality(Items) = Register!Cardinality(Items)
  BY DEF Proven!Cardinality, Register!Cardinality
<1>2. ASSUME NEW i \in Items, Register!IssueStep(i) PROVE Proven!IssueStep(i)
  <2>1. CASE Register!Renewable(i) /\ Register!IssueBegin(i)
    BY <1>0, <2>1 DEF Proven!IssueStep, Register!Renewable, Proven!Renewable, Register!IssueBegin, Proven!IssueBegin,
                Register!Issued, Proven!Issued, Register!Number!Draw, Proven!Number!Draw,
                Register!Number!RowFree, Proven!Number!RowFree
  <2>2. ASSUME NEW grant \in Granted, NEW term \in {1}, Register!IssueCommit(i, grant, term)
        PROVE  Proven!IssueCommit(i, grant, term)
    BY <2>2 DEF Register!IssueCommit, Proven!IssueCommit, Register!FlagWell, Proven!FlagWell,
                Register!Number!Save, Proven!Number!Save, Register!Number!Release, Proven!Number!Release
  <2>3. CASE Register!IssueAbort(i)
    BY <2>3 DEF Proven!IssueStep, Register!IssueAbort, Proven!IssueAbort, Register!Number!Fail,
                Proven!Number!Fail, Register!Number!Release, Proven!Number!Release
  <2> QED BY <1>2, <2>1, <2>2, <2>3 DEF Register!IssueStep, Proven!IssueStep
<1>3. ASSUME Register!Issuing PROVE Proven!Next
  BY <1>2, <1>3 DEF Register!Issuing, Proven!Issuing, Register!taskVars, Proven!taskVars, Proven!Next
<1>4. ASSUME Register!Task \/ Register!Midnight PROVE FALSE
  BY <1>4 DEF Register!Task, Register!Midnight
<1>5. ASSUME UNCHANGED Register!vars PROVE UNCHANGED Proven!vars
  BY <1>5 DEF Register!vars, Proven!vars, Register!register, Proven!register, Register!numbering,
              Proven!numbering, Register!taskVars, Proven!taskVars
<1>6. [Register!Next]_(Register!vars) => [Proven!Next]_(Proven!vars)
  BY <1>3, <1>4, <1>5 DEF Register!Next
<1> QED BY <1>1, <1>6, ApprovalsRunTheRegister, PTL DEF RegisterSteps, Register!Spec, Proven!Spec

\* The numbers of the licences that reviewers grant are 1 to n, each used once, however many final
\* approvals run at once, fail or are cut short (Sequence.next under engine.approve).
THEOREM GrantsAreNumbered == ReviewSpec => []Register!NumberedInOrder
<1>1. Proven!Spec => []Proven!NumberedInOrder
  BY RegisterAssumptions, Proven!LicencesNumberedInOrder, PTL
<1>2. Proven!NumberedInOrder <=> Register!NumberedInOrder
  BY DEF Proven!NumberedInOrder, Register!NumberedInOrder, Proven!Number!NumbersDiffer,
         Register!Number!NumbersDiffer, Proven!Number!GapFree, Register!Number!GapFree,
         Proven!Issued, Register!Issued
<1> QED BY <1>1, <1>2, RegisterProven, PTL

\* A well shows the number of the licence granted for it last, in whatever order the approvals for
\* one well were begun and committed (Licence.issue, in the transaction of the final approval).
THEOREM WellsShowGrants == ReviewSpec => []Register!WellShowsLatest
<1>1. Proven!Spec => []Proven!WellShowsLatest
  BY RegisterAssumptions, Proven!WellsShowLatest, PTL
<1>2. Proven!WellShowsLatest <=> Register!WellShowsLatest
  BY DEF Proven!WellShowsLatest, Register!WellShowsLatest, Proven!Issued, Register!Issued
<1> QED BY <1>1, <1>2, RegisterProven, PTL

GrantsAreSignedOff ==
  \A i \in Items : licence[i] # NoLicence => \A s \in Stages : SignedOffAt(i, s)

\* Through the pages of the licence module, too, a review is the case that ReviewCase describes:
\* decided once, its log only grows (WorkflowInstance, WorkflowAction).
THEOREM ApplicationsAreCases == ReviewSpec => IsAReviewCase
<1>1. ReviewSpec => Spec
  BY PagesRunTheEngine DEF EngineSteps, Spec
<1> QED BY <1>1, EngineIsAReviewCase, PTL

\* Behind every licence stands an approval of each stage of its workflow, by somebody entitled to
\* it, that no return has taken back since: the register issues nothing on the word of a page
\* (engine.approve, services.on_workflow_approved, Licence.issue).
THEOREM NothingGrantedUnreviewed == ReturnsGoBack => (ReviewSpec => []GrantsAreSignedOff)
<1> SUFFICES ASSUME ReturnsGoBack PROVE ReviewSpec => []GrantsAreSignedOff
  OBVIOUS
<1>1. Spec => []NoStageSkipped
  BY NoStageIsSkipped
<1>2. ReviewSpec => Spec
  BY PagesRunTheEngine DEF EngineSteps, Spec
<1>3. ReviewInv /\ NoStageSkipped => GrantsAreSignedOff
  BY DEF ReviewInv, Agree, NoStageSkipped, GrantsAreSignedOff
<1> QED BY <1>1, <1>2, <1>3, ReviewInvariant, PTL
=============================================================================
