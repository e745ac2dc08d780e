--------------------------- MODULE LicenceReview ---------------------------
(***************************************************************************)
(* A licence application under review: the workflow engine with its        *)
(* subject, lic.LicenceApplication, and the views that work on both        *)
(* (apps/lic/views.py, apps/lic/services.py, workflow/views.act).          *)
(*                                                                         *)
(* A view loads its objects when the request begins and writes them later, *)
(* with no row locked in between, except that every engine function locks  *)
(* the workflow instance.  A request that spans several steps is therefore *)
(* in flight in "request", with the objects it has loaded; one that is     *)
(* refused, fails or loses its worker is dropped.                          *)
(*                                                                         *)
(* The day stands still: licences run and lapse in LicenceRegister, whose  *)
(* issuing steps are used here.                                            *)
(***************************************************************************)
EXTENDS WorkflowEngine

CONSTANTS
  Applicant,          \* [Items -> Users], applicant_user
  AssessmentStages,   \* ASSESSMENT_STAGE_CODES
  Forms,              \* assessment forms: [wmu, volume, conditions]
  Requested,          \* daily_volume_requested_m3
  Typed,              \* volumes an approver may type at the last stage
  NoWmu, NoAssessment, NoVolume,
  RenewalOf, NoItem, WellOf, Wells, NoWell, NoLicence,
  Requests,           \* web workers at work on a multi-step request
  Scans,              \* the outcomes of malware scans
  WorkersDie          \* whether a view may stop between two saves

VARIABLES
  app,       \* the LicenceApplication rows
  docs,      \* scan_status of the ApplicationDocument rows of each
  assess,    \* the TechnicalAssessment row of each
  request,   \* the requests in flight
  licence, value, holder, drawn, number, wellShows  \* see LicenceRegister

subjects == <<app, docs, assess>>
register == <<licence, value, holder, drawn, number, wellShows>>
rvars    == <<vars, subjects, request, register>>

AppUnits == {NoWmu} \cup {f.wmu : f \in Forms}
Volume(f) == IF f.volume = NoVolume THEN Requested ELSE f.volume
Volumes == {Requested} \cup {Volume(f) : f \in Forms}
Granted ==
  [volume : Volumes, wmu : AppUnits,
   conditions : {"none"} \cup {f.conditions : f \in Forms}]

(* A TechnicalAssessment row.                                              *)
Assessment ==
  [wmu : AppUnits, volume : {f.volume : f \in Forms},
   conditions : {"none"} \cup {f.conditions : f \in Forms}]

Register ==
  INSTANCE LicenceRegister
    WITH Apps <- Items, NoApp <- NoItem, Grants <- Granted, Terms <- {1},
         LeadTimes <- << >>, Jobs <- {}, MaxDay <- 0, MaxCrashes <- 0,
         day <- 0, job <- << >>, alerts <- {}, crashes <- 0

ASSUME ReviewAssumption ==
  /\ Applicant \in [Items -> Users]
  /\ NoItem \notin Items /\ RenewalOf \in [Items -> Items \cup {NoItem}]
  /\ NoWell \notin Wells /\ WellOf \in [Items -> Wells \cup {NoWell}]
  /\ Forms \subseteq Assessment /\ NoAssessment \notin Assessment
  /\ NoLicence \notin Register!Licence

ApplicationStatus ==
  {"draft", "under_review", "info_requested", "granted", "refused"}

NoRequest == [kind |-> "none"]

Absent == [status |-> "absent", wmu |-> NoWmu, granted |-> NoVolume]

-----------------------------------------------------------------------------
(* Locks and requests.                                                     *)

(* A final approval in flight holds the row of its workflow instance ...   *)
Locked(i) ==
  \E r \in Requests : request[r].kind \in {"final", "deciding"} /\ request[r].item = i

(* ... and, once the hook has saved it, the row of the application.        *)
AppLocked(i) ==
  \E r \in Requests : request[r].kind = "deciding" /\ request[r].item = i

Begin(r, q) == request[r] = NoRequest /\ request' = [request EXCEPT ![r] = q]
Become(r, q) == request' = [request EXCEPT ![r] = q]
Finish(r) == Become(r, NoRequest)

SetStatus(i, s) == app' = [app EXCEPT ![i].status = s]

-----------------------------------------------------------------------------
(* The applicant's views.                                                  *)

(* application_create; the reference number is in NumberSequence. The form *)
(* offers licences that exist for renewal.                                 *)
Create(i) ==
  /\ app[i].status = "absent"
  /\ Register!Renewable(i)
  /\ SetStatus(i, "draft")
  /\ UNCHANGED <<vars, docs, assess, request, register>>

(* application_upload and attach_document: no look at the status, and the  *)
(* row of an infected file is kept when its file is deleted.               *)
Upload(i, scan) ==
  /\ app[i].status # "absent"
  /\ scan \notin docs[i]
  /\ docs' = [docs EXCEPT ![i] = @ \cup {scan}]
  /\ UNCHANGED <<vars, app, assess, request, register>>

(* application_submit loads the application, and submit_application looks  *)
(* at the status that was loaded: only a draft gets further.               *)
SubmitLoad(r, i) ==
  /\ app[i].status = "draft"
  /\ Begin(r, [kind |-> "submit", item |-> i])
  /\ UNCHANGED <<vars, subjects, register>>

Submit(r) ==
  LET q == request[r] IN
  /\ q.kind = "submit"
  /\ docs[q.item] # {}
  /\ ~AppLocked(q.item)
  /\ SetStatus(q.item, "under_review")
  /\ Start(q.item, Applicant[q.item])
  /\ Finish(r)
  /\ UNCHANGED <<docs, assess, register>>

-----------------------------------------------------------------------------
(* The assessment view: the assessment, its conditions and the unit of the *)
(* application are three saves, the last only if the application as loaded *)
(* has another unit.                                                       *)
AssessLoad(r, i, form) ==
  /\ app[i].status # "absent"
  /\ Begin(r, [kind |-> "assess", item |-> i, app |-> app[i], form |-> form,
               isNew |-> assess[i] = NoAssessment])
  /\ UNCHANGED <<vars, subjects, register>>

(* The second of two first assessments fails on the OneToOne.              *)
AssessSave(r) ==
  LET q == request[r] IN
  /\ q.kind = "assess"
  /\ q.isNew => assess[q.item] = NoAssessment
  /\ assess' = [assess EXCEPT ![q.item] =
       [q.form EXCEPT !.conditions = IF q.isNew THEN "none" ELSE assess[q.item].conditions]]
  /\ Become(r, [q EXCEPT !.kind = "assessed"])
  /\ UNCHANGED <<vars, app, docs, register>>

AssessConditions(r) ==
  LET q == request[r] IN
  /\ q.kind = "assessed"
  /\ assess' = [assess EXCEPT ![q.item].conditions = q.form.conditions]
  /\ Become(r, [q EXCEPT !.kind = "conditioned"])
  /\ UNCHANGED <<vars, app, docs, register>>

(* Fault: app.save() without update_fields.                                *)
SaveWholeApp(q) == app' = [app EXCEPT ![q.item] = [q.app EXCEPT !.wmu = q.form.wmu]]

SaveUnit(q) == app' = [app EXCEPT ![q.item].wmu = q.form.wmu]

AssessUnit(r) ==
  LET q == request[r] IN
  /\ q.kind = "conditioned"
  /\ IF q.form.wmu = NoWmu \/ q.form.wmu = q.app.wmu THEN UNCHANGED app
     ELSE ~AppLocked(q.item) /\ SaveUnit(q)
  /\ Finish(r)
  /\ UNCHANGED <<vars, docs, assess, register>>

-----------------------------------------------------------------------------
(* The reviewers' actions.                                                 *)

(* Fault: the stage is not looked up among ASSESSMENT_STAGE_CODES.         *)
Ungated(i) == TRUE

WorkflowCanAdvance(i) ==
  currentStage[i] \in AssessmentStages => assess[i] # NoAssessment

AdvanceStage(i, u) ==
  /\ ~Locked(i)
  /\ WorkflowCanAdvance(i)
  /\ Advance(i, u)
  /\ UNCHANGED <<subjects, request, register>>

(* The final approval locks the instance, makes its checks and loads the   *)
(* application ...                                                         *)
FinalLoad(r, i, u, typed) ==
  /\ ~Locked(i)
  /\ MayApprove(i)
  /\ RequireStageActor(i, u)
  /\ IsFinal(currentStage[i])
  /\ WorkflowCanAdvance(i)
  /\ Begin(r, [kind |-> "final", item |-> i, user |-> u, app |-> app[i], typed |-> typed])
  /\ UNCHANGED <<vars, subjects, register>>

(* ... then its hook reads the assessment, saves the application (which    *)
(* locks its row) and draws the number of the licence ...                  *)
FinalDecide(r) ==
  LET q == request[r] IN
  /\ q.kind = "final"
  /\ Become(r, [kind |-> "deciding", item |-> q.item, user |-> q.user, app |-> q.app,
                typed |-> q.typed, assess |-> assess[q.item]])
  /\ Register!IssueBegin(q.item)
  /\ UNCHANGED <<vars, subjects>>

IssueLicence(i, grant) == Register!IssueCommit(i, grant, 1)

(* What is granted: act hands the engine the classification alone, so the  *)
(* volume is the assessed one, else the requested one, and the term is a   *)
(* year.  The unit is the one of the application as loaded.                *)
GrantFor(q) ==
  [volume |-> IF q.assess = NoAssessment THEN Requested ELSE Volume(q.assess),
   wmu |-> q.app.wmu,
   conditions |-> IF q.assess = NoAssessment THEN "none" ELSE q.assess.conditions]

(* Fault: the volume granted is not kept on the application.               *)
MarkGranted(q) == [q.app EXCEPT !.status = "granted"]

GrantedApp(q) ==
  [q.app EXCEPT !.status = "granted", !.granted = GrantFor(q).volume]

(* ... and everything is committed: the whole row of the application as it *)
(* was loaded, not only what the hook set.                                 *)
FinalCommit(r) ==
  LET q == request[r] IN
  /\ q.kind = "deciding"
  /\ CloseAs(q.item, "approved")
  /\ Record(q.item, "final_approve", q.user, currentStage[q.item], NoStage)
  /\ app' = [app EXCEPT ![q.item] = GrantedApp(q)]
  /\ IssueLicence(q.item, GrantFor(q))
  /\ Finish(r)
  /\ UNCHANGED <<currentStage, submitter, enteredAt, docs, assess>>

RejectApplication(i, u) ==
  /\ ~Locked(i)
  /\ Reject(i, u)
  /\ SetStatus(i, "refused")
  /\ UNCHANGED <<docs, assess, request, register>>

AskApplicant(i, u) ==
  /\ ~Locked(i)
  /\ RequestInfo(i, u)
  /\ SetStatus(i, "info_requested")
  /\ UNCHANGED <<docs, assess, request, register>>

(* The actions that have no hook leave the application alone.              *)
NoHook(i, u) ==
  /\ ~Locked(i)
  /\ \/ \E t \in Stages : ReturnTo(i, u, t)
     \/ Resubmit(i, u)
     \/ Withdraw(i, u)
     \/ Comment(i, u)
  /\ UNCHANGED <<subjects, request, register>>

-----------------------------------------------------------------------------
(* A refusal, an exception or the death of the worker: a transaction is    *)
(* rolled back, a view stops where it was.                                 *)
Drop(r) ==
  LET q == request[r] IN
  /\ q # NoRequest
  /\ q.kind \in {"assessed", "conditioned"} => WorkersDie
  /\ Finish(r)
  /\ IF q.kind = "deciding" THEN Register!IssueAbort(q.item) ELSE UNCHANGED register
  /\ UNCHANGED <<vars, subjects>>

ReviewInit ==
  /\ Init
  /\ app = [i \in Items |-> Absent]
  /\ docs = [i \in Items |-> {}]
  /\ assess = [i \in Items |-> NoAssessment]
  /\ request = [r \in Requests |-> NoRequest]
  /\ licence = [i \in Items |-> NoLicence]
  /\ Register!Number!Init
  /\ wellShows = [w \in Wells |-> 0]

Applying(i) ==
  \/ Create(i)
  \/ \E scan \in Scans : Upload(i, scan)
  \/ \E r \in Requests : SubmitLoad(r, i)

Reviewing(i, u) ==
  \/ AdvanceStage(i, u)
  \/ \E r \in Requests, typed \in Typed : FinalLoad(r, i, u, typed)
  \/ RejectApplication(i, u)
  \/ AskApplicant(i, u)
  \/ NoHook(i, u)

Working(r) ==
  \/ Submit(r)
  \/ AssessSave(r) \/ AssessConditions(r) \/ AssessUnit(r)
  \/ FinalDecide(r) \/ FinalCommit(r)
  \/ Drop(r)

ReviewNext ==
  \/ \E i \in Items : Applying(i)
  \/ \E i \in Items, u \in Users : Reviewing(i, u)
  \/ \E i \in Items, r \in Requests, form \in Forms : AssessLoad(r, i, form)
  \/ \E r \in Requests : Working(r)

ReviewSpec == ReviewInit /\ [][ReviewNext]_rvars

-----------------------------------------------------------------------------
(* Properties.                                                             *)

ReviewTypeOK ==
  /\ app \in [Items -> [status : ApplicationStatus \cup {"absent"},
                        wmu : AppUnits, granted : Volumes \cup {NoVolume}]]
  /\ docs \in [Items -> SUBSET Scans]
  /\ \A r \in Requests : request[r] # NoRequest => request[r].item \in Items

(* Whatever the pages do around it, the engine sees only engine steps: in  *)
(* particular a final approval is checked when its request begins and is   *)
(* still due when it commits.                                              *)
EngineSteps == Init /\ [][Next]_vars

(* What an approval does to the register is what the register allows: the  *)
(* refinement by which the register's properties hold of the review.       *)
RegisterSteps == Register!Spec

(* The application, the instance and the register agree on the decision:   *)
(* no page with an old copy of the application in hand undoes it or        *)
(* decides it again.                                                       *)
DecisionMirrored ==
  \A i \in Items :
    /\ state[i] = "approved" <=> app[i].status = "granted"
    /\ state[i] = "approved" <=> licence[i] # NoLicence
    /\ state[i] = "rejected" <=> app[i].status = "refused"

(* No licence is issued for an application that was never assessed: the    *)
(* item cannot get past the assessment stage without it.                   *)
AssessedBeforeGranted ==
  \A i \in Items : licence[i] # NoLicence => assess[i] # NoAssessment

(* The application goes on saying what its licence grants, whichever       *)
(* assessment is saved after the decision.                                 *)
GrantedVolumeOnRecord ==
  \A i \in Items :
    licence[i] # NoLicence => app[i].granted = licence[i].grant.volume

Quiet == \A r \in Requests : request[r] = NoRequest

(* docs/licensing-assessment.md: "Saving sets application.wmu"; the help   *)
(* text of LicenceApplication.wmu: "Set by the technical assessment".      *)
ApplicationHasAssessedUnit ==
  Quiet => \A i \in Items :
    assess[i] # NoAssessment /\ assess[i].wmu # NoWmu => app[i].wmu = assess[i].wmu

(* ... and so does the decision leave it: a unit that was saved while the  *)
(* final approval was in flight is still there when it has committed.      *)
DecisionKeepsUnit ==
  [][\A i \in Items :
       app[i].status # "granted" /\ app'[i].status = "granted" =>
         app'[i].wmu = app[i].wmu]_rvars

(* The panel asks for the "Daily volume granted" with the assessed volume  *)
(* as its default: the licence grants the volume that was typed there.     *)
GrantsTypedVolume ==
  [][\A r \in Requests :
       request[r].kind = "deciding" /\ licence' # licence =>
         licence'[request[r].item].grant.volume = request[r].typed]_rvars
=============================================================================
