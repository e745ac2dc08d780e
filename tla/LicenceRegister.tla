-------------------------- MODULE LicenceRegister --------------------------
(***************************************************************************)
(* The register of issued licences: Licence.issue with the renewal of the  *)
(* licence it supersedes (apps/lic/models.py), and the daily task          *)
(* raise_expiry_alerts (apps/lic/tasks.py).                                *)
(*                                                                         *)
(* A licence is issued inside the transaction of the final approval, so    *)
(* issuing is two steps: the number is drawn, with the sequence row        *)
(* locked, and everything is committed.  The task has no transaction: it   *)
(* loads its queryset once, then works through objects that age meanwhile, *)
(* one save or one alert at a time.  Celery acknowledges it late, so it    *)
(* may be delivered again and two of it may run at once.                   *)
(***************************************************************************)
EXTENDS Integers, Sequences, FiniteSets

CONSTANTS
  Apps, NoApp,     \* applications; a licence is named by its application
  RenewalOf,       \* LicenceApplication.renewal_of
  WellOf,          \* LicenceApplication.well
  Wells, NoWell,
  Grants,          \* what a licence grants: volume, unit, conditions
  Terms,           \* days a licence may run
  LeadTimes,       \* LICENCE_EXPIRY_WARNING_DAYS, as a sequence
  Jobs,            \* concurrent deliveries of the task
  NoLicence,
  MaxDay,          \* bound: the last day
  MaxCrashes       \* bound: worker crashes

ASSUME RegisterAssumption ==
  /\ NoApp \notin Apps /\ NoWell \notin Wells
  /\ RenewalOf \in [Apps -> Apps \cup {NoApp}]
  /\ WellOf \in [Apps -> Wells \cup {NoWell}]
  /\ Terms \subseteq Nat \ {0}
  /\ LeadTimes \in Seq(Nat \ {0})
  /\ MaxDay \in Nat /\ MaxCrashes \in Nat

VARIABLES
  day,         \* date.today()
  licence,     \* the Licence row of each application
  value, holder, drawn, number,  \* the "licence" row of Sequence
  wellShows,   \* Well.licence_number, 0 while is_licensed is not set
  job,         \* the deliveries of raise_expiry_alerts
  alerts,      \* the alerts sent so far
  crashes

numbering == <<value, holder, drawn, number>>
register  == <<licence, numbering, wellShows>>
taskVars  == <<day, job, alerts, crashes>>
vars      == <<register, taskVars>>

Number == INSTANCE NumberSequence
            WITH Callers <- Apps, Autocommit <- {}, NoCaller <- NoApp,
                 MaxValue <- Cardinality(Apps)

LicenceStatus == {"active", "expired", "renewed"}

Leads == {LeadTimes[k] : k \in DOMAIN LeadTimes}

(* An alert is for a lead time, or for the expiry itself.                  *)
OnExpiry == 0

Licence ==
  [status : LicenceStatus, expires : Nat, grant : Grants,
   warned : SUBSET Leads,          \* expiry_alerts_sent
   expiredAlert : BOOLEAN]         \* expired_alert_sent_at is set

ASSUME NoLicenceAssumption == NoLicence \notin Licence

Issued(i) == licence[i] # NoLicence

(* Fault: the queryset is not restricted to active licences.               *)
AnyStatus(i) == Issued(i)

Active(i) == Issued(i) /\ licence[i].status = "active"

-----------------------------------------------------------------------------
(* Issuing, in the transaction of the final approval.                      *)

(* Sequence.next for the number of the licence.                            *)
IssueBegin(i) ==
  /\ ~Issued(i)
  /\ Number!Draw(i)
  /\ UNCHANGED <<licence, wellShows>>

(* Fault: the well keeps the licence it had.                               *)
FlagNewWell(i) ==
  wellShows' = IF WellOf[i] # NoWell /\ wellShows[WellOf[i]] = 0
               THEN [wellShows EXCEPT ![WellOf[i]] = drawn[i]] ELSE wellShows

FlagWell(i) ==
  wellShows' = IF WellOf[i] = NoWell THEN wellShows
               ELSE [wellShows EXCEPT ![WellOf[i]] = drawn[i]]

(* Fault: the licence keeps no number.                                     *)
IssueUnnumbered(i, grant, term) ==
  /\ drawn[i] # 0
  /\ licence' = [licence EXCEPT ![i] =
       [status |-> "active", expires |-> day + term, grant |-> grant,
        warned |-> {}, expiredAlert |-> FALSE]]
  /\ UNCHANGED <<value, number, wellShows>>
  /\ holder' = NoApp
  /\ drawn' = [drawn EXCEPT ![i] = 0]

(* on_workflow_approved marks the licence that this one renews, whatever   *)
(* became of it in the meantime.                                           *)
IssueCommit(i, grant, term) ==
  /\ Number!Save(i)
  /\ licence' =
       [k \in Apps |->
          CASE k = i -> [status |-> "active", expires |-> day + term, grant |-> grant,
                         warned |-> {}, expiredAlert |-> FALSE]
            [] k # i /\ k = RenewalOf[i] -> [licence[k] EXCEPT !.status = "renewed"]
            [] OTHER -> licence[k]]
  /\ FlagWell(i)

IssueAbort(i) == Number!Fail(i) /\ UNCHANGED <<licence, wellShows>>

(* Who is being licensed and when is the business of LicenceReview; a      *)
(* renewal names a licence that exists.                                    *)
Renewable(i) == RenewalOf[i] # NoApp => Issued(RenewalOf[i])

IssueStep(i) ==
  \/ Renewable(i) /\ IssueBegin(i)
  \/ \E grant \in Grants, term \in Terms : IssueCommit(i, grant, term)
  \/ IssueAbort(i)

-----------------------------------------------------------------------------
(* raise_expiry_alerts.  Loop k of a delivery is for the k-th lead time;   *)
(* the loop after the last is the one for expired licences.                *)
ExpiryLoop == Len(LeadTimes) + 1

Idle == [loop |-> 0, today |-> 0, todo |-> {}, half |-> NoApp]

Due(k, today) ==
  {i \in Apps :
     /\ Active(i)
     /\ IF k = ExpiryLoop
        THEN licence[i].expires < today /\ ~licence[i].expiredAlert
        ELSE /\ licence[i].expires <= today + LeadTimes[k]
             /\ licence[i].expires > today
             /\ LeadTimes[k] \notin licence[i].warned}

(* The queryset is evaluated when its loop begins: each object carries the *)
(* status and the expiry_alerts_sent it had then.                          *)
Loop(k, today) ==
  [loop |-> k, today |-> today, half |-> NoApp,
   todo |-> {[app |-> i, warned |-> licence[i].warned, status |-> licence[i].status] :
               i \in Due(k, today)}]

(* Beat is due every day; a delivery that was not acknowledged comes again.*)
JobStart(j) ==
  /\ job[j].loop = 0
  /\ job' = [job EXCEPT ![j] = Loop(1, day)]
  /\ UNCHANGED <<register, alerts>>

JobNextLoop(j) ==
  /\ job[j].loop # 0 /\ job[j].todo = {}
  /\ job' = [job EXCEPT ![j] = IF @.loop = ExpiryLoop THEN Idle
                               ELSE Loop(@.loop + 1, @.today)]
  /\ UNCHANGED <<register, alerts>>

(* Each object takes two steps; half names the one that has taken its      *)
(* first.                                                                  *)
First(j, x) ==
  /\ job[j].half = NoApp
  /\ job' = [job EXCEPT ![j].half = x.app]

Second(j, x) ==
  /\ job[j].half = x.app
  /\ job' = [job EXCEPT ![j].half = NoApp, ![j].todo = @ \ {x}]

SendAlert(x, what) ==
  /\ alerts' = alerts \cup {<<x.app, what>>}
  /\ UNCHANGED register

SaveWarned(x, lead) ==
  /\ licence' = [licence EXCEPT ![x.app].warned = x.warned \cup {lead}]
  /\ UNCHANGED <<numbering, wellShows, alerts>>

SaveExpired(x) ==
  /\ licence' = [licence EXCEPT ![x.app] =
                   [@ EXCEPT !.status = "expired", !.expiredAlert = TRUE]]
  /\ UNCHANGED <<numbering, wellShows, alerts>>

(* Fault: the lead time is saved as warned before the alert goes out.      *)
SaveThenWarn(j, x) ==
  /\ job[j].loop \in DOMAIN LeadTimes
  /\ \/ First(j, x) /\ SaveWarned(x, LeadTimes[job[j].loop])
     \/ Second(j, x) /\ SendAlert(x, LeadTimes[job[j].loop])

(* A warning is sent, then saved.                                          *)
Warn(j, x) ==
  /\ job[j].loop \in DOMAIN LeadTimes
  /\ \/ First(j, x) /\ SendAlert(x, LeadTimes[job[j].loop])
     \/ Second(j, x) /\ SaveWarned(x, LeadTimes[job[j].loop])

(* Fault: the alert that a licence has expired, without the status.        *)
AlertOnly(j, x) ==
  /\ job[j].loop = ExpiryLoop
  /\ \/ First(j, x) /\ SendAlert(x, OnExpiry)
     \/ Second(j, x) /\ UNCHANGED <<register, alerts>>

(* An expiry is saved, then sent.                                          *)
Expire(j, x) ==
  /\ job[j].loop = ExpiryLoop
  /\ \/ First(j, x) /\ SaveExpired(x)
     \/ Second(j, x) /\ SendAlert(x, OnExpiry)

JobStep(j) ==
  /\ \/ JobStart(j)
     \/ JobNextLoop(j)
     \/ \E x \in job[j].todo : Warn(j, x) \/ Expire(j, x)
  /\ UNCHANGED <<day, crashes>>

JobCrash(j) ==
  /\ job[j].loop # 0
  /\ crashes < MaxCrashes
  /\ crashes' = crashes + 1
  /\ job' = [job EXCEPT ![j] = Idle]
  /\ UNCHANGED <<register, day, alerts>>

Midnight ==
  /\ day < MaxDay
  /\ day' = day + 1
  /\ UNCHANGED <<register, job, alerts, crashes>>

-----------------------------------------------------------------------------
Init ==
  /\ day = 0
  /\ licence = [i \in Apps |-> NoLicence]
  /\ Number!Init
  /\ wellShows = [w \in Wells |-> 0]
  /\ job = [j \in Jobs |-> Idle]
  /\ alerts = {}
  /\ crashes = 0

Issuing == (\E i \in Apps : IssueStep(i)) /\ UNCHANGED taskVars
Task    == \E j \in Jobs : JobStep(j) \/ JobCrash(j)

Next == Issuing \/ Task \/ Midnight

Spec == Init /\ [][Next]_vars

(* Beat keeps delivering the task and a worker that has it keeps going;    *)
(* nothing obliges anybody to issue licences, or the last day to come.     *)
FairSpec == Spec /\ \A j \in Jobs : WF_vars(JobStep(j))

-----------------------------------------------------------------------------
(* Properties.                                                             *)

TypeOK ==
  /\ day \in Nat /\ crashes \in Nat
  /\ licence \in [Apps -> Licence \cup {NoLicence}]
  /\ Number!TypeOK
  /\ wellShows \in [Wells -> Nat]
  /\ alerts \subseteq Apps \X (Leads \cup {OnExpiry})
  /\ \A j \in Jobs :
       /\ job[j].loop \in 0 .. ExpiryLoop
       /\ job[j].todo \subseteq [app : Apps, warned : SUBSET Leads, status : LicenceStatus]
       /\ job[j].half \in {NoApp} \cup {x.app : x \in job[j].todo}

(* A licence that is on record as warned at a lead time really was, even   *)
(* though deliveries overlap, save the warnings they loaded and crash half *)
(* way.                                                                    *)
WarnedMeansAlerted ==
  \A i \in Apps : Issued(i) => \A d \in licence[i].warned : <<i, d>> \in alerts

(* "Renewed (superseded)" is for good, but for a delivery that had the     *)
(* licence on its list while it was active: its save has no look at what   *)
(* became of the licence since.  No delivery that begins after the renewal *)
(* takes it back.                                                          *)
Renewed(i) == Issued(i) /\ licence[i].status = "renewed"

ListedActive(i) ==
  \E j \in Jobs : \E x \in job[j].todo :
    job[j].loop = ExpiryLoop /\ x.app = i /\ x.status = "active"

RenewalLasts ==
  [][\A i \in Apps : Renewed(i) /\ ~Renewed(i)' => ListedActive(i)]_vars

(* No licence is declared expired on or before its last day, and nobody is *)
(* told so: not even by a delivery that straddles midnight.                *)
NeverExpiredEarly ==
  \A i \in Apps :
    /\ Issued(i)
    /\ licence[i].status = "expired" \/ <<i, OnExpiry>> \in alerts
    => licence[i].expires < day

(* The number shown at a well is that of the last licence issued for it.   *)
(* It is the lock on the sequence row, taken before the well is written,   *)
(* that puts two approvals for one well in the order of their numbers.     *)
WellShowsLatest ==
  \A i \in Apps :
    Issued(i) /\ WellOf[i] # NoWell =>
      /\ number[i] <= wellShows[WellOf[i]]
      /\ \E k \in Apps : WellOf[k] = WellOf[i] /\ number[k] = wellShows[WellOf[i]]

(* A licence whose last day is over does not stay active for ever, as long *)
(* as the task is delivered and its worker is not killed without end.      *)
Lapses ==
  \A i \in Apps :
    (Active(i) /\ licence[i].expires < day) ~> ~Active(i)

(* "Gap-free yearly sequences": whichever approvals overlap or fail, no    *)
(* two licences have one number and none is left out.                      *)
NumberedInOrder ==
  /\ Number!NumbersDiffer
  /\ Number!GapFree
  /\ \A i \in Apps : Issued(i) <=> number[i] # 0

(* raise_expiry_alerts, "alert applicant and staff ahead of expiry and on  *)
(* expiry": a licence with the time of its expiry alert has been alerted.  *)
ExpiredMeansAlerted ==
  (\A j \in Jobs : job[j].loop = 0) =>
    \A i \in Apps :
      Issued(i) /\ licence[i].expiredAlert => <<i, OnExpiry>> \in alerts
=============================================================================
