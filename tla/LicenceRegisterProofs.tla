----------------------- MODULE LicenceRegisterProofs -----------------------
(***************************************************************************)
(* Proofs about LicenceRegister, for any number of applications and of     *)
(* overlapping and crashing deliveries of the daily task: licence numbers  *)
(* are in order and without gaps, a well shows its latest licence, nobody  *)
(* is on record as warned who was not, and nothing expires early.          *)
(***************************************************************************)
EXTENDS LicenceRegister, SequenceTheorems, FiniteSetTheorems, TLAPS

\* What a delivery of the task holds: licences as it loaded them.
Listed == [app : Apps, warned : SUBSET Leads, status : {"active"}]

Delivery ==
  [loop : Nat, today : Nat, todo : SUBSET Listed,
   half : Apps \cup {NoApp}]

RegisterTypes == TypeOK /\ job \in [Jobs -> Delivery]

\* A number is in hand only with the lock, for a licence that is still to be issued.
Drawing ==
  \A i \in Apps : drawn[i] # 0 =>
    holder = i /\ drawn[i] = value + 1 /\ ~Issued(i) /\ Renewable(i)

\* The numbers in use are those up to the value of the sequence.
UpToValue ==
  /\ \A i \in Apps : number[i] <= value
  /\ \A n \in 1 .. value : \E i \in Apps : number[i] = n

IssuedNumbered == \A i \in Apps : Issued(i) <=> number[i] # 0

NumberInv == RegisterTypes /\ Drawing /\ UpToValue /\ Number!NumbersDiffer /\ IssuedNumbered

\* The objects a delivery works through are issued; each carries warnings that went out, and
\* the one that is half done in the loop of a lead time has its warning out, too.
Alerted(i, D) == \A d \in D : <<i, d>> \in alerts

TrueDelivery(d) ==
  /\ \A x \in d.todo : Issued(x.app) /\ Alerted(x.app, x.warned)
  /\ d.half # NoApp => Issued(d.half)
  /\ d.half # NoApp /\ d.loop \in DOMAIN LeadTimes => <<d.half, LeadTimes[d.loop]>> \in alerts

TodoIsTrue == \A j \in Jobs : TrueDelivery(job[j])

\* The loop for expired licences has only such as had run out when the delivery began.
OverDelivery(d) ==
  /\ d.today <= day
  /\ d.loop = ExpiryLoop => \A x \in d.todo : licence[x.app].expires < d.today

TodoIsOver == \A j \in Jobs : OverDelivery(job[j])

\* Nobody hears of a licence before it is issued.
AlertedIssued == \A i \in Apps : \A d \in Leads \cup {OnExpiry} : <<i, d>> \in alerts => Issued(i)

-----------------------------------------------------------------------------
(***************************************************************************)
(* What the steps do                                                       *)
(***************************************************************************)

\* A new licence, with nothing said about its expiry yet.
NewLicence(grant, term) ==
  [status |-> "active", expires |-> day + term, grant |-> grant, warned |-> {}, expiredAlert |-> FALSE]

LEMMA NewIsLicence ==
  ASSUME RegisterTypes, NEW grant \in Grants, NEW term \in Terms
  PROVE  NewLicence(grant, term) \in Licence
<1>1. day + term \in Nat
  BY RegisterAssumption DEF RegisterTypes, TypeOK
<1> QED BY <1>1 DEF NewLicence, Licence, LicenceStatus

LEMMA IssuedType ==
  ASSUME RegisterTypes, NEW i \in Apps
  PROVE  Issued(i) <=> licence[i] \in Licence
BY NoLicenceAssumption DEF RegisterTypes, TypeOK, Issued

\* Marking a licence as renewed changes its status alone.
LEMMA RenewedIsLicence ==
  ASSUME NEW l \in Licence
  PROVE  /\ [l EXCEPT !.status = "renewed"] \in Licence
         /\ [l EXCEPT !.status = "renewed"].expires = l.expires
         /\ [l EXCEPT !.status = "renewed"].warned = l.warned
         /\ [l EXCEPT !.status = "renewed"].expiredAlert = l.expiredAlert
         /\ [l EXCEPT !.status = "renewed"].status = "renewed"
BY DEF Licence, LicenceStatus

\* The commit of an approval: the number in hand becomes the licence's, and the last of all.
CommitEffect(i, grant, term) ==
  /\ drawn[i] = value + 1 /\ number[i] = 0 /\ ~Issued(i)
  /\ number' = [number EXCEPT ![i] = value + 1]
  /\ drawn' = [drawn EXCEPT ![i] = 0]
  /\ value' = value + 1
  /\ holder' = NoApp
  /\ licence' \in [Apps -> Licence \cup {NoLicence}]
  /\ licence'[i] = NewLicence(grant, term)
  /\ \A k \in Apps \ {i} :
       \/ licence'[k] = licence[k]
       \/ Issued(k) /\ licence'[k] = [licence[k] EXCEPT !.status = "renewed"]

LEMMA CommitDoes ==
  ASSUME NumberInv, NEW i \in Apps, NEW grant \in Grants, NEW term \in Terms, IssueCommit(i, grant, term)
  PROVE  CommitEffect(i, grant, term)
<1>1. drawn[i] # 0 /\ holder = i /\ drawn[i] = value + 1 /\ ~Issued(i) /\ Renewable(i)
  BY DEF NumberInv, Drawing, IssueCommit, Number!Save
<1>2. number[i] = 0
  BY <1>1 DEF NumberInv, IssuedNumbered
<1>3. /\ number' = [number EXCEPT ![i] = value + 1]
      /\ drawn' = [drawn EXCEPT ![i] = 0]
      /\ value' = value + 1
      /\ holder' = NoApp
  BY <1>1 DEF IssueCommit, Number!Save, Number!Release
<1>4. licence' =
       [k \in Apps |->
          CASE k = i -> NewLicence(grant, term)
            [] k # i /\ k = RenewalOf[i] -> [licence[k] EXCEPT !.status = "renewed"]
            [] OTHER -> licence[k]]
  BY DEF IssueCommit, NewLicence
<1>5. licence'[i] = NewLicence(grant, term)
  BY <1>4
<1>6. ASSUME NEW k \in Apps \ {i}
      PROVE  /\ licence'[k] \in Licence \cup {NoLicence}
             /\ \/ licence'[k] = licence[k]
                \/ Issued(k) /\ licence'[k] = [licence[k] EXCEPT !.status = "renewed"]
  <2>1. CASE k = RenewalOf[i]
    <3>1. licence'[k] = [licence[k] EXCEPT !.status = "renewed"]
      BY <1>4, <2>1
    <3>2. Issued(k)
      BY <1>1, <2>1, RegisterAssumption DEF Renewable
    <3>3. licence[k] \in Licence
      BY <3>2, IssuedType DEF NumberInv
    <3> QED BY <3>1, <3>2, <3>3, RenewedIsLicence
  <2>2. CASE k # RenewalOf[i]
    <3>1. licence'[k] = licence[k]
      BY <1>4, <2>2
    <3> QED BY <3>1 DEF NumberInv, RegisterTypes, TypeOK
  <2> QED BY <2>1, <2>2
<1>7. licence' \in [Apps -> Licence \cup {NoLicence}]
  <2>1. licence'[i] \in Licence
    BY <1>5, NewIsLicence DEF NumberInv
  <2>2. licence' = [k \in Apps |-> licence'[k]]
    BY <1>4
  <2> QED BY <1>6, <2>1, <2>2
<1> QED BY <1>1, <1>2, <1>3, <1>5, <1>6, <1>7 DEF CommitEffect

-----------------------------------------------------------------------------
\* What the task does to a licence: nothing, or a save that leaves its last day alone.
Aged(i) ==
  \/ licence'[i] = licence[i]
  \/ Issued(i) /\ licence'[i] \in Licence /\ licence'[i].expires = licence[i].expires

LicencesAge ==
  /\ UNCHANGED <<numbering, wellShows>>
  /\ licence' \in [Apps -> Licence \cup {NoLicence}]
  /\ \A i \in Apps : Aged(i)

LEMMA WarnedSave ==
  ASSUME NEW l \in Licence, NEW D \in SUBSET Leads
  PROVE  /\ [l EXCEPT !.warned = D] \in Licence
         /\ [l EXCEPT !.warned = D].expires = l.expires
         /\ [l EXCEPT !.warned = D].status = l.status
         /\ [l EXCEPT !.warned = D].warned = D
BY DEF Licence

LEMMA ExpiredSave ==
  ASSUME NEW l \in Licence
  PROVE  /\ [l EXCEPT !.status = "expired", !.expiredAlert = TRUE] \in Licence
         /\ [l EXCEPT !.status = "expired", !.expiredAlert = TRUE].expires = l.expires
         /\ [l EXCEPT !.status = "expired", !.expiredAlert = TRUE].warned = l.warned
         /\ [l EXCEPT !.status = "expired", !.expiredAlert = TRUE].status = "expired"
BY DEF Licence, LicenceStatus

\* One licence is saved, the others are as they were.
LEMMA OneSaved ==
  ASSUME RegisterTypes, NEW a \in Apps, Issued(a), NEW l \in Licence, l.expires = licence[a].expires,
         licence' = [licence EXCEPT ![a] = l], UNCHANGED <<numbering, wellShows>>
  PROVE  LicencesAge
<1>1. licence'[a] = l /\ \A i \in Apps \ {a} : licence'[i] = licence[i]
  BY DEF RegisterTypes, TypeOK
<1>2. licence' \in [Apps -> Licence \cup {NoLicence}]
  BY DEF RegisterTypes, TypeOK
<1> QED BY <1>1, <1>2 DEF LicencesAge, Aged

LEMMA NoneSaved ==
  ASSUME RegisterTypes, UNCHANGED register
  PROVE  LicencesAge
BY DEF LicencesAge, Aged, register, RegisterTypes, TypeOK

LEMMA TodoTypes ==
  ASSUME RegisterTypes, NEW j \in Jobs, NEW x \in job[j].todo
  PROVE  /\ x.app \in Apps /\ x.warned \in SUBSET Leads
         /\ job[j] \in Delivery
BY DEF RegisterTypes, Delivery, Listed

\* The two saves of the task, for an object of its list.
LEMMA SaveWarnedDoes ==
  ASSUME RegisterTypes, TodoIsTrue, NEW j \in Jobs, NEW x \in job[j].todo, NEW lead \in Leads,
         SaveWarned(x, lead)
  PROVE  /\ LicencesAge
         /\ licence' = [licence EXCEPT ![x.app] = [licence[x.app] EXCEPT !.warned = x.warned \cup {lead}]]
         /\ UNCHANGED alerts
<1>1. x.app \in Apps /\ x.warned \cup {lead} \in SUBSET Leads
  BY TodoTypes
<1>2. Issued(x.app) /\ licence[x.app] \in Licence
  BY <1>1, IssuedType DEF TodoIsTrue, TrueDelivery
<1>3. licence' = [licence EXCEPT ![x.app] = [licence[x.app] EXCEPT !.warned = x.warned \cup {lead}]]
  BY <1>1 DEF SaveWarned, RegisterTypes, TypeOK
<1>4. UNCHANGED <<numbering, wellShows, alerts>>
  BY DEF SaveWarned
<1> QED BY <1>1, <1>2, <1>3, <1>4, WarnedSave, OneSaved

LEMMA SaveExpiredDoes ==
  ASSUME RegisterTypes, TodoIsTrue, NEW j \in Jobs, NEW x \in job[j].todo, SaveExpired(x)
  PROVE  /\ LicencesAge
         /\ licence' = [licence EXCEPT ![x.app] =
                          [licence[x.app] EXCEPT !.status = "expired", !.expiredAlert = TRUE]]
         /\ UNCHANGED alerts
<1>1. x.app \in Apps
  BY TodoTypes
<1>2. Issued(x.app) /\ licence[x.app] \in Licence
  BY <1>1, IssuedType DEF TodoIsTrue, TrueDelivery
<1>3. licence' = [licence EXCEPT ![x.app] =
                    [licence[x.app] EXCEPT !.status = "expired", !.expiredAlert = TRUE]]
  BY <1>1 DEF SaveExpired, RegisterTypes, TypeOK
<1>4. UNCHANGED <<numbering, wellShows, alerts>>
  BY DEF SaveExpired
<1> QED BY <1>1, <1>2, <1>3, <1>4, ExpiredSave, OneSaved

LEMMA TaskAges ==
  ASSUME RegisterTypes, TodoIsTrue, NEW j \in Jobs, JobStep(j) \/ JobCrash(j)
  PROVE  LicencesAge /\ UNCHANGED day
<1>1. CASE UNCHANGED <<register, day>>
  BY <1>1, NoneSaved
<1>2. ASSUME NEW x \in job[j].todo, Warn(j, x), UNCHANGED day PROVE LicencesAge
  <2>1. LeadTimes[job[j].loop] \in Leads
    BY <1>2 DEF Warn, Leads
  <2>2. CASE SaveWarned(x, LeadTimes[job[j].loop])
    BY <2>1, <2>2, SaveWarnedDoes
  <2>3. CASE UNCHANGED register
    BY <2>3, NoneSaved
  <2> QED BY <1>2, <2>2, <2>3 DEF Warn, SendAlert
<1>3. ASSUME NEW x \in job[j].todo, Expire(j, x), UNCHANGED day PROVE LicencesAge
  <2>1. CASE SaveExpired(x)
    BY <2>1, SaveExpiredDoes
  <2>2. CASE UNCHANGED register
    BY <2>2, NoneSaved
  <2> QED BY <1>3, <2>1, <2>2 DEF Expire, SendAlert
<1>4. CASE (JobStart(j) \/ JobNextLoop(j) \/ JobCrash(j)) /\ UNCHANGED day
  BY <1>1, <1>4 DEF JobStart, JobNextLoop, JobCrash
<1> QED BY <1>2, <1>3, <1>4 DEF JobStep, JobCrash

-----------------------------------------------------------------------------
(***************************************************************************)
(* Types                                                                   *)
(***************************************************************************)
AlertSet == Apps \X (Leads \cup {OnExpiry})

LEMMA IdleType == Idle \in Delivery /\ Idle.todo = {} /\ Idle.half = NoApp /\ Idle.loop = 0
BY DEF Idle, Delivery

LEMMA LoopType ==
  ASSUME RegisterTypes, NEW k \in Nat, NEW today \in Nat
  PROVE  /\ Loop(k, today) \in Delivery
         /\ Loop(k, today).half = NoApp /\ Loop(k, today).loop = k /\ Loop(k, today).today = today
         /\ Loop(k, today).todo = {[app |-> i, warned |-> licence[i].warned, status |-> licence[i].status] : i \in Due(k, today)}
<1>1. ASSUME NEW i \in Due(k, today)
      PROVE  [app |-> i, warned |-> licence[i].warned, status |-> licence[i].status] \in Listed
  <2>1. i \in Apps /\ licence[i] \in Licence /\ licence[i].status = "active"
    BY IssuedType DEF Due, Active
  <2> QED BY <2>1 DEF Licence, Listed
<1>2. {[app |-> i, warned |-> licence[i].warned, status |-> licence[i].status] : i \in Due(k, today)} \in SUBSET Listed
  BY <1>1
<1> QED BY <1>2 DEF Loop, Delivery

LEMMA HalfSteps ==
  ASSUME RegisterTypes, NEW j \in Jobs, NEW x \in job[j].todo
  PROVE  /\ First(j, x) =>
              /\ job' \in [Jobs -> Delivery]
              /\ \A k \in Jobs \ {j} : job'[k] = job[k]
              /\ job'[j].loop = job[j].loop /\ job'[j].today = job[j].today
              /\ job'[j].todo = job[j].todo /\ job'[j].half = x.app
         /\ Second(j, x) =>
              /\ job' \in [Jobs -> Delivery]
              /\ \A k \in Jobs \ {j} : job'[k] = job[k]
              /\ job'[j].loop = job[j].loop /\ job'[j].today = job[j].today
              /\ job'[j].todo = job[j].todo \ {x} /\ job'[j].half = NoApp
<1>1. x.app \in Apps /\ job[j] \in Delivery /\ job \in [Jobs -> Delivery]
  BY TodoTypes DEF RegisterTypes
<1>2. /\ [job[j] EXCEPT !.half = x.app] \in Delivery
      /\ [job[j] EXCEPT !.half = NoApp, !.todo = job[j].todo \ {x}] \in Delivery
  BY <1>1 DEF Delivery
<1>3. ASSUME First(j, x)
      PROVE  job' = [job EXCEPT ![j] = [job[j] EXCEPT !.half = x.app]]
  BY <1>1, <1>3 DEF First
<1>4. ASSUME Second(j, x)
      PROVE  job' = [job EXCEPT ![j] = [job[j] EXCEPT !.half = NoApp, !.todo = job[j].todo \ {x}]]
  BY <1>1, <1>4 DEF Second
<1>5. ASSUME First(j, x)
      PROVE  /\ job' \in [Jobs -> Delivery]
             /\ \A k \in Jobs \ {j} : job'[k] = job[k]
             /\ job'[j].loop = job[j].loop /\ job'[j].today = job[j].today
             /\ job'[j].todo = job[j].todo /\ job'[j].half = x.app
  BY <1>1, <1>2, <1>3, <1>5 DEF Delivery
<1>6. ASSUME Second(j, x)
      PROVE  /\ job' \in [Jobs -> Delivery]
             /\ \A k \in Jobs \ {j} : job'[k] = job[k]
             /\ job'[j].loop = job[j].loop /\ job'[j].today = job[j].today
             /\ job'[j].todo = job[j].todo \ {x} /\ job'[j].half = NoApp
  BY <1>1, <1>2, <1>4, <1>6 DEF Delivery
<1> QED BY <1>5, <1>6

\* The ways of a delivery: it rests, begins a loop, or does a half of an object's work.
Rests(j) ==
  /\ job' = [job EXCEPT ![j] = Idle]
  /\ UNCHANGED <<register, alerts>>

Begins(j, k, today) ==
  /\ job' = [job EXCEPT ![j] = Loop(k, today)]
  /\ UNCHANGED <<register, alerts>>

LEMMA DeliveryWays ==
  ASSUME RegisterTypes, NEW j \in Jobs, JobStep(j) \/ JobCrash(j)
  PROVE  \/ Rests(j)
         \/ Begins(j, 1, day)
         \/ job[j].loop # ExpiryLoop /\ Begins(j, job[j].loop + 1, job[j].today)
         \/ \E x \in job[j].todo : Warn(j, x) \/ Expire(j, x)
<1>0. job \in [Jobs -> Delivery]
  BY DEF RegisterTypes
<1>1. CASE JobStart(j)
  BY <1>1 DEF JobStart, Begins
<1>2. CASE JobNextLoop(j)
  <2>1. job' = [job EXCEPT ![j] = IF job[j].loop = ExpiryLoop THEN Idle
                                  ELSE Loop(job[j].loop + 1, job[j].today)]
    BY <1>2 DEF JobNextLoop
  <2>2. CASE job[j].loop = ExpiryLoop
    BY <1>2, <2>1, <2>2 DEF JobNextLoop, Rests
  <2>3. CASE job[j].loop # ExpiryLoop
    BY <1>2, <2>1, <2>3 DEF JobNextLoop, Begins
  <2> QED BY <2>2, <2>3
<1>3. CASE JobCrash(j)
  BY <1>3 DEF JobCrash, Rests
<1> QED BY <1>1, <1>2, <1>3 DEF JobStep

\* The types of one delivery.
DeliveryOK(d) ==
  /\ d.loop \in 0 .. ExpiryLoop
  /\ d.todo \subseteq [app : Apps, warned : SUBSET Leads, status : LicenceStatus]
  /\ d.half \in {NoApp} \cup {x.app : x \in d.todo}

LEMMA LoopIsOK ==
  ASSUME RegisterTypes, NEW k \in 0 .. ExpiryLoop, NEW today \in Nat
  PROVE  Loop(k, today) \in Delivery /\ DeliveryOK(Loop(k, today))
<1>1. k \in Nat
  BY RegisterAssumption DEF ExpiryLoop
<1>2. /\ Loop(k, today) \in Delivery
      /\ Loop(k, today).half = NoApp /\ Loop(k, today).loop = k
  BY <1>1, LoopType
<1>3. Loop(k, today).todo \subseteq [app : Apps, warned : SUBSET Leads, status : LicenceStatus]
  BY <1>2 DEF Delivery, Listed, LicenceStatus
<1> QED BY <1>2, <1>3 DEF DeliveryOK

LEMMA ExpiryLoopIsLast == ExpiryLoop \in Nat /\ DOMAIN LeadTimes = 1 .. ExpiryLoop - 1
BY RegisterAssumption DEF ExpiryLoop

LEMMA TaskTypes ==
  ASSUME RegisterTypes, TodoIsTrue, NEW j \in Jobs, JobStep(j) \/ JobCrash(j)
  PROVE  RegisterTypes'
<1>0. job \in [Jobs -> Delivery] /\ job[j] \in Delivery /\ \A k \in Jobs : DeliveryOK(job[k])
  BY DEF RegisterTypes, TypeOK, DeliveryOK
<1>1. LicencesAge /\ UNCHANGED day
  BY TaskAges
<1>2. alerts' \subseteq AlertSet
  <2>0. alerts \subseteq AlertSet
    BY DEF RegisterTypes, TypeOK, AlertSet
  <2>1. ASSUME NEW x \in job[j].todo, Warn(j, x) \/ Expire(j, x) PROVE alerts' \subseteq AlertSet
    <3>1. x.app \in Apps
      BY TodoTypes
    <3>2. job[j].loop \in DOMAIN LeadTimes => LeadTimes[job[j].loop] \in Leads
      BY DEF Leads
    <3> QED BY <2>0, <2>1, <3>1, <3>2 DEF Warn, Expire, SendAlert, SaveWarned, SaveExpired, AlertSet
  <2> QED BY <2>0, <2>1, DeliveryWays DEF Rests, Begins
<1>3. job' \in [Jobs -> Delivery] /\ \A k \in Jobs : DeliveryOK(job'[k])
  <2>1. ASSUME NEW d \in Delivery, DeliveryOK(d), job' = [job EXCEPT ![j] = d]
        PROVE  job' \in [Jobs -> Delivery] /\ \A k \in Jobs : DeliveryOK(job'[k])
    BY <1>0, <2>1
  <2>2. CASE Rests(j)
    <3>1. Idle \in Delivery /\ DeliveryOK(Idle)
      BY IdleType, ExpiryLoopIsLast DEF DeliveryOK
    <3> QED BY <2>1, <2>2, <3>1 DEF Rests
  <2>3. CASE Begins(j, 1, day)
    <3>1. 1 \in 0 .. ExpiryLoop /\ day \in Nat
      BY RegisterAssumption DEF ExpiryLoop, RegisterTypes, TypeOK
    <3>2. Loop(1, day) \in Delivery /\ DeliveryOK(Loop(1, day))
      BY <3>1, LoopIsOK
    <3> QED BY <2>1, <2>3, <3>2 DEF Begins
  <2>4. CASE job[j].loop # ExpiryLoop /\ Begins(j, job[j].loop + 1, job[j].today)
    <3>1. job[j].loop + 1 \in 0 .. ExpiryLoop /\ job[j].today \in Nat
      BY <1>0, <2>4, ExpiryLoopIsLast DEF Delivery, DeliveryOK
    <3>2. Loop(job[j].loop + 1, job[j].today) \in Delivery /\ DeliveryOK(Loop(job[j].loop + 1, job[j].today))
      BY <3>1, LoopIsOK
    <3> QED BY <2>1, <2>4, <3>2 DEF Begins
  <2>5. ASSUME NEW x \in job[j].todo, Warn(j, x) \/ Expire(j, x)
        PROVE  job' \in [Jobs -> Delivery] /\ \A k \in Jobs : DeliveryOK(job'[k])
    <3>1. First(j, x) \/ Second(j, x)
      BY <2>5 DEF Warn, Expire
    <3>2. job' \in [Jobs -> Delivery] /\ \A k \in Jobs \ {j} : job'[k] = job[k]
      BY <3>1, HalfSteps
    <3>3. job'[j].loop = job[j].loop /\ job'[j].todo \subseteq job[j].todo
      BY <3>1, HalfSteps
    <3>4. job'[j].half \in {NoApp} \cup {y.app : y \in job'[j].todo}
      <4>1. CASE First(j, x)
        <5>1. job'[j].half = x.app /\ x \in job'[j].todo
          BY <4>1, HalfSteps
        <5> QED BY <5>1
      <4>2. CASE Second(j, x)
        BY <4>2, HalfSteps
      <4> QED BY <3>1, <4>1, <4>2
    <3>5. DeliveryOK(job'[j])
      BY <1>0, <3>3, <3>4 DEF DeliveryOK
    <3> QED BY <1>0, <3>2, <3>5
  <2> QED BY <2>2, <2>3, <2>4, <2>5, DeliveryWays
<1>4. crashes' \in Nat
  BY DEF JobStep, JobCrash, RegisterTypes, TypeOK
<1>5. licence' \in [Apps -> Licence \cup {NoLicence}] /\ UNCHANGED <<value, holder, drawn, number, wellShows, day>>
  BY <1>1 DEF LicencesAge, numbering
<1>6. (Number!TypeOK)' /\ (wellShows \in [Wells -> Nat])' /\ (day \in Nat)'
  BY <1>5 DEF RegisterTypes, TypeOK, Number!TypeOK
<1> QED BY <1>2, <1>3, <1>4, <1>5, <1>6 DEF RegisterTypes, TypeOK, DeliveryOK, AlertSet

LEMMA IssueTypes ==
  ASSUME NumberInv, NEW i \in Apps, IssueStep(i), UNCHANGED taskVars
  PROVE  RegisterTypes'
<1>1. UNCHANGED <<day, job, alerts, crashes>>
  BY DEF taskVars
<1>2. licence' \in [Apps -> Licence \cup {NoLicence}] /\ (Number!TypeOK)' /\ wellShows' \in [Wells -> Nat]
  <2>0. /\ licence \in [Apps -> Licence \cup {NoLicence}] /\ wellShows \in [Wells -> Nat]
        /\ value \in Nat /\ holder \in Apps \cup {NoApp} /\ drawn \in [Apps -> Nat] /\ number \in [Apps -> Nat]
    BY DEF NumberInv, RegisterTypes, TypeOK, Number!TypeOK
  <2>1. CASE IssueBegin(i)
    BY <2>0, <2>1 DEF IssueBegin, Number!Draw, Number!TypeOK
  <2>2. ASSUME NEW grant \in Grants, NEW term \in Terms, IssueCommit(i, grant, term)
        PROVE  licence' \in [Apps -> Licence \cup {NoLicence}] /\ (Number!TypeOK)' /\ wellShows' \in [Wells -> Nat]
    <3>1. CommitEffect(i, grant, term)
      BY <2>2, CommitDoes
    <3>2. (Number!TypeOK)'
      BY <2>0, <3>1 DEF CommitEffect, Number!TypeOK
    <3>3. wellShows' \in [Wells -> Nat]
      BY <2>0, <2>2 DEF IssueCommit, FlagWell
    <3> QED BY <3>1, <3>2, <3>3 DEF CommitEffect
  <2>3. CASE IssueAbort(i)
    BY <2>0, <2>3 DEF IssueAbort, Number!Fail, Number!Release, Number!TypeOK
  <2> QED BY <2>1, <2>2, <2>3 DEF IssueStep
<1> QED BY <1>1, <1>2 DEF NumberInv, RegisterTypes, TypeOK

-----------------------------------------------------------------------------
(***************************************************************************)
(* The numbers, and what a well shows                                      *)
(***************************************************************************)

\* Whatever the task does, it issues nothing and withdraws nothing.
LEMMA AgedStaysIssued ==
  ASSUME RegisterTypes, LicencesAge, NEW i \in Apps
  PROVE  Issued(i)' <=> Issued(i)
BY NoLicenceAssumption DEF LicencesAge, Aged, Issued

LEMMA NumberInvAges ==
  ASSUME NumberInv, LicencesAge, RegisterTypes'
  PROVE  NumberInv'
<1>1. UNCHANGED <<value, holder, drawn, number>>
  BY DEF LicencesAge, numbering
<1>2. \A i \in Apps : Issued(i)' <=> Issued(i)
  BY AgedStaysIssued DEF NumberInv
<1>3. \A i \in Apps : Renewable(i)' <=> Renewable(i)
  BY <1>2, RegisterAssumption DEF Renewable
<1>4. Drawing'
  BY <1>1, <1>2, <1>3 DEF Drawing, NumberInv
<1>5. UpToValue' /\ (Number!NumbersDiffer)'
  BY <1>1 DEF UpToValue, Number!NumbersDiffer, NumberInv
<1>6. IssuedNumbered'
  BY <1>1, <1>2 DEF IssuedNumbered, NumberInv
<1> QED BY <1>4, <1>5, <1>6 DEF NumberInv

LEMMA CommitStaysIssued ==
  ASSUME NumberInv, NEW i \in Apps, NEW grant \in Grants, NEW term \in Terms,
         CommitEffect(i, grant, term), NEW k \in Apps
  PROVE  Issued(k)' <=> Issued(k) \/ k = i
<1>1. CASE k = i
  <2>1. licence'[i] \in Licence
    BY NewIsLicence DEF CommitEffect, NumberInv
  <2> QED BY <1>1, <2>1, NoLicenceAssumption DEF Issued
<1>2. CASE k # i /\ licence'[k] = licence[k]
  BY <1>2 DEF Issued
<1>3. CASE Issued(k) /\ licence'[k] = [licence[k] EXCEPT !.status = "renewed"]
  <2>1. licence[k] \in Licence
    BY <1>3, IssuedType DEF NumberInv
  <2>2. licence'[k] \in Licence
    BY <1>3, <2>1, RenewedIsLicence
  <2> QED BY <1>3, <2>2, NoLicenceAssumption DEF Issued
<1> QED BY <1>1, <1>2, <1>3 DEF CommitEffect

LEMMA NumberInvCommits ==
  ASSUME NumberInv, NEW i \in Apps, NEW grant \in Grants, NEW term \in Terms,
         CommitEffect(i, grant, term), RegisterTypes'
  PROVE  NumberInv'
<1>0. /\ value \in Nat /\ drawn \in [Apps -> Nat] /\ number \in [Apps -> Nat]
      /\ \A k \in Apps : drawn[k] # 0 => holder = k
      /\ holder = i
  BY DEF NumberInv, RegisterTypes, TypeOK, Number!TypeOK, Drawing, CommitEffect
<1>1. /\ number' = [number EXCEPT ![i] = value + 1]
      /\ drawn' = [drawn EXCEPT ![i] = 0] /\ value' = value + 1 /\ number[i] = 0
  BY DEF CommitEffect
<1>2. \A k \in Apps : drawn'[k] = 0
  BY <1>0, <1>1
<1>3. Drawing'
  BY <1>2 DEF Drawing
<1>4. UpToValue'
  <2>0. /\ \A k \in Apps : number[k] <= value
        /\ \A n \in 1 .. value : \E k \in Apps : number[k] = n
    BY DEF NumberInv, UpToValue
  <2>1. \A k \in Apps : number'[k] <= value'
    BY <1>0, <1>1, <2>0
  <2>2. ASSUME NEW n \in 1 .. value' PROVE \E k \in Apps : number'[k] = n
    <3>1. CASE n = value + 1
      BY <1>0, <1>1, <3>1
    <3>2. CASE n \in 1 .. value
      <4>1. PICK k \in Apps : number[k] = n
        BY <2>0, <3>2
      <4>2. k # i
        BY <1>1, <4>1, <3>2
      <4> QED BY <1>0, <1>1, <4>1, <4>2
    <3> QED BY <1>0, <1>1, <3>1, <3>2
  <2> QED BY <2>1, <2>2 DEF UpToValue
<1>5. (Number!NumbersDiffer)'
  <2>1. \A c, d \in Apps : number[c] = number[d] /\ number[c] # 0 => c = d
    BY DEF NumberInv, Number!NumbersDiffer
  <2>2. \A k \in Apps : number[k] <= value
    BY DEF NumberInv, UpToValue
  <2>3. \A c, d \in Apps : number'[c] = number'[d] /\ number'[c] # 0 => c = d
    BY <1>0, <1>1, <2>1, <2>2
  <2> QED BY <2>3 DEF Number!NumbersDiffer
<1>6. IssuedNumbered'
  <2>1. \A k \in Apps : Issued(k)' <=> Issued(k) \/ k = i
    BY CommitStaysIssued
  <2>2. \A k \in Apps : Issued(k) <=> number[k] # 0
    BY DEF NumberInv, IssuedNumbered
  <2>3. \A k \in Apps : Issued(k)' <=> number'[k] # 0
    BY <1>0, <1>1, <2>1, <2>2
  <2> QED BY <2>3 DEF IssuedNumbered
<1> QED BY <1>3, <1>4, <1>5, <1>6 DEF NumberInv

LEMMA NumberInvIssues ==
  ASSUME NumberInv, NEW i \in Apps, IssueStep(i), RegisterTypes'
  PROVE  NumberInv'
<1>0. /\ value \in Nat /\ drawn \in [Apps -> Nat] /\ number \in [Apps -> Nat]
  BY DEF NumberInv, RegisterTypes, TypeOK, Number!TypeOK
<1>1. ASSUME UNCHANGED <<value, number, licence>>, Drawing' PROVE NumberInv'
  <2>1. UpToValue' /\ (Number!NumbersDiffer)'
    BY <1>1 DEF NumberInv, UpToValue, Number!NumbersDiffer
  <2>2. IssuedNumbered'
    BY <1>1 DEF NumberInv, IssuedNumbered, Issued
  <2> QED BY <1>1, <2>1, <2>2 DEF NumberInv
<1>2. CASE Renewable(i) /\ IssueBegin(i)
  <2>1. \A k \in Apps : drawn[k] = 0
    BY <1>2, RegisterAssumption DEF IssueBegin, Number!Draw, Number!RowFree, NumberInv, Drawing
  <2>2. /\ drawn' = [drawn EXCEPT ![i] = value + 1] /\ holder' = i
        /\ UNCHANGED <<value, number, licence>>
    BY <1>2 DEF IssueBegin, Number!Draw
  <2>3. ~Issued(i)' /\ Renewable(i)'
    BY <1>2, <2>2 DEF IssueBegin, Issued, Renewable
  <2>4. Drawing'
    BY <1>0, <2>1, <2>2, <2>3 DEF Drawing
  <2> QED BY <1>1, <2>2, <2>4
<1>3. ASSUME NEW grant \in Grants, NEW term \in Terms, IssueCommit(i, grant, term) PROVE NumberInv'
  BY <1>3, CommitDoes, NumberInvCommits
<1>4. CASE IssueAbort(i)
  <2>1. /\ drawn' = [drawn EXCEPT ![i] = 0] /\ drawn[i] # 0
        /\ UNCHANGED <<value, number, licence>>
    BY <1>4 DEF IssueAbort, Number!Fail
  <2>2. \A k \in Apps : drawn[k] # 0 => k = i
    BY <2>1 DEF NumberInv, Drawing
  <2>3. \A k \in Apps : drawn'[k] = 0
    BY <1>0, <2>1, <2>2
  <2>4. Drawing'
    BY <2>3 DEF Drawing
  <2> QED BY <1>1, <2>1, <2>4
<1> QED BY <1>2, <1>3, <1>4 DEF IssueStep

\* A licence issued for a well gets the largest number, and the well shows that one.
LEMMA WellCommits ==
  ASSUME NumberInv, WellShowsLatest, NEW i \in Apps, NEW grant \in Grants, NEW term \in Terms,
         IssueCommit(i, grant, term)
  PROVE  WellShowsLatest'
<1>0. /\ value \in Nat /\ number \in [Apps -> Nat] /\ wellShows \in [Wells -> Nat]
      /\ \A k \in Apps : number[k] <= value
      /\ \A k \in Apps : WellOf[k] # NoWell => WellOf[k] \in Wells
  BY RegisterAssumption DEF NumberInv, RegisterTypes, TypeOK, Number!TypeOK, UpToValue
<1>1. CommitEffect(i, grant, term)
  BY CommitDoes
<1>2. /\ number' = [number EXCEPT ![i] = value + 1] /\ number[i] = 0 /\ drawn[i] = value + 1
      /\ ~Issued(i)
  BY <1>1 DEF CommitEffect
<1>3. wellShows' = IF WellOf[i] = NoWell THEN wellShows
                   ELSE [wellShows EXCEPT ![WellOf[i]] = value + 1]
  BY <1>2 DEF IssueCommit, FlagWell
<1>4. ASSUME NEW k \in Apps, Issued(k)', WellOf[k] # NoWell
      PROVE  /\ number'[k] <= wellShows'[WellOf[k]]
             /\ \E m \in Apps : WellOf[m] = WellOf[k] /\ number'[m] = wellShows'[WellOf[k]]
  <2>1. CASE WellOf[k] = WellOf[i]
    <3>1. wellShows'[WellOf[k]] = value + 1
      BY <1>0, <1>3, <1>4, <2>1
    <3>2. number'[i] = value + 1 /\ number'[k] <= value + 1
      BY <1>0, <1>2
    <3> QED BY <2>1, <3>1, <3>2
  <2>2. CASE WellOf[k] # WellOf[i]
    <3>1. wellShows'[WellOf[k]] = wellShows[WellOf[k]]
      BY <1>0, <1>3, <1>4, <2>2
    <3>2. Issued(k)
      BY <1>1, <1>4, <2>2, CommitStaysIssued
    <3>3. number[k] <= wellShows[WellOf[k]]
      BY <1>4, <3>2 DEF WellShowsLatest
    <3>4. PICK m \in Apps : WellOf[m] = WellOf[k] /\ number[m] = wellShows[WellOf[k]]
      BY <1>4, <3>2 DEF WellShowsLatest
    <3>5. number'[k] = number[k] /\ number'[m] = number[m]
      BY <1>0, <1>2, <2>2, <3>4
    <3> QED BY <3>1, <3>3, <3>4, <3>5
  <2> QED BY <2>1, <2>2
<1> QED BY <1>4 DEF WellShowsLatest

LEMMA WellAges ==
  ASSUME NumberInv, WellShowsLatest, LicencesAge
  PROVE  WellShowsLatest'
<1>1. UNCHANGED <<number, wellShows>>
  BY DEF LicencesAge, numbering
<1>2. \A i \in Apps : Issued(i)' <=> Issued(i)
  BY AgedStaysIssued DEF NumberInv
<1> QED BY <1>1, <1>2 DEF WellShowsLatest

LEMMA WellIssues ==
  ASSUME NumberInv, WellShowsLatest, NEW i \in Apps, IssueStep(i)
  PROVE  WellShowsLatest'
<1>1. CASE UNCHANGED <<licence, number, wellShows>>
  BY <1>1 DEF WellShowsLatest, Issued
<1>2. ASSUME NEW grant \in Grants, NEW term \in Terms, IssueCommit(i, grant, term) PROVE WellShowsLatest'
  BY <1>2, WellCommits
<1> QED BY <1>1, <1>2 DEF IssueStep, IssueBegin, IssueAbort, Number!Draw, Number!Fail

-----------------------------------------------------------------------------
(***************************************************************************)
(* Who is warned, and what has run out                                     *)
(***************************************************************************)
LEMMA AlertsGrow ==
  ASSUME NEW j \in Jobs, JobStep(j) \/ JobCrash(j)
  PROVE  alerts \subseteq alerts'
<1>1. ASSUME NEW x \in job[j].todo, Warn(j, x) \/ Expire(j, x) PROVE alerts \subseteq alerts'
  BY <1>1 DEF Warn, Expire, SendAlert, SaveWarned, SaveExpired
<1> QED BY <1>1 DEF JobStep, JobCrash, JobStart, JobNextLoop

\* What is true of a delivery stays true while alerts go out and licences are issued.
LEMMA TrueGrows ==
  ASSUME NEW d \in Delivery, TrueDelivery(d), alerts \subseteq alerts',
         \A i \in Apps : Issued(i) => Issued(i)'
  PROVE  TrueDelivery(d)'
<1>1. ASSUME NEW x \in d.todo PROVE Issued(x.app)' /\ Alerted(x.app, x.warned)'
  <2>1. x.app \in Apps
    BY DEF Delivery, Listed
  <2>2. Issued(x.app) /\ Alerted(x.app, x.warned)
    BY DEF TrueDelivery
  <2> QED BY <2>1, <2>2 DEF Alerted
<1>2. d.half # NoApp => Issued(d.half)'
  BY DEF TrueDelivery, Delivery
<1> QED BY <1>1, <1>2 DEF TrueDelivery

LEMMA TodoGrows ==
  ASSUME RegisterTypes, TodoIsTrue, alerts \subseteq alerts', UNCHANGED job,
         \A i \in Apps : Issued(i) => Issued(i)'
  PROVE  TodoIsTrue'
<1>1. ASSUME NEW j \in Jobs PROVE TrueDelivery(job[j])'
  <2>1. PICK d \in Delivery : d = job[j]
    BY DEF RegisterTypes
  <2>2. TrueDelivery(d)
    BY <2>1 DEF TodoIsTrue
  <2>3. TrueDelivery(d)'
    BY <2>2, TrueGrows
  <2>4. d = job'[j]
    BY <2>1
  <2> QED BY <2>3, <2>4
<1> QED BY <1>1 DEF TodoIsTrue

\* A loop begins with licences whose warnings are on record.
LEMMA TrueLoop ==
  ASSUME RegisterTypes, WarnedMeansAlerted, NEW k \in Nat, NEW today \in Nat
  PROVE  TrueDelivery(Loop(k, today))
<1>1. /\ Loop(k, today).half = NoApp
      /\ Loop(k, today).todo = {[app |-> i, warned |-> licence[i].warned, status |-> licence[i].status] : i \in Due(k, today)}
  BY LoopType
<1>2. ASSUME NEW i \in Due(k, today) PROVE Issued(i) /\ Alerted(i, licence[i].warned)
  BY DEF Due, Active, Alerted, WarnedMeansAlerted
<1>3. ASSUME NEW x \in Loop(k, today).todo PROVE Issued(x.app) /\ Alerted(x.app, x.warned)
  BY <1>1, <1>2
<1> QED BY <1>1, <1>3 DEF TrueDelivery

LEMMA TodoTask ==
  ASSUME RegisterTypes, TodoIsTrue, WarnedMeansAlerted, NEW j \in Jobs, JobStep(j) \/ JobCrash(j)
  PROVE  TodoIsTrue'
<1>0. job \in [Jobs -> Delivery] /\ job[j] \in Delivery /\ day \in Nat
  BY DEF RegisterTypes, TypeOK
<1>1. alerts \subseteq alerts'
  BY AlertsGrow
<1>2. \A i \in Apps : Issued(i) => Issued(i)'
  BY TaskAges, AgedStaysIssued
<1>3. ASSUME NEW d \in Delivery, TrueDelivery(d)', d = job'[j], \A k \in Jobs \ {j} : job'[k] = job[k]
      PROVE  TodoIsTrue'
  <2>1. ASSUME NEW k \in Jobs PROVE TrueDelivery(job[k])'
    <3>1. CASE k = j
      BY <1>3, <3>1
    <3>2. CASE k # j
      <4>1. PICK e \in Delivery : e = job[k]
        BY <1>0
      <4>2. TrueDelivery(e)
        BY <4>1 DEF TodoIsTrue
      <4>3. TrueDelivery(e)' /\ e = job'[k]
        BY <1>1, <1>2, <1>3, <3>2, <4>1, <4>2, TrueGrows
      <4> QED BY <4>3
    <3> QED BY <3>1, <3>2
  <2> QED BY <2>1 DEF TodoIsTrue
<1>4. ASSUME NEW k \in Nat, NEW today \in Nat, Begins(j, k, today) PROVE TodoIsTrue'
  <2>1. PICK d \in Delivery : d = Loop(k, today)
    BY LoopType
  <2>2. TrueDelivery(d)
    BY <2>1, TrueLoop
  <2>3. TrueDelivery(d)'
    BY <1>1, <1>2, <2>2, TrueGrows
  <2>4. d = job'[j] /\ \A m \in Jobs \ {j} : job'[m] = job[m]
    BY <1>0, <1>4, <2>1 DEF Begins
  <2> QED BY <1>3, <2>3, <2>4
<1>5. CASE Rests(j)
  <2>1. Idle \in Delivery /\ TrueDelivery(Idle)'
    BY IdleType DEF TrueDelivery
  <2>2. Idle = job'[j] /\ \A m \in Jobs \ {j} : job'[m] = job[m]
    BY <1>0, <1>5 DEF Rests
  <2> QED BY <1>3, <2>1, <2>2
<1>6. ASSUME NEW x \in job[j].todo, First(j, x), Warn(j, x) \/ Expire(j, x) PROVE TodoIsTrue'
  <2>0. x.app \in Apps /\ Issued(x.app) /\ x.app # NoApp
    BY TodoTypes, RegisterAssumption DEF TodoIsTrue, TrueDelivery
  <2>1. /\ job' \in [Jobs -> Delivery] /\ \A m \in Jobs \ {j} : job'[m] = job[m]
        /\ job'[j].loop = job[j].loop /\ job'[j].todo = job[j].todo /\ job'[j].half = x.app
    BY <1>6, HalfSteps
  <2>2. PICK d \in Delivery : d = job'[j]
    BY <2>1
  <2>3. d.loop = job[j].loop /\ d.todo = job[j].todo /\ d.half = x.app
    BY <2>1, <2>2
  <2>4. PICK e \in Delivery : e = job[j]
    BY <1>0
  <2>5. TrueDelivery(e)'
    BY <1>1, <1>2, <2>4, TrueGrows DEF TodoIsTrue
  <2>6. job[j].loop \in DOMAIN LeadTimes => <<x.app, LeadTimes[job[j].loop]>> \in alerts'
    <3>1. job[j].loop \in DOMAIN LeadTimes => job[j].loop # ExpiryLoop
      BY ExpiryLoopIsLast
    <3>2. job[j].half = NoApp
      BY <1>6 DEF First
    <3> QED BY <1>6, <2>0, <3>1, <3>2 DEF Warn, Expire, Second, SendAlert
  <2>7. d.loop \in DOMAIN LeadTimes => <<d.half, LeadTimes[d.loop]>> \in alerts'
    BY <2>3, <2>6
  <2>8. Issued(d.half)'
    BY <1>2, <2>0, <2>3
  <2>9. d.todo = e.todo
    BY <2>3, <2>4
  <2>10. TrueDelivery(d)'
    BY <2>5, <2>7, <2>8, <2>9 DEF TrueDelivery
  <2> QED BY <1>3, <2>1, <2>2, <2>10
<1>7. ASSUME NEW x \in job[j].todo, Second(j, x) PROVE TodoIsTrue'
  <2>1. /\ job' \in [Jobs -> Delivery] /\ \A m \in Jobs \ {j} : job'[m] = job[m]
        /\ job'[j].todo = job[j].todo \ {x} /\ job'[j].half = NoApp
    BY <1>7, HalfSteps
  <2>2. PICK d \in Delivery : d = job'[j]
    BY <2>1
  <2>3. PICK e \in Delivery : e = job[j]
    BY <1>0
  <2>4. TrueDelivery(e)'
    BY <1>1, <1>2, <2>3, TrueGrows DEF TodoIsTrue
  <2>5. d.todo \subseteq e.todo /\ d.half = NoApp
    BY <2>1, <2>2, <2>3
  <2>6. TrueDelivery(d)'
    BY <2>4, <2>5 DEF TrueDelivery
  <2> QED BY <1>3, <2>1, <2>2, <2>6
<1>8. job[j].loop + 1 \in Nat /\ job[j].today \in Nat
  BY <1>0 DEF Delivery
<1>9. ASSUME NEW x \in job[j].todo, Warn(j, x) \/ Expire(j, x) PROVE TodoIsTrue'
  BY <1>6, <1>7, <1>9 DEF Warn, Expire
<1> QED BY <1>0, <1>4, <1>5, <1>8, <1>9, DeliveryWays

LEMMA WarnedTask ==
  ASSUME RegisterTypes, TodoIsTrue, WarnedMeansAlerted, NEW j \in Jobs, JobStep(j) \/ JobCrash(j)
  PROVE  WarnedMeansAlerted'
<1>0. licence \in [Apps -> Licence \cup {NoLicence}]
  BY DEF RegisterTypes, TypeOK
<1>1. alerts \subseteq alerts'
  BY AlertsGrow
<1>2. \A i \in Apps : Issued(i)' <=> Issued(i)
  BY TaskAges, AgedStaysIssued
<1>3. CASE UNCHANGED licence
  BY <1>1, <1>2, <1>3 DEF WarnedMeansAlerted
<1>4. ASSUME NEW a \in Apps, NEW l, licence' = [licence EXCEPT ![a] = l],
             \A d \in l.warned : <<a, d>> \in alerts
      PROVE  WarnedMeansAlerted'
  <2>1. licence'[a] = l /\ \A i \in Apps \ {a} : licence'[i] = licence[i]
    BY <1>0, <1>4
  <2>2. ASSUME NEW i \in Apps, Issued(i)', NEW d \in licence'[i].warned PROVE <<i, d>> \in alerts'
    BY <1>1, <1>2, <1>4, <2>1, <2>2 DEF WarnedMeansAlerted
  <2> QED BY <2>2 DEF WarnedMeansAlerted
<1>5. ASSUME NEW x \in job[j].todo, NEW lead \in Leads, SaveWarned(x, lead), <<x.app, lead>> \in alerts
      PROVE  WarnedMeansAlerted'
  <2>1. x.app \in Apps /\ Issued(x.app) /\ Alerted(x.app, x.warned) /\ x.warned \in SUBSET Leads
    BY TodoTypes DEF TodoIsTrue, TrueDelivery
  <2>2. licence[x.app] \in Licence
    BY <2>1, IssuedType
  <2>3. licence' = [licence EXCEPT ![x.app] = [licence[x.app] EXCEPT !.warned = x.warned \cup {lead}]]
    BY <1>5, SaveWarnedDoes
  <2>4. [licence[x.app] EXCEPT !.warned = x.warned \cup {lead}].warned = x.warned \cup {lead}
    BY <2>1, <2>2, WarnedSave
  <2> QED BY <1>4, <1>5, <2>1, <2>3, <2>4 DEF Alerted
<1>6. ASSUME NEW x \in job[j].todo, SaveExpired(x) PROVE WarnedMeansAlerted'
  <2>1. x.app \in Apps /\ Issued(x.app)
    BY TodoTypes DEF TodoIsTrue, TrueDelivery
  <2>2. licence[x.app] \in Licence
    BY <2>1, IssuedType
  <2>3. licence' = [licence EXCEPT ![x.app] =
                      [licence[x.app] EXCEPT !.status = "expired", !.expiredAlert = TRUE]]
    BY <1>6, SaveExpiredDoes
  <2>4. [licence[x.app] EXCEPT !.status = "expired", !.expiredAlert = TRUE].warned = licence[x.app].warned
    BY <2>2, ExpiredSave
  <2> QED BY <1>4, <2>1, <2>3, <2>4 DEF WarnedMeansAlerted
<1>7. ASSUME NEW x \in job[j].todo, Warn(j, x) PROVE WarnedMeansAlerted'
  <2>1. LeadTimes[job[j].loop] \in Leads
    BY <1>7 DEF Warn, Leads
  <2>2. CASE SendAlert(x, LeadTimes[job[j].loop])
    BY <1>3, <2>2 DEF SendAlert, register
  <2>3. CASE Second(j, x) /\ SaveWarned(x, LeadTimes[job[j].loop])
    <3>1. job[j].half = x.app /\ x.app # NoApp
      BY <2>3, TodoTypes, RegisterAssumption DEF Second
    <3>2. <<x.app, LeadTimes[job[j].loop]>> \in alerts
      BY <1>7, <3>1 DEF Warn, TodoIsTrue, TrueDelivery
    <3> QED BY <1>5, <2>1, <2>3, <3>2
  <2> QED BY <1>7, <2>2, <2>3 DEF Warn
<1>8. ASSUME NEW x \in job[j].todo, Expire(j, x) PROVE WarnedMeansAlerted'
  BY <1>3, <1>6, <1>8 DEF Expire, SendAlert, register
<1> QED BY <1>3, <1>7, <1>8, DeliveryWays DEF Rests, Begins, register

\* An approval, whichever of its steps, saves a licence without warnings or leaves them alone.
LEMMA IssueKeeps ==
  ASSUME NumberInv, NEW i \in Apps, IssueStep(i), NEW k \in Apps
  PROVE  /\ Issued(k) => /\ Issued(k)'
                         /\ licence'[k].warned = licence[k].warned
                         /\ licence'[k].expires = licence[k].expires
                         /\ licence'[k].status = "expired" => licence[k].status = "expired"
         /\ ~Issued(k) /\ Issued(k)' => licence'[k].warned = {} /\ licence'[k].status = "active"
<1>1. CASE UNCHANGED licence
  BY <1>1 DEF Issued
<1>2. ASSUME NEW grant \in Grants, NEW term \in Terms, IssueCommit(i, grant, term)
      PROVE  /\ Issued(k) => /\ Issued(k)'
                             /\ licence'[k].warned = licence[k].warned
                             /\ licence'[k].expires = licence[k].expires
                             /\ licence'[k].status = "expired" => licence[k].status = "expired"
             /\ ~Issued(k) /\ Issued(k)' => licence'[k].warned = {} /\ licence'[k].status = "active"
  <2>1. CommitEffect(i, grant, term)
    BY <1>2, CommitDoes
  <2>2. CASE k = i
    BY <2>1, <2>2 DEF CommitEffect, NewLicence
  <2>3. CASE licence'[k] = licence[k]
    BY <2>3 DEF Issued
  <2>4. CASE Issued(k) /\ k # i /\ licence'[k] = [licence[k] EXCEPT !.status = "renewed"]
    <3>1. licence[k] \in Licence
      BY <2>4, IssuedType DEF NumberInv
    <3>2. Issued(k)'
      BY <2>1, <2>4, CommitStaysIssued
    <3>3. /\ licence'[k].warned = licence[k].warned /\ licence'[k].expires = licence[k].expires
          /\ licence'[k].status = "renewed"
      BY <2>4, <3>1, RenewedIsLicence
    <3> QED BY <2>4, <3>2, <3>3
  <2> QED BY <2>1, <2>2, <2>3, <2>4 DEF CommitEffect
<1> QED BY <1>1, <1>2 DEF IssueStep, IssueBegin, IssueAbort

LEMMA WarnedIssues ==
  ASSUME NumberInv, TodoIsTrue, WarnedMeansAlerted, AlertedIssued,
         NEW i \in Apps, IssueStep(i), UNCHANGED taskVars
  PROVE  TodoIsTrue' /\ WarnedMeansAlerted' /\ AlertedIssued'
<1>1. UNCHANGED <<job, alerts>> /\ RegisterTypes
  BY DEF taskVars, NumberInv
<1>2. \A k \in Apps : Issued(k) => Issued(k)'
  BY IssueKeeps
<1>3. TodoIsTrue'
  BY <1>1, <1>2, TodoGrows
<1>4. ASSUME NEW k \in Apps, Issued(k)', NEW d \in licence'[k].warned PROVE <<k, d>> \in alerts'
  <2>1. Issued(k) /\ licence'[k].warned = licence[k].warned
    BY <1>4, IssueKeeps
  <2> QED BY <1>1, <1>4, <2>1 DEF WarnedMeansAlerted
<1>5. WarnedMeansAlerted'
  BY <1>4 DEF WarnedMeansAlerted
<1>6. AlertedIssued'
  BY <1>1, <1>2 DEF AlertedIssued
<1> QED BY <1>3, <1>5, <1>6

LEMMA AlertedTask ==
  ASSUME RegisterTypes, TodoIsTrue, AlertedIssued, NEW j \in Jobs, JobStep(j) \/ JobCrash(j)
  PROVE  AlertedIssued'
<1>1. \A i \in Apps : Issued(i)' <=> Issued(i)
  BY TaskAges, AgedStaysIssued
<1>2. CASE UNCHANGED alerts
  BY <1>1, <1>2 DEF AlertedIssued
<1>3. ASSUME NEW x \in job[j].todo, NEW what, SendAlert(x, what) PROVE AlertedIssued'
  <2>1. x.app \in Apps /\ Issued(x.app)
    BY TodoTypes DEF TodoIsTrue, TrueDelivery
  <2>2. ASSUME NEW i \in Apps, NEW d \in Leads \cup {OnExpiry}, <<i, d>> \in alerts' PROVE Issued(i)'
    BY <1>1, <1>3, <2>1, <2>2 DEF SendAlert, AlertedIssued
  <2> QED BY <2>2 DEF AlertedIssued
<1> QED BY <1>2, <1>3, DeliveryWays DEF Rests, Begins, Warn, Expire, SaveWarned, SaveExpired

-----------------------------------------------------------------------------
\* Days pass and last days stay.
LEMMA OverStays ==
  ASSUME NEW d \in Delivery, OverDelivery(d), TrueDelivery(d), day \in Nat, day' \in Nat, day <= day',
         \A i \in Apps : Issued(i) => licence'[i].expires = licence[i].expires
  PROVE  OverDelivery(d)'
<1>1. ASSUME NEW x \in d.todo PROVE licence'[x.app].expires = licence[x.app].expires
  BY DEF Delivery, Listed, TrueDelivery
<1>2. d.today <= day'
  BY DEF OverDelivery, Delivery
<1> QED BY <1>1, <1>2 DEF OverDelivery

LEMMA OverRests ==
  ASSUME RegisterTypes, TodoIsTrue, TodoIsOver, UNCHANGED job, day' \in Nat, day <= day',
         \A i \in Apps : Issued(i) => licence'[i].expires = licence[i].expires
  PROVE  TodoIsOver'
<1>1. ASSUME NEW j \in Jobs PROVE OverDelivery(job[j])'
  <2>1. PICK d \in Delivery : d = job[j]
    BY DEF RegisterTypes
  <2>2. OverDelivery(d) /\ TrueDelivery(d)
    BY <2>1 DEF TodoIsOver, TodoIsTrue
  <2>3. OverDelivery(d)'
    BY <2>2, OverStays DEF RegisterTypes, TypeOK
  <2>4. d = job'[j]
    BY <2>1
  <2> QED BY <2>3, <2>4
<1> QED BY <1>1 DEF TodoIsOver

LEMMA OverLoop ==
  ASSUME RegisterTypes, NEW k \in Nat, NEW today \in Nat, today <= day
  PROVE  OverDelivery(Loop(k, today))
<1>1. /\ Loop(k, today).loop = k /\ Loop(k, today).today = today
      /\ Loop(k, today).todo = {[app |-> i, warned |-> licence[i].warned, status |-> licence[i].status] : i \in Due(k, today)}
  BY LoopType
<1>2. ASSUME k = ExpiryLoop, NEW i \in Due(k, today) PROVE licence[i].expires < today
  BY <1>2 DEF Due
<1>3. ASSUME k = ExpiryLoop, NEW x \in Loop(k, today).todo PROVE licence[x.app].expires < today
  BY <1>1, <1>2, <1>3
<1> QED BY <1>1, <1>3 DEF OverDelivery

LEMMA AgedExpires ==
  ASSUME RegisterTypes, LicencesAge, NEW i \in Apps, Issued(i)
  PROVE  licence'[i].expires = licence[i].expires
BY DEF LicencesAge, Aged

LEMMA OverTask ==
  ASSUME RegisterTypes, TodoIsTrue, TodoIsOver, NEW j \in Jobs, JobStep(j) \/ JobCrash(j)
  PROVE  TodoIsOver'
<1>0. job \in [Jobs -> Delivery] /\ job[j] \in Delivery /\ day \in Nat
  BY DEF RegisterTypes, TypeOK
<1>1. UNCHANGED day /\ LicencesAge
  BY TaskAges
<1>2. \A i \in Apps : Issued(i) => licence'[i].expires = licence[i].expires
  BY <1>1, AgedExpires
<1>3. ASSUME NEW d \in Delivery, OverDelivery(d)', d = job'[j], \A k \in Jobs \ {j} : job'[k] = job[k]
      PROVE  TodoIsOver'
  <2>1. ASSUME NEW k \in Jobs PROVE OverDelivery(job[k])'
    <3>1. CASE k = j
      BY <1>3, <3>1
    <3>2. CASE k # j
      <4>1. PICK e \in Delivery : e = job[k]
        BY <1>0
      <4>2. OverDelivery(e) /\ TrueDelivery(e)
        BY <4>1 DEF TodoIsOver, TodoIsTrue
      <4>3. OverDelivery(e)'
        BY <1>0, <1>1, <1>2, <4>2, OverStays
      <4>4. e = job'[k]
        BY <1>3, <3>2, <4>1
      <4> QED BY <4>3, <4>4
    <3> QED BY <3>1, <3>2
  <2> QED BY <2>1 DEF TodoIsOver
<1>4. ASSUME NEW k \in Nat, NEW today \in Nat, today <= day, Begins(j, k, today) PROVE TodoIsOver'
  <2>1. PICK d \in Delivery : d = Loop(k, today)
    BY LoopType
  <2>2. OverDelivery(d)
    BY <1>4, <2>1, OverLoop
  <2>3. OverDelivery(d)'
    BY <1>1, <1>4, <2>2 DEF Begins, register, OverDelivery
  <2>4. d = job'[j] /\ \A m \in Jobs \ {j} : job'[m] = job[m]
    BY <1>0, <1>4, <2>1 DEF Begins
  <2> QED BY <1>3, <2>3, <2>4
<1>5. CASE Rests(j)
  <2>1. Idle \in Delivery /\ OverDelivery(Idle)'
    BY <1>0, <1>1 DEF Idle, Delivery, OverDelivery
  <2>2. Idle = job'[j] /\ \A m \in Jobs \ {j} : job'[m] = job[m]
    BY <1>0, <1>5 DEF Rests
  <2> QED BY <1>3, <2>1, <2>2
<1>6. ASSUME NEW x \in job[j].todo, First(j, x) \/ Second(j, x) PROVE TodoIsOver'
  <2>1. /\ job' \in [Jobs -> Delivery] /\ \A m \in Jobs \ {j} : job'[m] = job[m]
        /\ job'[j].loop = job[j].loop /\ job'[j].today = job[j].today
        /\ job'[j].todo \subseteq job[j].todo
    BY <1>6, HalfSteps
  <2>2. PICK d \in Delivery : d = job'[j]
    BY <2>1
  <2>3. PICK e \in Delivery : e = job[j]
    BY <1>0
  <2>4. OverDelivery(e) /\ TrueDelivery(e)
    BY <2>3 DEF TodoIsOver, TodoIsTrue
  <2>5. OverDelivery(e)'
    BY <1>0, <1>1, <1>2, <2>4, OverStays
  <2>6. d.loop = e.loop /\ d.today = e.today /\ d.todo \subseteq e.todo
    BY <2>1, <2>2, <2>3
  <2>7. OverDelivery(d)'
    BY <2>5, <2>6 DEF OverDelivery
  <2> QED BY <1>3, <2>1, <2>2, <2>7
<1>7. job[j].loop + 1 \in Nat /\ job[j].today \in Nat /\ job[j].today <= day
  BY <1>0 DEF Delivery, TodoIsOver, OverDelivery
<1> QED BY <1>0, <1>4, <1>5, <1>6, <1>7, DeliveryWays DEF Warn, Expire

\* An object of the loop for expired licences has run out.
LEMMA TodoRanOut ==
  ASSUME RegisterTypes, TodoIsTrue, TodoIsOver, NEW j \in Jobs, job[j].loop = ExpiryLoop,
         NEW x \in job[j].todo
  PROVE  x.app \in Apps /\ Issued(x.app) /\ licence[x.app] \in Licence /\ licence[x.app].expires < day
<1>1. x.app \in Apps /\ Issued(x.app) /\ job[j] \in Delivery /\ day \in Nat
  BY TodoTypes DEF TodoIsTrue, TrueDelivery, RegisterTypes, TypeOK
<1>2. licence[x.app] \in Licence
  BY <1>1, IssuedType
<1>3. licence[x.app].expires < job[j].today /\ job[j].today <= day
  BY DEF TodoIsOver, OverDelivery
<1>4. licence[x.app].expires \in Nat /\ job[j].today \in Nat
  BY <1>1, <1>2 DEF Licence, Delivery
<1> QED BY <1>1, <1>2, <1>3, <1>4

LEMMA EarlyTask ==
  ASSUME RegisterTypes, TodoIsTrue, TodoIsOver, NeverExpiredEarly,
         NEW j \in Jobs, JobStep(j) \/ JobCrash(j)
  PROVE  NeverExpiredEarly'
<1>0. licence \in [Apps -> Licence \cup {NoLicence}] /\ day \in Nat
  BY DEF RegisterTypes, TypeOK
<1>1. UNCHANGED day /\ LicencesAge
  BY TaskAges
<1>2. \A i \in Apps : (Issued(i)' <=> Issued(i)) /\ (Issued(i) => licence'[i].expires = licence[i].expires)
  BY <1>1, AgedExpires, AgedStaysIssued
<1>3. ASSUME \A i \in Apps :
               /\ licence'[i].status = "expired" => licence[i].status = "expired" \/ licence[i].expires < day
               /\ <<i, OnExpiry>> \in alerts' => <<i, OnExpiry>> \in alerts \/ licence[i].expires < day
      PROVE  NeverExpiredEarly'
  BY <1>1, <1>2, <1>3 DEF NeverExpiredEarly
<1>4. ASSUME NEW x \in job[j].todo, Warn(j, x) PROVE NeverExpiredEarly'
  <2>1. LeadTimes[job[j].loop] \in Leads /\ LeadTimes[job[j].loop] # OnExpiry
    BY <1>4, RegisterAssumption DEF Warn, Leads, OnExpiry
  <2>2. CASE SendAlert(x, LeadTimes[job[j].loop])
    BY <1>3, <2>1, <2>2 DEF SendAlert, register
  <2>3. CASE SaveWarned(x, LeadTimes[job[j].loop])
    <3>1. x.app \in Apps /\ Issued(x.app) /\ x.warned \cup {LeadTimes[job[j].loop]} \in SUBSET Leads
      BY <2>1, TodoTypes DEF TodoIsTrue, TrueDelivery
    <3>2. licence[x.app] \in Licence
      BY <3>1, IssuedType
    <3>3. licence' = [licence EXCEPT ![x.app] =
                        [licence[x.app] EXCEPT !.warned = x.warned \cup {LeadTimes[job[j].loop]}]]
      BY <2>1, <2>3, SaveWarnedDoes
    <3>4. \A i \in Apps : licence'[i].status = licence[i].status
      BY <1>0, <3>1, <3>2, <3>3, WarnedSave
    <3> QED BY <1>3, <2>3, <3>4 DEF SaveWarned
  <2> QED BY <1>4, <2>2, <2>3 DEF Warn
<1>5. ASSUME NEW x \in job[j].todo, Expire(j, x) PROVE NeverExpiredEarly'
  <2>1. x.app \in Apps /\ licence[x.app] \in Licence /\ licence[x.app].expires < day
    BY <1>5, TodoRanOut DEF Expire
  <2>2. CASE SaveExpired(x)
    <3>1. licence' = [licence EXCEPT ![x.app] =
                        [licence[x.app] EXCEPT !.status = "expired", !.expiredAlert = TRUE]]
      BY <2>2, SaveExpiredDoes
    <3>2. \A i \in Apps \ {x.app} : licence'[i] = licence[i]
      BY <1>0, <3>1
    <3> QED BY <1>3, <2>1, <2>2, <3>2 DEF SaveExpired
  <2>3. CASE SendAlert(x, OnExpiry)
    BY <1>3, <2>1, <2>3 DEF SendAlert, register
  <2> QED BY <1>5, <2>2, <2>3 DEF Expire
<1> QED BY <1>3, <1>4, <1>5, DeliveryWays DEF Rests, Begins, register

LEMMA EarlyIssues ==
  ASSUME NumberInv, AlertedIssued, NeverExpiredEarly,
         NEW i \in Apps, IssueStep(i), UNCHANGED taskVars
  PROVE  NeverExpiredEarly'
<1>1. UNCHANGED <<day, alerts>>
  BY DEF taskVars
<1>2. ASSUME NEW k \in Apps, Issued(k)', licence'[k].status = "expired" \/ <<k, OnExpiry>> \in alerts'
      PROVE  licence'[k].expires < day'
  <2>1. Issued(k)
    BY <1>1, <1>2, IssueKeeps DEF AlertedIssued
  <2>2. licence'[k].expires = licence[k].expires
        /\ (licence[k].status = "expired" \/ <<k, OnExpiry>> \in alerts)
    BY <1>1, <1>2, <2>1, IssueKeeps
  <2> QED BY <1>1, <2>1, <2>2 DEF NeverExpiredEarly
<1> QED BY <1>2 DEF NeverExpiredEarly

-----------------------------------------------------------------------------
(***************************************************************************)
(* The invariant of the register                                           *)
(***************************************************************************)
RegisterInv ==
  /\ NumberInv
  /\ WellShowsLatest
  /\ TodoIsTrue /\ WarnedMeansAlerted /\ AlertedIssued
  /\ TodoIsOver /\ NeverExpiredEarly

LEMMA InitRegister == Init => RegisterInv
<1> SUFFICES ASSUME Init PROVE RegisterInv
  OBVIOUS
<1>1. /\ day = 0 /\ crashes = 0 /\ alerts = {}
      /\ licence = [i \in Apps |-> NoLicence]
      /\ value = 0 /\ holder = NoApp
      /\ drawn = [c \in Apps |-> 0] /\ number = [c \in Apps |-> 0]
      /\ wellShows = [w \in Wells |-> 0]
      /\ job = [j \in Jobs |-> Idle]
  BY DEF Init, Number!Init
<1>2. \A i \in Apps : ~Issued(i)
  BY <1>1 DEF Issued
<1>3. \A j \in Jobs : job[j] = Idle
  BY <1>1
<1>4. RegisterTypes
  <2>1. job \in [Jobs -> Delivery]
    BY <1>1, IdleType
  <2>2. Number!TypeOK
    BY <1>1 DEF Number!TypeOK
  <2>3. licence \in [Apps -> Licence \cup {NoLicence}]
    BY <1>1
  <2>4. wellShows \in [Wells -> Nat]
    BY <1>1
  <2>5. ASSUME NEW j \in Jobs
        PROVE  /\ job[j].loop \in 0 .. ExpiryLoop
               /\ job[j].todo \subseteq [app : Apps, warned : SUBSET Leads, status : LicenceStatus]
               /\ job[j].half \in {NoApp} \cup {x.app : x \in job[j].todo}
    BY <1>3, IdleType, ExpiryLoopIsLast
  <2> QED BY <1>1, <2>1, <2>2, <2>3, <2>4, <2>5 DEF RegisterTypes, TypeOK
<1>5. Drawing /\ IssuedNumbered
  BY <1>1, <1>2 DEF Drawing, IssuedNumbered
<1>6. UpToValue /\ Number!NumbersDiffer
  BY <1>1 DEF UpToValue, Number!NumbersDiffer
<1>7. WellShowsLatest /\ WarnedMeansAlerted /\ AlertedIssued /\ NeverExpiredEarly
  BY <1>1, <1>2 DEF WellShowsLatest, WarnedMeansAlerted, AlertedIssued, NeverExpiredEarly
<1>8. TrueDelivery(Idle) /\ OverDelivery(Idle)
  BY <1>1, IdleType, ExpiryLoopIsLast DEF TrueDelivery, OverDelivery, Idle
<1>9. TodoIsTrue /\ TodoIsOver
  BY <1>3, <1>8 DEF TodoIsTrue, TodoIsOver
<1> QED BY <1>4, <1>5, <1>6, <1>7, <1>9 DEF RegisterInv, NumberInv

LEMMA RegisterIssues ==
  ASSUME RegisterInv, NEW i \in Apps, IssueStep(i), UNCHANGED taskVars
  PROVE  RegisterInv'
<1>1. RegisterTypes /\ job' = job /\ day' = day /\ day \in Nat
  BY DEF RegisterInv, NumberInv, RegisterTypes, TypeOK, taskVars
<1>2. NumberInv'
  BY IssueTypes, NumberInvIssues DEF RegisterInv
<1>3. WellShowsLatest'
  BY WellIssues DEF RegisterInv
<1>4. TodoIsTrue' /\ WarnedMeansAlerted' /\ AlertedIssued'
  BY WarnedIssues DEF RegisterInv
<1>5. TodoIsOver'
  <2>1. \A k \in Apps : Issued(k) => licence'[k].expires = licence[k].expires
    BY IssueKeeps DEF RegisterInv
  <2> QED BY <1>1, <2>1, OverRests DEF RegisterInv
<1>6. NeverExpiredEarly'
  BY EarlyIssues DEF RegisterInv
<1> QED BY <1>2, <1>3, <1>4, <1>5, <1>6 DEF RegisterInv

LEMMA RegisterTask ==
  ASSUME RegisterInv, NEW j \in Jobs, JobStep(j) \/ JobCrash(j)
  PROVE  RegisterInv'
<1>1. RegisterTypes /\ LicencesAge
  BY TaskAges DEF RegisterInv, NumberInv
<1>2. NumberInv'
  BY <1>1, TaskTypes, NumberInvAges DEF RegisterInv
<1>3. WellShowsLatest'
  BY <1>1, WellAges DEF RegisterInv
<1>4. TodoIsTrue' /\ WarnedMeansAlerted' /\ AlertedIssued'
  BY <1>1, TodoTask, WarnedTask, AlertedTask DEF RegisterInv
<1>5. TodoIsOver' /\ NeverExpiredEarly'
  BY <1>1, OverTask, EarlyTask DEF RegisterInv
<1> QED BY <1>2, <1>3, <1>4, <1>5 DEF RegisterInv

LEMMA RegisterRests ==
  ASSUME RegisterInv, UNCHANGED <<register, job, alerts, crashes>>, day' \in {day, day + 1}
  PROVE  RegisterInv'
<1>1. RegisterTypes /\ LicencesAge /\ day' \in Nat /\ day <= day' /\ day \in Nat
  BY NoneSaved DEF RegisterInv, NumberInv, RegisterTypes, TypeOK
<1>2. UNCHANGED <<licence, value, holder, drawn, number, wellShows, job, alerts, crashes>>
  BY DEF register, numbering
<1>3. RegisterTypes'
  BY <1>1, <1>2 DEF RegisterTypes, TypeOK, Number!TypeOK
<1>4. NumberInv' /\ WellShowsLatest'
  BY <1>1, <1>3, NumberInvAges, WellAges DEF RegisterInv
<1>5. \A i \in Apps : Issued(i)' <=> Issued(i)
  BY <1>2 DEF Issued
<1>6. TodoIsTrue'
  BY <1>1, <1>2, <1>5, TodoGrows DEF RegisterInv
<1>7. TodoIsOver'
  BY <1>1, <1>2, OverRests DEF RegisterInv
<1>8. WarnedMeansAlerted' /\ AlertedIssued'
  BY <1>2, <1>5 DEF RegisterInv, WarnedMeansAlerted, AlertedIssued
<1>9. NeverExpiredEarly'
  <2>1. ASSUME NEW i \in Apps, Issued(i), licence[i].expires < day PROVE licence[i].expires < day'
    <3>1. licence[i].expires \in Nat
      BY <1>1, <2>1, IssuedType DEF Licence
    <3> QED BY <1>1, <2>1, <3>1
  <2> QED BY <1>2, <1>5, <2>1 DEF RegisterInv, NeverExpiredEarly
<1> QED BY <1>4, <1>6, <1>7, <1>8, <1>9 DEF RegisterInv

LEMMA RegisterStep == RegisterInv /\ [Next]_vars => RegisterInv'
<1> SUFFICES ASSUME RegisterInv, [Next]_vars PROVE RegisterInv'
  OBVIOUS
<1>1. CASE Issuing
  BY <1>1, RegisterIssues DEF Issuing
<1>2. CASE Task
  BY <1>2, RegisterTask DEF Task
<1>3. CASE Midnight
  BY <1>3, RegisterRests DEF Midnight
<1>4. CASE UNCHANGED vars
  BY <1>4, RegisterRests DEF vars, taskVars
<1> QED BY <1>1, <1>2, <1>3, <1>4 DEF Next

LEMMA RegisterAlways == Spec => []RegisterInv
BY InitRegister, RegisterStep, PTL DEF Spec

\* Every licence, delivery of the task, number and alert is what the models say it may be.
THEOREM LicenceRegisterTypes == Spec => []TypeOK
<1>1. RegisterInv => TypeOK
  BY DEF RegisterInv, NumberInv, RegisterTypes
<1> QED BY <1>1, RegisterAlways, PTL

\* "Gap-free yearly sequences": no two licences have one number, none is left out, and a licence
\* is issued exactly when it has its number, whichever approvals overlap or fail.
THEOREM LicencesNumberedInOrder == Spec => []NumberedInOrder
<1>1. RegisterInv => NumberedInOrder
  BY DEF RegisterInv, NumberInv, UpToValue, IssuedNumbered, NumberedInOrder, Number!GapFree
<1> QED BY <1>1, RegisterAlways, PTL

\* A well shows the number of the last licence issued for it: the lock on the sequence row puts
\* the approvals for one well in the order of their numbers.
THEOREM WellsShowLatest == Spec => []WellShowsLatest
<1>1. RegisterInv => WellShowsLatest
  BY DEF RegisterInv
<1> QED BY <1>1, RegisterAlways, PTL

\* A licence on record as warned at a lead time really was, however many deliveries of
\* raise_expiry_alerts overlap, overwrite each other's saves and die half way.
THEOREM WarnedWereAlerted == Spec => []WarnedMeansAlerted
<1>1. RegisterInv => WarnedMeansAlerted
  BY DEF RegisterInv
<1> QED BY <1>1, RegisterAlways, PTL

\* No licence is declared expired, and nobody is told so, before its last day is over: not even
\* by a delivery of raise_expiry_alerts that straddles midnight.
THEOREM NothingExpiresEarly == Spec => []NeverExpiredEarly
<1>1. RegisterInv => NeverExpiredEarly
  BY DEF RegisterInv
<1> QED BY <1>1, RegisterAlways, PTL

-----------------------------------------------------------------------------
(***************************************************************************)
(* Renewals                                                                *)
(***************************************************************************)

\* Issuing takes no licence out of the state "renewed": a renewal names one that was issued,
\* and what is new is a licence that was not there.
LEMMA IssuingLeavesRenewed ==
  ASSUME RegisterInv, NEW i \in Apps, IssueStep(i), NEW k \in Apps, Renewed(k)
  PROVE  Renewed(k)'
<1>1. RegisterTypes /\ licence[k] \in Licence /\ licence[k] # NoLicence /\ licence[k].status = "renewed"
  BY IssuedType DEF RegisterInv, NumberInv, Renewed, Issued
<1>2. CASE UNCHANGED licence
  BY <1>2 DEF Renewed, Issued
<1>3. ASSUME NEW grant \in Grants, NEW term \in Terms, IssueCommit(i, grant, term) PROVE Renewed(k)'
  <2>1. k # i
    BY <1>1, <1>3 DEF IssueCommit, Number!Save, RegisterInv, NumberInv, Drawing, Issued
  <2>2. licence'[k] = IF k = RenewalOf[i] THEN [licence[k] EXCEPT !.status = "renewed"] ELSE licence[k]
    BY <1>3, <2>1 DEF IssueCommit
  <2>3. [licence[k] EXCEPT !.status = "renewed"] \in Licence
        /\ [licence[k] EXCEPT !.status = "renewed"].status = "renewed"
    BY <1>1 DEF Licence, LicenceStatus
  <2> QED BY <1>1, <2>2, <2>3, NoLicenceAssumption DEF Renewed, Issued
<1> QED BY <1>2, <1>3 DEF IssueStep, IssueBegin, IssueAbort

\* The task takes a licence out of it only by saving it as expired, from a list that has it as
\* active.
LEMMA TaskNeedsListed ==
  ASSUME RegisterInv, NEW j \in Jobs, JobStep(j) \/ JobCrash(j), NEW k \in Apps, Renewed(k), ~ListedActive(k)
  PROVE  Renewed(k)'
<1>1. RegisterTypes /\ TodoIsTrue /\ licence[k] \in Licence
  BY IssuedType DEF RegisterInv, NumberInv, Renewed
<1>2. CASE UNCHANGED licence
  BY <1>2 DEF Renewed, Issued
<1>3. ASSUME NEW x \in job[j].todo, Warn(j, x), ~UNCHANGED licence PROVE Renewed(k)'
  <2>1. LeadTimes[job[j].loop] \in Leads /\ SaveWarned(x, LeadTimes[job[j].loop])
    BY <1>3 DEF Warn, Leads, SendAlert, register
  <2>2. licence' = [licence EXCEPT ![x.app] =
                      [licence[x.app] EXCEPT !.warned = x.warned \cup {LeadTimes[job[j].loop]}]]
    BY <1>1, <2>1, SaveWarnedDoes
  <2>3. x.app \in Apps /\ x.warned \cup {LeadTimes[job[j].loop]} \in SUBSET Leads
    BY <1>1, <2>1, TodoTypes
  <2>4. CASE x.app # k
    BY <1>1, <2>2, <2>3, <2>4 DEF Renewed, Issued, RegisterTypes, TypeOK
  <2>5. CASE x.app = k
    <3>1. licence'[k] = [licence[k] EXCEPT !.warned = x.warned \cup {LeadTimes[job[j].loop]}]
      BY <1>1, <2>2, <2>3, <2>5 DEF RegisterTypes, TypeOK
    <3> QED BY <1>1, <2>3, <3>1, WarnedSave, NoLicenceAssumption DEF Renewed, Issued
  <2> QED BY <2>4, <2>5
<1>4. ASSUME NEW x \in job[j].todo, Expire(j, x), ~UNCHANGED licence PROVE Renewed(k)'
  <2>1. job[j].loop = ExpiryLoop /\ SaveExpired(x)
    BY <1>4 DEF Expire, SendAlert, register
  <2>2. x.app \in Apps /\ x.status = "active"
    BY <1>1 DEF RegisterTypes, Delivery, Listed
  <2>3. x.app # k
    BY <2>1, <2>2 DEF ListedActive
  <2> QED BY <1>1, <2>1, <2>2, <2>3 DEF SaveExpired, Renewed, Issued, RegisterTypes, TypeOK
<1> QED BY <1>2, <1>3, <1>4 DEF JobStep, JobCrash, JobStart, JobNextLoop, register

\* A renewal is for good but for a delivery of raise_expiry_alerts that had listed the licence
\* while it was active: for any number of deliveries that overlap and die half way.
THEOREM RenewalsLast == Spec => RenewalLasts
<1>1. RegisterInv /\ [Next]_vars => [\A i \in Apps : Renewed(i) /\ ~Renewed(i)' => ListedActive(i)]_vars
  <2> SUFFICES ASSUME RegisterInv, Next, NEW i \in Apps, Renewed(i), ~Renewed(i)', ~ListedActive(i)
               PROVE  FALSE
    OBVIOUS
  <2>1. CASE Issuing
    BY <2>1, IssuingLeavesRenewed DEF Issuing
  <2>2. CASE Task
    BY <2>2, TaskNeedsListed DEF Task
  <2>3. CASE Midnight
    BY <2>3 DEF Midnight, register, Renewed, Issued
  <2> QED BY <2>1, <2>2, <2>3 DEF Next
<1> QED BY <1>1, RegisterAlways, PTL DEF Spec, RenewalLasts
=============================================================================
