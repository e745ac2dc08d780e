SPECIFICATION ReviewSpec
CONSTANTS
  Items = {app1}
  Users <- MCUsers
  Superusers = {}
  Groups = {"officer"}
  MemberOf <- MCMemberOf
  Units = {"PLU"}
  NoUnit = "none"
  UnitOf <- MCUnitOf
  Stages <- MCStages
  NoStage = "no_stage"
  Order <- MCOrder
  ApproverGroup <- MCGroup
  OwningUnit <- MCOwner
  SubjectUnit <- MCSubject
  CanReturnTo <- MCReturns
  CanReject = {"director"}
  CanReturnToSubmitter = {"hydrogeology"}
  AllowSubmitterWithdraw = TRUE
  NoUser = "nobody"
  MaxActions = 4
  Applicant <- MCApplicant
  AssessmentStages = {"hydrogeology"}
  Forms <- MCTwoVolumes
  Requested = "requested"
  Typed = {"typed"}
  NoWmu = "no_wmu"
  NoAssessment = no_assessment
  NoVolume = "as_requested"
  RenewalOf <- MCNotRenewal
  NoItem = "no_item"
  WellOf <- MCWell
  Wells = {"well"}
  NoWell = "no_well"
  NoLicence = no_licence
  Requests = {r1, r2}
  Scans = {"clean"}
  WorkersDie = TRUE
INVARIANTS DecisionMirrored AssessedBeforeGranted GrantedVolumeOnRecord
SYMMETRY AnyWorker
CHECK_DEADLOCK FALSE
