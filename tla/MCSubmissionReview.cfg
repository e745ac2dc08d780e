SPECIFICATION SubmissionSpec
CONSTANTS
  Items = {s1, s2}
  Users <- MCUsers
  Superusers = {}
  Groups = {"approver"}
  MemberOf <- MCMemberOf
  Units = {"RMU"}
  NoUnit = "none"
  UnitOf <- MCUnitOf
  Stages = {"review", "approve"}
  NoStage = "no_stage"
  Order <- MCOrder
  ApproverGroup <- MCGroup
  OwningUnit <- MCOwner
  SubjectUnit <- MCSubject
  CanReturnTo <- MCReturns
  CanReject = {"approve"}
  CanReturnToSubmitter = {"review"}
  AllowSubmitterWithdraw = TRUE
  NoUser = "nobody"
  MaxActions = 4
  Garbage = garbage
  Fields <- MCFields
  Rules <- MCRules
  Tolerance = 0
  GrantedDaily <- MCGranted
  Submitters = {"anna"}
  Uploads <- MCUploads
  Channels = {"form", "csv"}
  Keys = {}
  NoKey = ""
  Generic = FALSE
  Unstorable = {}
  DataClasses = {"public"}
  OnRecord = {old}
  NoObservation = no_observation
  OriginalValue = original
  Requests = {r1, r2}
  MaxStamps = 2
INVARIANTS ApprovedIsPublished StatusFollowsReview NoDuplicatePublished EveryCorrectionOnRecord
PROPERTIES EngineSteps RecordsSteps
CONSTRAINT FewActions
SYMMETRY Interchangeable
CHECK_DEADLOCK FALSE
