SPECIFICATION SubmissionSpec
CONSTANTS
  Items = {s1, s2}
  Users <- MCUsers
  Superusers = {}
  Groups = {"approver"}
  MemberOf <- MCMemberOf
  Units = {"RMU"}
  NoUnit = "none"
  UnitOf <- MCUnitOf
  Stages = {"review", "approve"}
  NoStage = "no_stage"
  Order <- MCOrder
  ApproverGroup <- MCGroup
  OwningUnit <- MCOwner
  SubjectUnit <- MCSubject
  CanReturnTo <- MCReturns
  CanReject = {"review", "approve"}
  CanReturnToSubmitter = {"review", "approve"}
  AllowSubmitterWithdraw = TRUE
  NoUser = "nobody"
  MaxActions = 3
  Garbage = garbage
  Fields <- MCFields
  Rules <- MCRules
  Tolerance = 0
  GrantedDaily <- MCGranted
  Submitters = {"anna"}
  Uploads <- MCUploads
  Channels = {"form", "api"}
  Keys = {"k"}
  NoKey = ""
  Generic = FALSE
  Unstorable = {}
  DataClasses = {"public"}
  OnRecord = {old}
  NoObservation = no_observation
  OriginalValue = original
  Requests = {r1, r2}
  MaxStamps = 2
INVARIANT KeyUsedOnce
SYMMETRY Interchangeable
CHECK_DEADLOCK FALSE
