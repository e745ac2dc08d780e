SPECIFICATION Spec
CONSTANTS
  Items = {app}
  Users <- MCUsers
  Superusers = {"root"}
  Groups = {"reviewer", "approver"}
  MemberOf <- MCMemberOf
  Units = {"PLU", "RMU"}
  NoUnit = "none"
  UnitOf <- MCUnitOf
  Stages <- MCStages
  NoStage = "no_stage"
  Order <- MCOrder
  ApproverGroup <- MCGroup
  OwningUnit <- MCOwner
  SubjectUnit <- MCSubject
  CanReturnTo <- MCReturns
  CanReject <- MCReject
  CanReturnToSubmitter <- MCAsk
  AllowSubmitterWithdraw = TRUE
  NoUser = "nobody"
  MaxActions = 6
INVARIANTS LogDecidesState StageClock NoStageSkipped ParkedNotApproved QueueIsApprovable
PROPERTIES IsAReviewCase
CHECK_DEADLOCK FALSE
