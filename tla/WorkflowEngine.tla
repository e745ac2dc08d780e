--------------------------- MODULE WorkflowEngine ---------------------------
(***************************************************************************)
(* The approval engine: src/apps/workflow/engine.py over the tables of     *)
(* src/apps/workflow/models.py, for the items of one WorkflowDefinition.   *)
(*                                                                         *)
(* Every engine function is one transaction that begins by locking the     *)
(* item's WorkflowInstance row and reading it afresh, so it is one action  *)
(* here.  A function that raises WorkflowError or NotAuthorised rolls its  *)
(* transaction back and changes nothing: it is the action not being        *)
(* enabled.  The subject's hooks (workflow_can_advance, on_workflow_...)   *)
(* belong to the modules that compose this one with a subject.             *)
(***************************************************************************)
EXTENDS Integers, Sequences

CONSTANTS
  Items,                 \* subjects, each the key of at most one instance
  Users, Superusers,
  Groups, MemberOf,      \* auth groups, and the groups of each user
  Units, NoUnit, UnitOf, \* WRA units, and the unit of each user
  Stages, NoStage,       \* the stages of the definition
  Order,                 \* WorkflowStage.order
  ApproverGroup,         \* WorkflowStage.approver_group
  OwningUnit,            \* WorkflowStage.owning_unit
  SubjectUnit,           \* subject.owning_unit
  CanReturnTo,           \* WorkflowStage.can_return_to
  CanReject,             \* the stages with can_reject
  CanReturnToSubmitter,  \* the stages with can_return_to_submitter
  AllowSubmitterWithdraw,
  NoUser,
  MaxActions             \* bound: actions recorded for one item

ASSUME ActorsAssumption ==
  /\ Superusers \subseteq Users
  /\ NoUser \notin Users
  /\ MemberOf \in [Users -> SUBSET Groups]
  /\ UnitOf \in [Users -> Units \cup {NoUnit}]
  /\ NoUnit \notin Units

ASSUME StagesAssumption ==
  /\ NoStage \notin Stages
  /\ Order \in [Stages -> Nat]
  /\ \A s, t \in Stages : Order[s] = Order[t] => s = t    \* uq_stage_order
  /\ ApproverGroup \in [Stages -> Groups]
  /\ OwningUnit \in [Stages -> Units \cup {NoUnit}]
  /\ SubjectUnit \in [Items -> Units \cup {NoUnit}]
  /\ CanReturnTo \in [Stages -> SUBSET Stages]
  /\ CanReject \subseteq Stages
  /\ CanReturnToSubmitter \subseteq Stages
  /\ AllowSubmitterWithdraw \in BOOLEAN

ASSUME BoundAssumption == MaxActions \in Nat

VARIABLES
  state,         \* WorkflowInstance.state, "absent" before start
  currentStage,  \* WorkflowInstance.current_stage
  submitter,     \* WorkflowInstance.submitter
  closedAt,      \* WorkflowInstance.closed_at is set
  enteredAt,     \* WorkflowInstance.stage_entered_at, as the number of the
                 \* action recorded at that time
  actions        \* the WorkflowAction rows of the item, oldest first

vars == <<state, currentStage, submitter, closedAt, enteredAt, actions>>

InstanceState ==
  {"in_progress", "info_requested", "approved", "rejected", "withdrawn"}

Deciding == {"submit", "approve", "final_approve", "reject", "return",
             "request_info", "resubmit", "withdraw"}

ActionType == Deciding \cup {"comment"}

WorkflowAction ==
  [action : ActionType, actor : Users,
   from : Stages \cup {NoStage}, to : Stages \cup {NoStage}]

-----------------------------------------------------------------------------
(* Stages.                                                                 *)

IsFirst(s) == \A t \in Stages : Order[s] <= Order[t]

(* The fault the next definition is tested with: order__gte and a skipped  *)
(* stage, instead of the closest order__gt.                                *)
AnyLaterStage(s, t) == Order[t] > Order[s]

IsNext(s, t) ==
  /\ Order[t] > Order[s]
  /\ \A u \in Stages : Order[u] > Order[s] => Order[t] <= Order[u]

IsFinal(s) == \A t \in Stages : Order[t] <= Order[s]

-----------------------------------------------------------------------------
(* Who may act.                                                            *)

OwnerForStage(i, s) ==
  IF OwningUnit[s] # NoUnit THEN OwningUnit[s] ELSE SubjectUnit[i]

UnitMayAct(u, i, s) ==
  OwnerForStage(i, s) \in {NoUnit, UnitOf[u]}

StageActor(u, i, s) ==
  \/ u \in Superusers
  \/ ApproverGroup[s] \in MemberOf[u] /\ UnitMayAct(u, i, s)

(* Fault: only an approved instance counts as closed.                      *)
NotYetApproved(i) == state[i] \notin {"absent", "approved"}

IsOpen(i) == state[i] \in {"in_progress", "info_requested"}

(* Fault: no look at the state, only at whether the item is open.          *)
OpenIsEnough(i) == IsOpen(i)

MayApprove(i) == state[i] = "in_progress"

RequireStageActor(i, u) ==
  /\ currentStage[i] # NoStage
  /\ StageActor(u, i, currentStage[i])

IsSubmitter(u, i) == u = submitter[i] \/ u \in Superusers

-----------------------------------------------------------------------------
(* One WorkflowAction row, inserted after the rows already there.          *)

Record(i, a, u, from, to) ==
  /\ Len(actions[i]) < MaxActions
  /\ actions' = [actions EXCEPT ![i] =
       Append(@, [action |-> a, actor |-> u, from |-> from, to |-> to])]

(* The stage is saved with the time it was entered.                        *)
(* Fault: the clock of the stage is left running.                          *)
MoveWithoutClock(i, s) ==
  /\ currentStage' = [currentStage EXCEPT ![i] = s]
  /\ UNCHANGED enteredAt

EnterStage(i, s) ==
  /\ currentStage' = [currentStage EXCEPT ![i] = s]
  /\ enteredAt' = [enteredAt EXCEPT ![i] = Len(actions[i]) + 1]

(* Fault: closed_at is left out of update_fields.                          *)
CloseUntimed(i, verdict) ==
  /\ state' = [state EXCEPT ![i] = verdict]
  /\ UNCHANGED closedAt

CloseAs(i, verdict) ==
  /\ state' = [state EXCEPT ![i] = verdict]
  /\ closedAt' = [closedAt EXCEPT ![i] = TRUE]

-----------------------------------------------------------------------------
(* The public functions of engine.py.                                      *)

(* The exists() check and uq_workflow_subject allow one instance for ever. *)
Start(i, u) ==
  /\ state[i] = "absent"
  /\ \E s \in Stages :
       /\ IsFirst(s)
       /\ EnterStage(i, s)
       /\ Record(i, "submit", u, NoStage, s)
  /\ state' = [state EXCEPT ![i] = "in_progress"]
  /\ submitter' = [submitter EXCEPT ![i] = u]
  /\ UNCHANGED closedAt

Advance(i, u) ==
  /\ MayApprove(i)
  /\ RequireStageActor(i, u)
  /\ \E t \in Stages :
       /\ IsNext(currentStage[i], t)
       /\ EnterStage(i, t)
       /\ Record(i, "approve", u, currentStage[i], t)
  /\ UNCHANGED <<state, submitter, closedAt>>

FinalApprove(i, u) ==
  /\ MayApprove(i)
  /\ RequireStageActor(i, u)
  /\ IsFinal(currentStage[i])
  /\ CloseAs(i, "approved")
  /\ Record(i, "final_approve", u, currentStage[i], NoStage)
  /\ UNCHANGED <<currentStage, submitter, enteredAt>>

Approve(i, u) == Advance(i, u) \/ FinalApprove(i, u)

Reject(i, u) ==
  /\ IsOpen(i)
  /\ RequireStageActor(i, u)
  /\ currentStage[i] \in CanReject
  /\ CloseAs(i, "rejected")
  /\ Record(i, "reject", u, currentStage[i], NoStage)
  /\ UNCHANGED <<currentStage, submitter, enteredAt>>

ReturnTo(i, u, target) ==
  /\ IsOpen(i)
  /\ RequireStageActor(i, u)
  /\ target \in CanReturnTo[currentStage[i]]
  /\ EnterStage(i, target)
  /\ state' = [state EXCEPT ![i] = "in_progress"]
  /\ Record(i, "return", u, currentStage[i], target)
  /\ UNCHANGED <<submitter, closedAt>>

RequestInfo(i, u) ==
  /\ IsOpen(i)
  /\ RequireStageActor(i, u)
  /\ currentStage[i] \in CanReturnToSubmitter
  /\ state' = [state EXCEPT ![i] = "info_requested"]
  /\ Record(i, "request_info", u, currentStage[i], NoStage)
  /\ UNCHANGED <<currentStage, submitter, closedAt, enteredAt>>

Resubmit(i, u) ==
  /\ state[i] = "info_requested"
  /\ IsSubmitter(u, i)
  /\ state' = [state EXCEPT ![i] = "in_progress"]
  /\ EnterStage(i, currentStage[i])
  /\ Record(i, "resubmit", u, NoStage, currentStage[i])
  /\ UNCHANGED <<submitter, closedAt>>

Withdraw(i, u) ==
  /\ IsOpen(i)
  /\ AllowSubmitterWithdraw
  /\ IsSubmitter(u, i)
  /\ CloseAs(i, "withdrawn")
  /\ Record(i, "withdraw", u, currentStage[i], NoStage)
  /\ UNCHANGED <<currentStage, submitter, enteredAt>>

(* No look at the state and none at who is writing.                        *)
Comment(i, u) ==
  /\ state[i] # "absent"
  /\ Record(i, "comment", u, currentStage[i], NoStage)
  /\ UNCHANGED <<state, currentStage, submitter, closedAt, enteredAt>>

(* The review queue: superusers see every item in progress, everyone else  *)
(* those at a stage of one of their groups that their unit may act on.     *)
(* Fault: parked items are listed too.                                     *)
QueueOfOpen(u) ==
  {i \in Items : IsOpen(i) /\ StageActor(u, i, currentStage[i])}

QueueFor(u) ==
  {i \in Items :
     /\ state[i] = "in_progress"
     /\ \/ u \in Superusers
        \/ /\ ApproverGroup[currentStage[i]] \in MemberOf[u]
           /\ UnitMayAct(u, i, currentStage[i])}

-----------------------------------------------------------------------------
Init ==
  /\ state        = [i \in Items |-> "absent"]
  /\ currentStage = [i \in Items |-> NoStage]
  /\ submitter    = [i \in Items |-> NoUser]
  /\ closedAt     = [i \in Items |-> FALSE]
  /\ enteredAt    = [i \in Items |-> 0]
  /\ actions      = [i \in Items |-> << >>]

Step(i, u) ==
  \/ Start(i, u)
  \/ Advance(i, u)
  \/ FinalApprove(i, u)
  \/ Reject(i, u)
  \/ \E t \in Stages : ReturnTo(i, u, t)
  \/ RequestInfo(i, u)
  \/ Resubmit(i, u)
  \/ Withdraw(i, u)
  \/ Comment(i, u)

Next == \E i \in Items, u \in Users : Step(i, u)

Spec == Init /\ [][Next]_vars

-----------------------------------------------------------------------------
(* Properties.                                                             *)

TypeOK ==
  /\ state \in [Items -> InstanceState \cup {"absent"}]
  /\ currentStage \in [Items -> Stages \cup {NoStage}]
  /\ submitter \in [Items -> Users \cup {NoUser}]
  /\ closedAt \in [Items -> BOOLEAN]
  /\ enteredAt \in [Items -> Nat]
  /\ actions \in [Items -> Seq(WorkflowAction)]

(* Where an action leaves the item, and where it found it.                 *)
Landing(e) == IF e.to # NoStage THEN e.to ELSE e.from
Whence(e)  == IF e.from # NoStage THEN e.from ELSE e.to

(* The state each deciding action leaves the instance in.                  *)
Outcome ==
  [submit |-> "in_progress", approve |-> "in_progress",
   final_approve |-> "approved", reject |-> "rejected",
   return |-> "in_progress", request_info |-> "info_requested",
   resubmit |-> "in_progress", withdraw |-> "withdrawn"]

(* Row k is the last of the item's rows that is not a comment.             *)
LastDecision(i, k) ==
  /\ k \in DOMAIN actions[i]
  /\ actions[i][k].action \in Deciding
  /\ \A j \in DOMAIN actions[i] : j > k => actions[i][j].action = "comment"

(* The instance is what its log says it is: its last decision gives its    *)
(* state and stage, and it has a closing time just when that decision      *)
(* closed it.  An action that saved the one and forgot the other would     *)
(* leave a history that contradicts the item's page.                       *)
LogDecidesState ==
  \A i \in Items :
    \/ /\ state[i] = "absent"
       /\ currentStage[i] = NoStage
       /\ ~closedAt[i]
       /\ actions[i] = << >>
    \/ /\ \E k \in DOMAIN actions[i] :
            /\ LastDecision(i, k)
            /\ state[i] = Outcome[actions[i][k].action]
            /\ currentStage[i] = Landing(actions[i][k])
       /\ currentStage[i] # NoStage
       /\ closedAt[i] <=> state[i] \in {"approved", "rejected", "withdrawn"}

(* The log is one walk through the stages: it opens with the submission    *)
(* and each row starts from where the one before it ended.  Two actions    *)
(* that interleaved, or one that worked on a stale instance, would leave   *)
(* a row that starts somewhere else.                                       *)
LogIsAWalk ==
  \A i \in Items :
    \A k \in DOMAIN actions[i] :
      /\ k = 1 <=> actions[i][k].action = "submit"
      /\ k > 1 => Whence(actions[i][k]) = Landing(actions[i][k - 1])

(* stage_entered_at, by which the queue is sorted, is the time of the last *)
(* action that put the item at a stage (or back in front of it, when the   *)
(* submitter answers), however many questions and comments came after.     *)
StageClock ==
  \A i \in Items :
    actions[i] # << >> =>
      /\ enteredAt[i] \in DOMAIN actions[i]
      /\ actions[i][enteredAt[i]].to # NoStage
      /\ \A j \in DOMAIN actions[i] :
           j > enteredAt[i] => actions[i][j].to = NoStage

IsApproval(e) == e.action \in {"approve", "final_approve"}

(* Stage s stands approved: an entitled member of its group and unit       *)
(* approved it, and the item has not since been returned to s or to a      *)
(* stage before it.                                                        *)
SignedOffAt(i, s) ==
  \E k \in DOMAIN actions[i] :
    /\ IsApproval(actions[i][k])
    /\ actions[i][k].from = s
    /\ StageActor(actions[i][k].actor, i, s)
    /\ \A j \in DOMAIN actions[i] :
         j > k /\ actions[i][j].action = "return" =>
           Order[actions[i][j].to] > Order[s]

(* No stage is skipped: every stage an item has left behind stands         *)
(* approved, and an approved item stands approved at every stage of its    *)
(* definition.  It needs ReturnsGoBack, which is how bootstrap_workflows   *)
(* configures the stages and what nothing in the code enforces.            *)
ReturnsGoBack == \A s \in Stages : \A t \in CanReturnTo[s] : Order[t] < Order[s]

NoStageSkipped ==
  \A i \in Items : \A s \in Stages :
    \/ state[i] = "approved"
    \/ currentStage[i] # NoStage /\ Order[s] < Order[currentStage[i]]
    => SignedOffAt(i, s)

(* While the submitter owes an answer nobody approves: the next decision   *)
(* after a request for information is never an approval, whatever was      *)
(* commented in between.                                                   *)
ParkedNotApproved ==
  \A i \in Items : \A k, m \in DOMAIN actions[i] :
    /\ k < m
    /\ actions[i][k].action = "request_info"
    /\ \A j \in k+1 .. m-1 : actions[i][j].action = "comment"
    => ~IsApproval(actions[i][m])

(* The queue page lists exactly the items its reader could approve now:    *)
(* queue_for and the checks of approve are two pieces of code that have to *)
(* agree.                                                                  *)
QueueIsApprovable ==
  \A i \in Items, u \in Users :
    Len(actions[i]) < MaxActions =>
      (i \in QueueFor(u) <=> ENABLED Approve(i, u))

(* The action panel: "The item comes back to your queue when they          *)
(* resubmit; until then it can only be commented on or rejected" (the      *)
(* submitter may still withdraw it).                                       *)
ParkedOnlyCommentedOrRejected ==
  [][\A i \in Items :
       state[i] = "info_requested" /\ actions'[i] # actions[i] =>
         actions'[i][Len(actions'[i])].action
           \in {"comment", "reject", "resubmit", "withdraw"}]_vars

-----------------------------------------------------------------------------
(* The engine implements the review case it promises.                      *)
CasePhase ==
  [i \in Items |->
     CASE state[i] = "absent" -> "none"
       [] state[i] \in {"in_progress", "info_requested"} -> "open"
       [] OTHER -> state[i]]

Case == INSTANCE ReviewCase
          WITH phase <- CasePhase, history <- actions, Entry <- WorkflowAction

IsAReviewCase == Case!Spec
=============================================================================
