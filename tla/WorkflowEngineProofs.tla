------------------------ MODULE WorkflowEngineProofs ------------------------
(***************************************************************************)
(* Proofs about WorkflowEngine, for every set of items, users, groups,     *)
(* units and stages.                                                       *)
(***************************************************************************)
EXTENDS WorkflowEngine, WellFoundedInduction, TLAPS

Row(a, u, from, to) == [action |-> a, actor |-> u, from |-> from, to |-> to]

(* The log of item i grew by the row e, and no other log changed.          *)
Grown(i, e) ==
  /\ e \in WorkflowAction
  /\ actions' \in [Items -> Seq(WorkflowAction)]
  /\ Len(actions'[i]) = Len(actions[i]) + 1
  /\ DOMAIN actions'[i] = 1 .. Len(actions[i]) + 1
  /\ DOMAIN actions[i] = 1 .. Len(actions[i])
  /\ Len(actions[i]) \in Nat
  /\ actions'[i][Len(actions[i]) + 1] = e
  /\ \A k \in DOMAIN actions[i] : actions'[i][k] = actions[i][k]
  /\ \A j \in Items : j # i => actions'[j] = actions[j]

(* Record appends: the earlier rows stay where they were.                  *)
LEMMA RecordGrows ==
  ASSUME TypeOK, NEW i \in Items, NEW a \in ActionType, NEW u \in Users,
         NEW from \in Stages \cup {NoStage}, NEW to \in Stages \cup {NoStage},
         Record(i, a, u, from, to)
  PROVE  /\ Grown(i, Row(a, u, from, to))
         /\ actions'[i] = Append(actions[i], Row(a, u, from, to))
<1> DEFINE L == actions[i]
           e == Row(a, u, from, to)
<1>1. e \in WorkflowAction
  BY DEF Row, WorkflowAction
<1>2. L \in Seq(WorkflowAction)
  BY DEF TypeOK
<1>3. actions' = [actions EXCEPT ![i] = Append(L, e)]
  BY DEF Record, Row
<1>4. /\ actions'[i] = Append(L, e)
      /\ \A j \in Items : j # i => actions'[j] = actions[j]
  BY <1>3 DEF TypeOK
<1>5. /\ Append(L, e) \in Seq(WorkflowAction)
      /\ Len(Append(L, e)) = Len(L) + 1
      /\ DOMAIN Append(L, e) = 1 .. Len(L) + 1
      /\ DOMAIN L = 1 .. Len(L)
      /\ Len(L) \in Nat
      /\ Append(L, e)[Len(L) + 1] = e
      /\ \A k \in DOMAIN L : Append(L, e)[k] = L[k]
  <2> HIDE DEF L, e
  <2> QED BY <1>1, <1>2
<1>6. actions' \in [Items -> Seq(WorkflowAction)]
  <2> HIDE DEF L, e
  <2> QED BY <1>3, <1>5 DEF TypeOK
<1> QED
  BY <1>1, <1>4, <1>5, <1>6 DEF Grown

-----------------------------------------------------------------------------
(* Every variable of the engine keeps its type.                            *)
LEMMA TypeStep == TypeOK /\ [Next]_vars => TypeOK'
<1> SUFFICES ASSUME TypeOK, [Next]_vars PROVE TypeOK'
  OBVIOUS
<1>1. /\ {"submit", "approve", "final_approve", "reject", "return",
          "request_info", "resubmit", "withdraw", "comment"} \subseteq ActionType
      /\ Items = DOMAIN actions
  BY DEF ActionType, Deciding, TypeOK
<1> DEFINE Log == actions' \in [Items -> Seq(WorkflowAction)]
<1>2. ASSUME NEW i \in Items, NEW a \in ActionType, NEW u \in Users,
             NEW from \in Stages \cup {NoStage}, NEW to \in Stages \cup {NoStage},
             Record(i, a, u, from, to)
      PROVE  Log /\ Len(actions[i]) + 1 \in Nat
  <2>1. Grown(i, Row(a, u, from, to))
    BY <1>2, RecordGrows
  <2> QED
    BY <2>1 DEF Grown
<1> HIDE DEF Log
<1>3. ASSUME NEW i \in Items, NEW u \in Users, Start(i, u) PROVE TypeOK'
  <2>1. PICK s \in Stages : EnterStage(i, s) /\ Record(i, "submit", u, NoStage, s)
    BY <1>3 DEF Start
  <2>2. Log /\ Len(actions[i]) + 1 \in Nat
    BY <1>1, <1>2, <2>1
  <2> QED
    BY <1>3, <2>1, <2>2 DEF Start, EnterStage, TypeOK, InstanceState, Log
<1>4. ASSUME NEW i \in Items, NEW u \in Users, Advance(i, u) PROVE TypeOK'
  <2>1. PICK t \in Stages : EnterStage(i, t) /\ Record(i, "approve", u, currentStage[i], t)
    BY <1>4 DEF Advance
  <2>2. Log /\ Len(actions[i]) + 1 \in Nat
    BY <1>1, <1>2, <2>1 DEF TypeOK
  <2> QED
    BY <1>4, <2>1, <2>2 DEF Advance, EnterStage, TypeOK, Log
<1>5. ASSUME NEW i \in Items, NEW u \in Users, FinalApprove(i, u) PROVE TypeOK'
  <2>1. Log
    BY <1>1, <1>2, <1>5 DEF FinalApprove, TypeOK
  <2> QED
    BY <1>5, <2>1 DEF FinalApprove, CloseAs, TypeOK, InstanceState, Log
<1>6. ASSUME NEW i \in Items, NEW u \in Users, Reject(i, u) PROVE TypeOK'
  <2>1. Log
    BY <1>1, <1>2, <1>6 DEF Reject, TypeOK
  <2> QED
    BY <1>6, <2>1 DEF Reject, CloseAs, TypeOK, InstanceState, Log
<1>7. ASSUME NEW i \in Items, NEW u \in Users, NEW t \in Stages, ReturnTo(i, u, t)
      PROVE  TypeOK'
  <2>1. Log /\ Len(actions[i]) + 1 \in Nat
    BY <1>1, <1>2, <1>7 DEF ReturnTo, TypeOK
  <2> QED
    BY <1>7, <2>1 DEF ReturnTo, EnterStage, TypeOK, InstanceState, Log
<1>8. ASSUME NEW i \in Items, NEW u \in Users, RequestInfo(i, u) PROVE TypeOK'
  <2>1. Log
    BY <1>1, <1>2, <1>8 DEF RequestInfo, TypeOK
  <2> QED
    BY <1>8, <2>1 DEF RequestInfo, TypeOK, InstanceState, Log
<1>9. ASSUME NEW i \in Items, NEW u \in Users, Resubmit(i, u) PROVE TypeOK'
  <2>1. Log /\ Len(actions[i]) + 1 \in Nat
    BY <1>1, <1>2, <1>9 DEF Resubmit, TypeOK
  <2> QED
    BY <1>9, <2>1 DEF Resubmit, EnterStage, TypeOK, InstanceState, Log
<1>10. ASSUME NEW i \in Items, NEW u \in Users, Withdraw(i, u) PROVE TypeOK'
  <2>1. Log
    BY <1>1, <1>2, <1>10 DEF Withdraw, TypeOK
  <2> QED
    BY <1>10, <2>1 DEF Withdraw, CloseAs, TypeOK, InstanceState, Log
<1>11. ASSUME NEW i \in Items, NEW u \in Users, Comment(i, u) PROVE TypeOK'
  <2>1. Log
    BY <1>1, <1>2, <1>11 DEF Comment, TypeOK
  <2> QED
    BY <1>11, <2>1 DEF Comment, TypeOK, Log
<1>12. CASE UNCHANGED vars
  BY <1>12 DEF vars, TypeOK
<1>13. QED
  BY <1>3, <1>4, <1>5, <1>6, <1>7, <1>8, <1>9, <1>10, <1>11, <1>12 DEF Next, Step

(* The type invariant holds in every reachable state.                      *)
THEOREM TypeCorrect == Spec => []TypeOK
<1>1. Init => TypeOK
  BY DEF Init, TypeOK
<1>2. QED
  BY <1>1, TypeStep, PTL DEF Spec

-----------------------------------------------------------------------------
(* One step of the engine, seen from the log: the row e it appended to the *)
(* log of item i, what that row says of the item before the step, and what *)
(* the step made of the item.                                              *)
Others(i) ==
  \A j \in Items : j # i =>
    /\ state'[j] = state[j]
    /\ currentStage'[j] = currentStage[j]
    /\ closedAt'[j] = closedAt[j]
    /\ enteredAt'[j] = enteredAt[j]

Saved(i, e) ==
  /\ IF e.action = "comment"
     THEN state'[i] = state[i] /\ currentStage'[i] = currentStage[i]
     ELSE state'[i] = Outcome[e.action] /\ currentStage'[i] = Landing(e)
  /\ enteredAt'[i] = IF e.to # NoStage THEN Len(actions[i]) + 1 ELSE enteredAt[i]
  /\ closedAt'[i] <=> closedAt[i] \/ e.action \in {"final_approve", "reject", "withdraw"}

Allowed(i, e) ==
  /\ e.action = "submit" <=> state[i] = "absent"
  /\ e.action # "submit" => Whence(e) = currentStage[i]
  /\ e.action \notin {"submit", "comment"} => IsOpen(i)
  /\ e.action = "submit" => IsFirst(e.to) /\ e.from = NoStage
  /\ IsApproval(e) => /\ state[i] = "in_progress"
                      /\ e.from = currentStage[i]
                      /\ StageActor(e.actor, i, e.from)
  /\ e.action = "approve" => e.to \in Stages /\ IsNext(e.from, e.to)
  /\ e.action = "final_approve" => IsFinal(e.from)
  /\ e.action = "return" => e.to \in CanReturnTo[currentStage[i]]
  /\ e.action \in {"reject", "request_info", "resubmit", "withdraw"} =>
       e.from = NoStage \/ e.to = NoStage
  /\ Landing(e) \in Stages
  /\ Landing(e) = IF e.action = "comment" THEN currentStage[i] ELSE currentStage'[i]

Effect(i, e) == Grown(i, e) /\ Others(i) /\ Saved(i, e) /\ Allowed(i, e)

(* Every action of the engine has the effect of the row it records.        *)
LEMMA StepEffect ==
  ASSUME TypeOK, LogDecidesState, NEW i \in Items, NEW u \in Users, Step(i, u)
  PROVE  \E e \in WorkflowAction : Effect(i, e)
<1>1. /\ {"submit", "approve", "final_approve", "reject", "return",
          "request_info", "resubmit", "withdraw", "comment"} \subseteq ActionType
      /\ NoStage \notin Stages
      /\ currentStage[i] \in Stages \cup {NoStage}
      /\ state[i] # "absent" => currentStage[i] \in Stages
  BY StagesAssumption DEF ActionType, Deciding, TypeOK, LogDecidesState
<1>2. ASSUME NEW a \in ActionType,
             NEW from \in Stages \cup {NoStage}, NEW to \in Stages \cup {NoStage},
             Record(i, a, u, from, to),
             Others(i), Saved(i, Row(a, u, from, to)), Allowed(i, Row(a, u, from, to))
      PROVE  \E e \in WorkflowAction : Effect(i, e)
  <2>1. Grown(i, Row(a, u, from, to))
    BY <1>2, RecordGrows
  <2>2. Row(a, u, from, to) \in WorkflowAction
    BY <2>1 DEF Grown
  <2> QED
    BY <1>2, <2>1, <2>2 DEF Effect
<1> USE DEF TypeOK, Others, Saved, Allowed, Outcome, Landing, Whence, IsApproval, Row,
            IsOpen
<1>3. CASE Start(i, u)
  <2>1. PICK s \in Stages : IsFirst(s) /\ EnterStage(i, s) /\ Record(i, "submit", u, NoStage, s)
    BY <1>3 DEF Start
  <2>2. Others(i) /\ Saved(i, Row("submit", u, NoStage, s))
    BY <1>1, <1>3, <2>1 DEF Start, EnterStage
  <2>3. Allowed(i, Row("submit", u, NoStage, s))
    BY <1>1, <1>3, <2>1 DEF Start, EnterStage
  <2> QED
    BY <1>1, <1>2, <2>1, <2>2, <2>3
<1>4. CASE Advance(i, u)
  <2>1. PICK t \in Stages : /\ IsNext(currentStage[i], t)
                            /\ EnterStage(i, t)
                            /\ Record(i, "approve", u, currentStage[i], t)
    BY <1>4 DEF Advance
  <2>2. Others(i) /\ Saved(i, Row("approve", u, currentStage[i], t))
    BY <1>1, <1>4, <2>1 DEF Advance, EnterStage, MayApprove
  <2>3. Allowed(i, Row("approve", u, currentStage[i], t))
    BY <1>1, <1>4, <2>1 DEF Advance, EnterStage, MayApprove, RequireStageActor
  <2> QED
    BY <1>1, <1>2, <2>1, <2>2, <2>3
<1>5. CASE FinalApprove(i, u)
  <2>1. Others(i) /\ Saved(i, Row("final_approve", u, currentStage[i], NoStage))
    BY <1>1, <1>5 DEF FinalApprove, CloseAs, MayApprove
  <2>2. Allowed(i, Row("final_approve", u, currentStage[i], NoStage))
    BY <1>1, <1>5 DEF FinalApprove, MayApprove, RequireStageActor
  <2> QED
    BY <1>1, <1>2, <1>5, <2>1, <2>2 DEF FinalApprove
<1>6. CASE Reject(i, u)
  <2>1. Others(i) /\ Saved(i, Row("reject", u, currentStage[i], NoStage))
    BY <1>1, <1>6 DEF Reject, CloseAs
  <2>2. Allowed(i, Row("reject", u, currentStage[i], NoStage))
    BY <1>1, <1>6 DEF Reject, RequireStageActor
  <2> QED
    BY <1>1, <1>2, <1>6, <2>1, <2>2 DEF Reject
<1>7. ASSUME NEW t \in Stages, ReturnTo(i, u, t)
      PROVE  \E e \in WorkflowAction : Effect(i, e)
  <2>1. Others(i) /\ Saved(i, Row("return", u, currentStage[i], t))
    BY <1>1, <1>7 DEF ReturnTo, EnterStage
  <2>2. Allowed(i, Row("return", u, currentStage[i], t))
    BY <1>1, <1>7 DEF ReturnTo, RequireStageActor, EnterStage
  <2> QED
    BY <1>1, <1>2, <1>7, <2>1, <2>2 DEF ReturnTo
<1>8. CASE RequestInfo(i, u)
  <2>1. Others(i) /\ Saved(i, Row("request_info", u, currentStage[i], NoStage))
    BY <1>1, <1>8 DEF RequestInfo, RequireStageActor
  <2>2. Allowed(i, Row("request_info", u, currentStage[i], NoStage))
    BY <1>1, <1>8 DEF RequestInfo, RequireStageActor
  <2> QED
    BY <1>1, <1>2, <1>8, <2>1, <2>2 DEF RequestInfo
<1>9. CASE Resubmit(i, u)
  <2>1. Others(i) /\ Saved(i, Row("resubmit", u, NoStage, currentStage[i]))
    BY <1>1, <1>9 DEF Resubmit, EnterStage
  <2>2. Allowed(i, Row("resubmit", u, NoStage, currentStage[i]))
    BY <1>1, <1>9 DEF Resubmit, EnterStage
  <2> QED
    BY <1>1, <1>2, <1>9, <2>1, <2>2 DEF Resubmit
<1>10. CASE Withdraw(i, u)
  <2>1. Others(i) /\ Saved(i, Row("withdraw", u, currentStage[i], NoStage))
    BY <1>1, <1>10 DEF Withdraw, CloseAs
  <2>2. Allowed(i, Row("withdraw", u, currentStage[i], NoStage))
    BY <1>1, <1>10 DEF Withdraw
  <2> QED
    BY <1>1, <1>2, <1>10, <2>1, <2>2 DEF Withdraw
<1>11. CASE Comment(i, u)
  <2>1. Others(i) /\ Saved(i, Row("comment", u, currentStage[i], NoStage))
    BY <1>1, <1>11 DEF Comment
  <2>2. Allowed(i, Row("comment", u, currentStage[i], NoStage))
    BY <1>1, <1>11 DEF Comment
  <2> QED
    BY <1>1, <1>2, <1>11, <2>1, <2>2 DEF Comment
<1>12. QED
  BY <1>3, <1>4, <1>5, <1>6, <1>7, <1>8, <1>9, <1>10, <1>11 DEF Step

-----------------------------------------------------------------------------
(* The inductive invariant.  LogDecidesState alone says where the last     *)
(* decision left the item; the walk needs where the last row left it.      *)
LogEndsHere ==
  \A i \in Items :
    /\ state[i] = "absent" <=> actions[i] = << >>
    /\ state[i] # "absent" =>
         /\ Len(actions[i]) \in DOMAIN actions[i]
         /\ Landing(actions[i][Len(actions[i])]) = currentStage[i]

LogInv == TypeOK /\ LogDecidesState /\ LogEndsHere /\ LogIsAWalk

(* The step of an item, or none: the other items are as they were.         *)
LEMMA NextEffect ==
  ASSUME TypeOK, LogDecidesState, [Next]_vars
  PROVE  \/ \E i \in Items : \E e \in WorkflowAction : Effect(i, e)
         \/ UNCHANGED vars
BY StepEffect DEF Next

LEMMA LogDecidesStateStep ==
  ASSUME TypeOK, LogDecidesState, LogEndsHere,
         NEW i \in Items, NEW e \in WorkflowAction, Effect(i, e)
  PROVE  LogDecidesState'
<1> SUFFICES ASSUME NEW j \in Items
             PROVE  \/ /\ state'[j] = "absent"
                       /\ currentStage'[j] = NoStage
                       /\ ~closedAt'[j]
                       /\ actions'[j] = << >>
                    \/ /\ \E k \in DOMAIN actions'[j] :
                            /\ LastDecision(j, k)'
                            /\ state'[j] = Outcome[actions'[j][k].action]
                            /\ currentStage'[j] = Landing(actions'[j][k])
                       /\ currentStage'[j] # NoStage
                       /\ closedAt'[j] <=> state'[j] \in {"approved", "rejected", "withdrawn"}
  BY DEF LogDecidesState
<1>1. CASE j # i
  <2>1. /\ actions'[j] = actions[j]
        /\ state'[j] = state[j]
        /\ currentStage'[j] = currentStage[j]
        /\ closedAt'[j] = closedAt[j]
    BY <1>1 DEF Effect, Grown, Others
  <2>2. \A k : LastDecision(j, k)' <=> LastDecision(j, k)
    BY <2>1 DEF LastDecision
  <2> QED
    BY <2>1, <2>2 DEF LogDecidesState
<1>2. CASE j = i /\ e.action # "comment"
  <2>0. PICK n \in Nat : n = Len(actions[i]) + 1
    BY DEF Effect, Grown
  <2>1. /\ n \in DOMAIN actions'[i]
        /\ actions'[i][n] = e
        /\ \A m \in DOMAIN actions'[i] : ~(m > n)
    BY <2>0 DEF Effect, Grown
  <2>2. e.action \in Deciding
    BY <1>2 DEF WorkflowAction, ActionType
  <2>3. LastDecision(i, n)'
    BY <2>1, <2>2 DEF LastDecision
  <2>4. state'[i] = Outcome[e.action] /\ currentStage'[i] = Landing(e)
    BY <1>2 DEF Effect, Saved
  <2>5. currentStage'[i] # NoStage
    BY <2>4, StagesAssumption DEF Effect, Allowed
  <2>6. ~closedAt[i]
    BY <1>2 DEF Effect, Allowed, LogDecidesState, IsOpen
  <2>7. closedAt'[i] <=> state'[i] \in {"approved", "rejected", "withdrawn"}
    BY <2>2, <2>4, <2>6 DEF Effect, Saved, Outcome, Deciding
  <2> QED
    BY <1>2, <2>1, <2>3, <2>4, <2>5, <2>7
<1>3. CASE j = i /\ e.action = "comment"
  <2>1. /\ state'[i] = state[i]
        /\ currentStage'[i] = currentStage[i]
        /\ closedAt'[i] <=> closedAt[i]
        /\ state[i] # "absent"
    BY <1>3 DEF Effect, Saved, Allowed
  <2>2. PICK k \in DOMAIN actions[i] :
          /\ LastDecision(i, k)
          /\ state[i] = Outcome[actions[i][k].action]
          /\ currentStage[i] = Landing(actions[i][k])
    BY <2>1 DEF LogDecidesState
  <2>3. k \in DOMAIN actions'[i] /\ actions'[i][k] = actions[i][k]
    BY DEF Effect, Grown
  <2>4. LastDecision(i, k)'
    BY <1>3, <2>2, <2>3 DEF Effect, Grown, LastDecision
  <2> QED
    BY <1>3, <2>1, <2>2, <2>3, <2>4 DEF LogDecidesState
<1>4. QED
  BY <1>1, <1>2, <1>3

LEMMA LogEndsHereStep ==
  ASSUME TypeOK, LogDecidesState, LogEndsHere,
         NEW i \in Items, NEW e \in WorkflowAction, Effect(i, e)
  PROVE  LogEndsHere'
<1> SUFFICES ASSUME NEW j \in Items
             PROVE  /\ state'[j] = "absent" <=> actions'[j] = << >>
                    /\ state'[j] # "absent" =>
                         /\ Len(actions'[j]) \in DOMAIN actions'[j]
                         /\ Landing(actions'[j][Len(actions'[j])]) = currentStage'[j]
  BY DEF LogEndsHere
<1>1. CASE j # i
  BY <1>1 DEF Effect, Grown, Others, LogEndsHere
<1>2. CASE j = i
  <2>1. /\ Len(actions'[i]) \in DOMAIN actions'[i]
        /\ actions'[i][Len(actions'[i])] = e
        /\ actions'[i] # << >>
    BY DEF Effect, Grown
  <2>2. Landing(e) = currentStage'[i]
    BY DEF Effect, Allowed, Saved
  <2>3. state'[i] # "absent"
    <3>1. CASE e.action = "comment"
      BY <3>1 DEF Effect, Saved, Allowed
    <3>2. CASE e.action # "comment"
      BY <3>2 DEF Effect, Saved, Outcome, WorkflowAction, ActionType, Deciding
    <3> QED
      BY <3>1, <3>2
  <2> QED
    BY <1>2, <2>1, <2>2, <2>3
<1>3. QED
  BY <1>1, <1>2

LEMMA LogIsAWalkStep ==
  ASSUME TypeOK, LogDecidesState, LogEndsHere, LogIsAWalk,
         NEW i \in Items, NEW e \in WorkflowAction, Effect(i, e)
  PROVE  LogIsAWalk'
<1> SUFFICES ASSUME NEW j \in Items, NEW k \in DOMAIN actions'[j]
             PROVE  /\ k = 1 <=> actions'[j][k].action = "submit"
                    /\ k > 1 => Whence(actions'[j][k]) = Landing(actions'[j][k - 1])
  BY DEF LogIsAWalk
<1>1. CASE j # i
  BY <1>1 DEF Effect, Grown, LogIsAWalk
<1>2. CASE j = i /\ k # Len(actions[i]) + 1
  <2>1. k \in DOMAIN actions[i] /\ k \in Nat
    BY <1>2 DEF Effect, Grown
  <2>2. k > 1 => k - 1 \in DOMAIN actions[i]
    BY <2>1 DEF Effect, Grown
  <2> QED
    BY <1>2, <2>1, <2>2 DEF Effect, Grown, LogIsAWalk
<1>3. CASE j = i /\ k = Len(actions[i]) + 1
  <2> DEFINE n == Len(actions[i])
  <2>1. actions'[i][k] = e /\ n \in Nat
    BY <1>3 DEF Effect, Grown
  <2>2. n = 0 <=> actions[i] = << >>
    BY DEF TypeOK
  <2>3. k = 1 <=> e.action = "submit"
    BY <1>3, <2>1, <2>2 DEF Effect, Allowed, LogEndsHere
  <2>4. ASSUME k > 1
        PROVE  Whence(e) = Landing(actions'[i][k - 1])
    <3>1. Whence(e) = currentStage[i] /\ state[i] # "absent"
      BY <2>3, <2>4 DEF Effect, Allowed
    <3>2. n \in DOMAIN actions[i] /\ Landing(actions[i][n]) = currentStage[i]
      BY <3>1 DEF LogEndsHere
    <3>3. actions'[i][n] = actions[i][n]
      BY <3>2 DEF Effect, Grown
    <3> QED
      BY <1>3, <2>1, <3>1, <3>2, <3>3
  <2> QED
    BY <1>3, <2>1, <2>3, <2>4
<1>4. QED
  BY <1>1, <1>2, <1>3

LEMMA LogInvStep == LogInv /\ [Next]_vars => LogInv'
<1> SUFFICES ASSUME LogInv, [Next]_vars PROVE LogInv'
  OBVIOUS
<1>1. TypeOK'
  BY TypeStep DEF LogInv
<1>2. CASE UNCHANGED vars
  BY <1>1, <1>2 DEF vars, LogInv, LogDecidesState, LastDecision, LogEndsHere, LogIsAWalk
<1>3. ASSUME NEW i \in Items, NEW e \in WorkflowAction, Effect(i, e)
      PROVE  LogDecidesState' /\ LogEndsHere' /\ LogIsAWalk'
  BY <1>3, LogDecidesStateStep, LogEndsHereStep, LogIsAWalkStep DEF LogInv
<1>4. QED
  BY <1>1, <1>2, <1>3, NextEffect DEF LogInv

LEMMA LogInvariant == Spec => []LogInv
<1>1. Init => LogInv
  BY DEF Init, LogInv, TypeOK, LogDecidesState, LogEndsHere, LogIsAWalk
<1>2. QED
  BY <1>1, LogInvStep, PTL DEF Spec

(* The item's row is what its log says it is.                              *)
THEOREM LogDecides == Spec => []LogDecidesState
<1>1. LogInv => LogDecidesState
  BY DEF LogInv
<1>2. QED
  BY <1>1, LogInvariant, PTL

(* The log of an item is one walk through the stages.                      *)
THEOREM LogWalks == Spec => []LogIsAWalk
<1>1. LogInv => LogIsAWalk
  BY DEF LogInv
<1>2. QED
  BY <1>1, LogInvariant, PTL

-----------------------------------------------------------------------------
(* stage_entered_at is the time of the last row that has a to-stage.       *)
LEMMA StageClockStep ==
  ASSUME LogInv, StageClock, NEW i \in Items, NEW e \in WorkflowAction, Effect(i, e)
  PROVE  StageClock'
<1> SUFFICES ASSUME NEW j \in Items, actions'[j] # << >>
             PROVE  /\ enteredAt'[j] \in DOMAIN actions'[j]
                    /\ actions'[j][enteredAt'[j]].to # NoStage
                    /\ \A k \in DOMAIN actions'[j] :
                         k > enteredAt'[j] => actions'[j][k].to = NoStage
  BY DEF StageClock
<1>1. CASE j # i
  BY <1>1 DEF Effect, Grown, Others, StageClock
<1>2. CASE j = i /\ e.to # NoStage
  BY <1>2 DEF Effect, Grown, Saved
<1>3. CASE j = i /\ e.to = NoStage
  <2>1. e.action # "submit"
    BY <1>3, StagesAssumption DEF Effect, Allowed, Landing
  <2>2. actions[i] # << >>
    BY <2>1 DEF Effect, Allowed, LogInv, LogEndsHere
  <2>3. /\ enteredAt[i] \in DOMAIN actions[i]
        /\ actions[i][enteredAt[i]].to # NoStage
        /\ \A k \in DOMAIN actions[i] :
             k > enteredAt[i] => actions[i][k].to = NoStage
    BY <2>2 DEF StageClock
  <2>4. enteredAt'[i] = enteredAt[i]
    BY <1>3 DEF Effect, Saved
  <2>5. \A k \in DOMAIN actions'[i] :
          \/ k \in DOMAIN actions[i] /\ actions'[i][k] = actions[i][k]
          \/ actions'[i][k] = e
    BY DEF Effect, Grown
  <2>6. enteredAt[i] \in DOMAIN actions'[i] /\ actions'[i][enteredAt[i]] = actions[i][enteredAt[i]]
    BY <2>3 DEF Effect, Grown
  <2> QED
    BY <1>3, <2>3, <2>4, <2>5, <2>6
<1>4. QED
  BY <1>1, <1>2, <1>3

THEOREM StageClockRight == Spec => []StageClock
<1>1. Init => StageClock
  BY DEF Init, StageClock
<1>2. LogInv /\ StageClock /\ [Next]_vars => StageClock'
  <2> SUFFICES ASSUME LogInv, StageClock, [Next]_vars PROVE StageClock'
    OBVIOUS
  <2>1. CASE UNCHANGED vars
    BY <2>1 DEF vars, StageClock
  <2>2. QED
    BY <2>1, StageClockStep, NextEffect DEF LogInv
<1>3. QED
  BY <1>1, <1>2, LogInvariant, PTL DEF Spec

-----------------------------------------------------------------------------
(* A sign-off outlives every step that does not return the item to its     *)
(* stage or to an earlier one.                                             *)
LEMMA SignOffLasts ==
  ASSUME TypeOK, NEW i \in Items, NEW s \in Stages, NEW e \in WorkflowAction,
         Effect(i, e), SignedOffAt(i, s),
         e.action = "return" => Order[e.to] > Order[s]
  PROVE  SignedOffAt(i, s)'
<1>1. PICK k \in DOMAIN actions[i] :
        /\ IsApproval(actions[i][k])
        /\ actions[i][k].from = s
        /\ StageActor(actions[i][k].actor, i, s)
        /\ \A j \in DOMAIN actions[i] :
             j > k /\ actions[i][j].action = "return" =>
               Order[actions[i][j].to] > Order[s]
  BY DEF SignedOffAt
<1>2. k \in DOMAIN actions'[i] /\ actions'[i][k] = actions[i][k]
  BY DEF Effect, Grown
<1>3. \A j \in DOMAIN actions'[i] :
        \/ j \in DOMAIN actions[i] /\ actions'[i][j] = actions[i][j]
        \/ actions'[i][j] = e
  BY DEF Effect, Grown
<1>4. ASSUME NEW j \in DOMAIN actions'[i], j > k, actions'[i][j].action = "return"
      PROVE  Order[actions'[i][j].to] > Order[s]
  BY <1>1, <1>3, <1>4
<1>5. QED
  BY <1>1, <1>2, <1>4 DEF SignedOffAt, StageActor, UnitMayAct, OwnerForStage

(* An approval signs off the stage it is given at.                         *)
LEMMA ApprovalSignsOff ==
  ASSUME NEW i \in Items, NEW e \in WorkflowAction, Effect(i, e), IsApproval(e),
         NEW s \in Stages, s = currentStage[i]
  PROVE  SignedOffAt(i, s)'
<1>1. PICK n \in Nat : n = Len(actions[i]) + 1
  BY DEF Effect, Grown
<1>2. /\ n \in DOMAIN actions'[i]
      /\ actions'[i][n] = e
      /\ \A m \in DOMAIN actions'[i] : ~(m > n)
  BY <1>1 DEF Effect, Grown
<1>3. e.from = s /\ StageActor(e.actor, i, s)
  BY DEF Effect, Allowed
<1>4. QED
  BY <1>2, <1>3 DEF SignedOffAt, StageActor, UnitMayAct, OwnerForStage

(* The stage order is a strict order with no two stages level.             *)
LEMMA StageOrder ==
  ASSUME NEW s \in Stages, NEW t \in Stages
  PROVE  Order[s] < Order[t] \/ s = t \/ Order[t] < Order[s]
BY StagesAssumption

LEMMA NoStageSkippedStep ==
  ASSUME LogInv, NoStageSkipped, ReturnsGoBack,
         NEW i \in Items, NEW e \in WorkflowAction, Effect(i, e)
  PROVE  NoStageSkipped'
<1> SUFFICES ASSUME NEW j \in Items, NEW s \in Stages,
                    \/ state'[j] = "approved"
                    \/ currentStage'[j] # NoStage /\ Order[s] < Order[currentStage'[j]]
             PROVE  SignedOffAt(j, s)'
  BY DEF NoStageSkipped
<1>1. CASE j # i
  <2>1. /\ actions'[j] = actions[j]
        /\ state'[j] = state[j]
        /\ currentStage'[j] = currentStage[j]
    BY <1>1 DEF Effect, Grown, Others
  <2>2. SignedOffAt(j, s)
    BY <2>1 DEF NoStageSkipped
  <2> QED
    BY <2>1, <2>2 DEF SignedOffAt, StageActor, UnitMayAct, OwnerForStage
<1>2. CASE j = i
  <2> DEFINE c == currentStage[i]
  <2>1. c \in Stages \cup {NoStage} /\ NoStage \notin Stages /\ Order \in [Stages -> Nat]
    BY StagesAssumption DEF LogInv, TypeOK
  <2>2. CASE e.action = "submit"
    <3>1. /\ state'[i] = "in_progress"
          /\ currentStage'[i] = e.to
          /\ IsFirst(e.to)
          /\ e.to \in Stages
      BY <2>2, StagesAssumption DEF Effect, Saved, Allowed, Outcome, Landing
    <3> QED
      BY <1>2, <2>1, <3>1 DEF IsFirst
  <2>3. CASE e.action = "comment"
    <3>1. state'[i] = state[i] /\ currentStage'[i] = c
      BY <2>3 DEF Effect, Saved
    <3>2. SignedOffAt(i, s)
      BY <1>2, <3>1 DEF NoStageSkipped
    <3> QED
      BY <1>2, <2>3, <3>2, SignOffLasts DEF LogInv
  <2>4. CASE e.action \notin {"submit", "comment"}
    <3>1. c \in Stages /\ IsOpen(i) /\ state[i] # "approved"
      BY <2>1, <2>4 DEF Effect, Allowed, IsOpen, LogInv, LogDecidesState
    <3>2. \A t \in Stages : Order[t] < Order[c] => SignedOffAt(i, t)
      BY <2>1, <3>1 DEF NoStageSkipped
    <3>3. CASE e.action = "approve"
      <4>1. /\ state'[i] = "in_progress"
            /\ currentStage'[i] = e.to
            /\ e.to \in Stages
            /\ IsNext(c, e.to)
        BY <3>3, StagesAssumption
        DEF Effect, Saved, Allowed, Outcome, Landing, IsApproval
      <4>2. Order[s] < Order[c] \/ s = c
        BY <1>2, <2>1, <3>1, <4>1, StageOrder DEF IsNext
      <4>3. CASE Order[s] < Order[c]
        BY <1>2, <3>2, <3>3, <4>3, SignOffLasts DEF LogInv
      <4>4. CASE s = c
        BY <1>2, <3>3, <4>4, ApprovalSignsOff DEF IsApproval
      <4> QED
        BY <4>2, <4>3, <4>4
    <3>4. CASE e.action = "final_approve"
      <4>1. IsFinal(c)
        BY <3>4 DEF Effect, Allowed, IsApproval
      <4>2. Order[s] < Order[c] \/ s = c
        BY <2>1, <3>1, <4>1, StageOrder DEF IsFinal
      <4>3. CASE Order[s] < Order[c]
        BY <1>2, <3>2, <3>4, <4>3, SignOffLasts DEF LogInv
      <4>4. CASE s = c
        BY <1>2, <3>4, <4>4, ApprovalSignsOff DEF IsApproval
      <4> QED
        BY <4>2, <4>3, <4>4
    <3>5. CASE e.action = "return"
      <4>1. /\ state'[i] = "in_progress"
            /\ currentStage'[i] = Landing(e)
            /\ Landing(e) \in Stages
            /\ e.to \in CanReturnTo[c]
        BY <3>5 DEF Effect, Saved, Allowed, Outcome
      <4>2. e.to \in Stages /\ Order[e.to] < Order[c]
        BY <3>1, <4>1, StagesAssumption DEF ReturnsGoBack
      <4>3. Order[s] < Order[e.to]
        BY <1>2, <2>1, <4>1, <4>2 DEF Landing
      <4>4. SignedOffAt(i, s)
        BY <2>1, <3>1, <3>2, <4>2, <4>3
      <4> QED
        BY <1>2, <4>3, <4>4, SignOffLasts DEF LogInv
    <3>6. CASE e.action \in {"reject", "request_info", "resubmit", "withdraw"}
      <4>1. state'[i] # "approved"
        BY <3>6 DEF Effect, Saved, Outcome
      <4>2. Whence(e) = c /\ currentStage'[i] = Landing(e)
        BY <3>6 DEF Effect, Allowed, Saved
      <4>3. e.from = NoStage \/ e.to = NoStage
        BY <3>6 DEF Effect, Allowed
      <4>4. Landing(e) = c
        BY <4>2, <4>3 DEF Landing, Whence
      <4>5. SignedOffAt(i, s)
        BY <1>2, <3>2, <4>1, <4>2, <4>4
      <4> QED
        BY <1>2, <3>6, <4>5, SignOffLasts DEF LogInv
    <3> QED
      BY <2>4, <3>3, <3>4, <3>5, <3>6 DEF WorkflowAction, ActionType, Deciding
  <2> QED
    BY <2>2, <2>3, <2>4
<1>3. QED
  BY <1>1, <1>2

(* Whatever the groups, units and stages are, as long as stages only       *)
(* return items to earlier stages, no item is past a stage, let alone      *)
(* approved, without a standing approval of that stage.                    *)
THEOREM NoStageIsSkipped == ReturnsGoBack => (Spec => []NoStageSkipped)
<1> SUFFICES ASSUME ReturnsGoBack PROVE Spec => []NoStageSkipped
  OBVIOUS
<1>1. Init => NoStageSkipped
  BY DEF Init, NoStageSkipped
<1>2. LogInv /\ NoStageSkipped /\ [Next]_vars => NoStageSkipped'
  <2> SUFFICES ASSUME LogInv, NoStageSkipped, [Next]_vars PROVE NoStageSkipped'
    OBVIOUS
  <2>1. CASE UNCHANGED vars
    BY <2>1 DEF vars, NoStageSkipped, SignedOffAt, StageActor, UnitMayAct, OwnerForStage
  <2>2. QED
    BY <2>1, NoStageSkippedStep, NextEffect DEF LogInv
<1>3. QED
  BY <1>1, <1>2, LogInvariant, PTL DEF Spec

-----------------------------------------------------------------------------
(* An approval finds the item in progress, and an item whose last decision *)
(* is a request for information is not.                                    *)
LEMMA ParkedStep ==
  ASSUME LogInv, ParkedNotApproved, NEW i \in Items, NEW e \in WorkflowAction, Effect(i, e)
  PROVE  ParkedNotApproved'
<1> SUFFICES ASSUME NEW j \in Items, NEW k \in DOMAIN actions'[j], NEW m \in DOMAIN actions'[j],
                    k < m,
                    actions'[j][k].action = "request_info",
                    \A h \in k+1 .. m-1 : actions'[j][h].action = "comment",
                    IsApproval(actions'[j][m])
             PROVE  FALSE
  BY DEF ParkedNotApproved
<1>1. CASE j # i
  BY <1>1 DEF Effect, Grown, ParkedNotApproved
<1>2. CASE j = i /\ m # Len(actions[i]) + 1
  <2>0. /\ Len(actions[i]) \in Nat
        /\ DOMAIN actions[i] = 1 .. Len(actions[i])
        /\ DOMAIN actions'[i] = 1 .. Len(actions[i]) + 1
        /\ \A h \in DOMAIN actions[i] : actions'[i][h] = actions[i][h]
    BY DEF Effect, Grown
  <2>1. /\ k \in DOMAIN actions[i]
        /\ m \in DOMAIN actions[i]
    BY <1>2, <2>0
  <2>2. \A h \in k+1 .. m-1 : actions[i][h].action = "comment"
    <3> TAKE h \in k+1 .. m-1
    <3>1. h \in DOMAIN actions[i]
      BY <2>0, <2>1
    <3> QED
      BY <1>2, <2>0, <3>1
  <2>3. actions[i][k].action = "request_info" /\ IsApproval(actions[i][m])
    BY <1>2, <2>1 DEF Effect, Grown
  <2> QED
    BY <2>1, <2>2, <2>3 DEF ParkedNotApproved
<1>3. CASE j = i /\ m = Len(actions[i]) + 1
  <2>1. /\ k \in DOMAIN actions[i]
        /\ actions[i][k].action = "request_info"
        /\ \A h \in DOMAIN actions[i] : h > k => actions[i][h].action = "comment"
    BY <1>3 DEF Effect, Grown
  <2>2. IsApproval(e)
    BY <1>3 DEF Effect, Grown
  <2>3. state[i] = "in_progress"
    BY <2>2 DEF Effect, Allowed
  <2>4. PICK d \in DOMAIN actions[i] :
          LastDecision(i, d) /\ state[i] = Outcome[actions[i][d].action]
    BY <2>3 DEF LogInv, LogDecidesState
  <2>5. d = k
    BY <2>1, <2>4 DEF LastDecision, Deciding, Effect, Grown
  <2> QED
    BY <2>1, <2>3, <2>4, <2>5 DEF Outcome
<1>4. QED
  BY <1>1, <1>2, <1>3

(* No item is approved while its submitter owes an answer.                 *)
THEOREM NotApprovedWhileParked == Spec => []ParkedNotApproved
<1>1. Init => ParkedNotApproved
  BY DEF Init, ParkedNotApproved
<1>2. LogInv /\ ParkedNotApproved /\ [Next]_vars => ParkedNotApproved'
  <2> SUFFICES ASSUME LogInv, ParkedNotApproved, [Next]_vars PROVE ParkedNotApproved'
    OBVIOUS
  <2>1. CASE UNCHANGED vars
    BY <2>1 DEF vars, ParkedNotApproved
  <2>2. QED
    BY <2>1, ParkedStep, NextEffect DEF LogInv
<1>3. QED
  BY <1>1, <1>2, LogInvariant, PTL DEF Spec

-----------------------------------------------------------------------------
(* The refinement: a step of the engine is a move of the review case.      *)
PhaseOf(st) ==
  CASE st = "absent" -> "none"
    [] st \in {"in_progress", "info_requested"} -> "open"
    [] OTHER -> st

LEMMA StepIsMove ==
  ASSUME LogInv, NEW i \in Items, NEW u \in Users, Step(i, u)
  PROVE  Case!Next
<1>1. PICK e \in WorkflowAction :
        /\ Effect(i, e)
        /\ actions' = [actions EXCEPT ![i] = Append(@, e)]
  <2>1. PICK e \in WorkflowAction : Effect(i, e)
    BY StepEffect DEF LogInv
  <2>2. PICK r \in WorkflowAction : actions' = [actions EXCEPT ![i] = Append(@, r)]
    <3>1. \E a \in ActionType : \E from, to \in Stages \cup {NoStage} : Record(i, a, u, from, to)
      <4>1. {"submit", "approve", "final_approve", "reject", "return",
             "request_info", "resubmit", "withdraw", "comment"} \subseteq ActionType
        BY DEF ActionType, Deciding
      <4>2. currentStage[i] \in Stages \cup {NoStage}
        BY DEF LogInv, TypeOK
      <4> QED
        BY <4>1, <4>2
        DEF Step, Start, Advance, FinalApprove, Reject, ReturnTo, RequestInfo,
            Resubmit, Withdraw, Comment
    <3> QED
      BY <3>1 DEF Record, WorkflowAction
  <2>3. r = e
    BY <2>1, <2>2 DEF Effect, Grown, LogInv, TypeOK
  <2> QED
    BY <2>1, <2>2, <2>3
<1>2. /\ CasePhase = [j \in Items |-> PhaseOf(state[j])]
      /\ CasePhase' = [j \in Items |-> PhaseOf(state'[j])]
  BY DEF CasePhase, PhaseOf
<1>3. CasePhase' = [CasePhase EXCEPT ![i] = PhaseOf(state'[i])]
  BY <1>1, <1>2 DEF Effect, Others
<1>4. \E r \in WorkflowAction : actions' = [actions EXCEPT ![i] = Append(@, r)]
  BY <1>1
<1>5. /\ CasePhase[i] = PhaseOf(state[i])
      /\ state[i] \in InstanceState \cup {"absent"}
  BY <1>2 DEF LogInv, TypeOK
<1>6. CASE e.action = "comment"
  <2>1. state'[i] = state[i] /\ state[i] # "absent"
    BY <1>1, <1>6 DEF Effect, Saved, Allowed
  <2>2. CASE CasePhase[i] = "open"
    BY <1>3, <1>4, <1>5, <2>1, <2>2 DEF Case!Next, Case!Work, Case!Move
  <2>3. CASE CasePhase[i] # "open"
    <3>1. CasePhase[i] \in {"approved", "rejected", "withdrawn"}
      BY <1>5, <2>1, <2>3 DEF PhaseOf, InstanceState
    <3> QED
      BY <1>3, <1>4, <1>5, <2>1, <3>1 DEF Case!Next, Case!Remark, Case!Move, Case!Verdict
  <2> QED
    BY <2>2, <2>3
<1>7. CASE e.action = "submit"
  <2>1. CasePhase[i] = "none" /\ PhaseOf(state'[i]) = "open"
    BY <1>1, <1>5, <1>7 DEF Effect, Saved, Allowed, Outcome, PhaseOf
  <2> QED
    BY <1>3, <1>4, <2>1 DEF Case!Next, Case!Open, Case!Move
<1>8. CASE e.action \in {"approve", "return", "request_info", "resubmit"}
  <2>1. CasePhase[i] = "open" /\ PhaseOf(state'[i]) = "open"
    BY <1>1, <1>5, <1>8 DEF Effect, Saved, Allowed, Outcome, PhaseOf, IsOpen
  <2> QED
    BY <1>3, <1>4, <2>1 DEF Case!Next, Case!Work, Case!Move
<1>9. CASE e.action \in {"final_approve", "reject", "withdraw"}
  <2>1. CasePhase[i] = "open"
    BY <1>1, <1>5, <1>9 DEF Effect, Allowed, PhaseOf, IsOpen
  <2>2. PhaseOf(state'[i]) \in {"approved", "rejected", "withdrawn"}
    BY <1>1, <1>9 DEF Effect, Saved, Outcome, PhaseOf
  <2> QED
    BY <1>3, <1>4, <2>1, <2>2 DEF Case!Next, Case!Close, Case!Move, Case!Verdict
<1>10. QED
  BY <1>6, <1>7, <1>8, <1>9 DEF WorkflowAction, ActionType, Deciding

(* The engine implements the review case: an item is opened at most once,  *)
(* decided at most once and never re-opened, and every step that touches   *)
(* it adds exactly one row to its log.                                     *)
THEOREM EngineIsAReviewCase == Spec => IsAReviewCase
<1>1. Init => Case!Init
  BY DEF Init, Case!Init, CasePhase
<1>2. LogInv /\ [Next]_vars => [Case!Next]_(Case!vars)
  <2> SUFFICES ASSUME LogInv, [Next]_vars PROVE [Case!Next]_(Case!vars)
    OBVIOUS
  <2>1. CASE UNCHANGED vars
    BY <2>1 DEF vars, Case!vars, CasePhase
  <2>2. QED
    BY <2>1, StepIsMove DEF Next
<1>3. QED
  BY <1>1, <1>2, LogInvariant, PTL DEF Spec, Case!Spec, IsAReviewCase

-----------------------------------------------------------------------------
(* The queue and the approval.                                             *)

(* A stage that is not the last has a next one: among the stages of higher *)
(* order there is one of least order.                                      *)
LEMMA FinalOrNext ==
  ASSUME NEW s \in Stages
  PROVE  IsFinal(s) \/ \E t \in Stages : IsNext(s, t)
<1> SUFFICES ASSUME ~IsFinal(s) PROVE \E t \in Stages : IsNext(s, t)
  OBVIOUS
<1> DEFINE S == {Order[t] : t \in {u \in Stages : Order[u] > Order[s]}}
           Less == OpToRel(<, Nat)
<1>1. S \subseteq Nat /\ S # {}
  <2>1. PICK u \in Stages : ~(Order[u] <= Order[s])
    BY DEF IsFinal
  <2>2. \A t \in Stages : Order[t] \in Nat
    BY StagesAssumption
  <2>3. Order[u] > Order[s]
    BY <2>1, <2>2
  <2> QED
    BY <2>2, <2>3
<1>2. IsWellFoundedOn(Less, Nat)
  BY NatLessThanWellFounded
<1>3. \A x, y \in Nat : y < x => <<y, x>> \in Less
  BY DEF OpToRel
<1> HIDE DEF Less
<1>4. PICK n \in S : \A m \in S : ~(<<m, n>> \in Less)
  <2> HIDE DEF S
  <2> QED
    BY <1>1, <1>2, WFMin
<1>5. \A m \in S : n <= m
  <2>1. \A m \in S : ~(m < n)
    BY <1>1, <1>3, <1>4
  <2> QED
    BY <1>1, <2>1
<1>6. PICK t \in Stages : Order[t] > Order[s] /\ n = Order[t]
  OBVIOUS
<1>7. IsNext(s, t)
  BY <1>5, <1>6 DEF IsNext
<1> QED
  BY <1>7

(* What approve checks before it writes: the checks of Advance or those of *)
(* FinalApprove, the bound on the log aside.                               *)
ApproveChecks(i, u) ==
  /\ MayApprove(i)
  /\ RequireStageActor(i, u)
  /\ IsFinal(currentStage[i]) \/ \E t \in Stages : IsNext(currentStage[i], t)

QueueIsWhatApproveChecks ==
  \A i \in Items, u \in Users : i \in QueueFor(u) <=> ApproveChecks(i, u)

(* The queue page lists exactly the items that approve would accept from   *)
(* its reader (engine.queue_for, engine.approve).  QueueIsApprovable says  *)
(* the same with ENABLED, which is beyond the provers.                     *)
THEOREM QueueMatchesApprove == Spec => []QueueIsWhatApproveChecks
<1>1. LogInv => QueueIsWhatApproveChecks
  <2> SUFFICES ASSUME LogInv, NEW i \in Items, NEW u \in Users
               PROVE  i \in QueueFor(u) <=> ApproveChecks(i, u)
    BY DEF QueueIsWhatApproveChecks
  <2>1. state[i] # "absent" => currentStage[i] # NoStage /\ currentStage[i] \in Stages
    BY DEF LogInv, TypeOK, LogDecidesState
  <2>2. state[i] = "in_progress" => IsFinal(currentStage[i]) \/ \E t \in Stages : IsNext(currentStage[i], t)
    BY <2>1, FinalOrNext
  <2> QED
    BY <2>1, <2>2 DEF QueueFor, ApproveChecks, MayApprove, RequireStageActor, StageActor
<1>2. QED
  BY <1>1, LogInvariant, PTL

OnlyQueuedAreApproved ==
  [][\A i \in Items, u \in Users : Approve(i, u) => i \in QueueFor(u)]_vars

(* Whoever approves an item has it in the review queue at that moment: the *)
(* page never hides an item from somebody the engine would let decide it   *)
(* (engine.approve, engine.queue_for).                                     *)
THEOREM ApprovedFromQueue == Spec => OnlyQueuedAreApproved
<1>1. ASSUME QueueIsWhatApproveChecks, NEW i \in Items, NEW u \in Users, Approve(i, u)
      PROVE  i \in QueueFor(u)
  <2>1. ApproveChecks(i, u)
    BY <1>1 DEF Approve, Advance, FinalApprove, ApproveChecks
  <2> QED
    BY <1>1, <2>1 DEF QueueIsWhatApproveChecks
<1>2. QueueIsWhatApproveChecks /\ [Next]_vars =>
        [\A i \in Items, u \in Users : Approve(i, u) => i \in QueueFor(u)]_vars
  BY <1>1
<1>3. QED
  BY <1>2, QueueMatchesApprove, PTL DEF Spec, OnlyQueuedAreApproved

-----------------------------------------------------------------------------
(***************************************************************************)
(* For the modules that call the engine: a step of it keeps LogInv and     *)
(* moves one item, whatever else the page does in the same transaction.    *)
(***************************************************************************)
LEMMA StateOf ==
  ASSUME LogInv, NEW i \in Items
  PROVE  /\ state[i] \in InstanceState \cup {"absent"}
         /\ state \in [Items -> InstanceState \cup {"absent"}]
BY DEF LogInv, TypeOK

LEMMA EngineKeeps ==
  ASSUME LogInv, NEW i \in Items, NEW u \in Users, Step(i, u)
  PROVE  /\ [Next]_vars /\ LogInv'
         /\ \A j \in Items \ {i} : state'[j] = state[j] /\ currentStage'[j] = currentStage[j]
<1>1. [Next]_vars
  BY DEF Next
<1>2. LogInv'
  BY <1>1, LogInvStep
<1>3. PICK e \in WorkflowAction : Effect(i, e)
  BY StepEffect DEF LogInv
<1> QED BY <1>1, <1>2, <1>3 DEF Effect, Others

LEMMA EngineRests ==
  ASSUME LogInv, UNCHANGED vars
  PROVE  [Next]_vars /\ LogInv' /\ state' = state /\ currentStage' = currentStage
BY LogInvStep DEF vars
=============================================================================
