-------------------------- MODULE MCWorkflowEngine --------------------------
(***************************************************************************)
(* The licence_application definition of bootstrap_workflows, cut to three *)
(* of its four stages, with one item.  anna is a reviewer and an approver  *)
(* of the unit that owns the item, rob an approver of the unit that owns   *)
(* one stage, carl the applicant and root an administrator (superuser).    *)
(***************************************************************************)
EXTENDS WorkflowEngine

MCUsers    == {"anna", "rob", "carl", "root"}
MCMemberOf == [u \in MCUsers |->
                 CASE u = "anna" -> {"reviewer", "approver"}
                   [] u = "rob"  -> {"approver"}
                   [] OTHER      -> {}]
MCUnitOf   == [u \in MCUsers |->
                 CASE u = "anna" -> "PLU" [] u = "rob" -> "RMU" [] OTHER -> "none"]

MCStages   == {"intake", "officer", "director"}
MCOrder    == [s \in MCStages |->
                 CASE s = "intake" -> 1 [] s = "officer" -> 3 [] OTHER -> 4]
MCGroup    == [s \in MCStages |-> IF s = "intake" THEN "reviewer" ELSE "approver"]
MCOwner    == [s \in MCStages |-> IF s = "officer" THEN "RMU" ELSE "none"]
MCSubject  == [i \in Items |-> "PLU"]
MCReturns  == [s \in MCStages |->
                 CASE s = "officer"  -> {"intake"}
                   [] s = "director" -> {"intake", "officer"}
                   [] OTHER          -> {}]
MCReject   == {"officer", "director"}
MCAsk      == {"intake", "officer"}
=============================================================================
