-------------------------- MODULE MCLicenceReview --------------------------
(***************************************************************************)
(* One application, its applicant carl and one officer, anna, who is in    *)
(* every group and in the owning unit.  Assessments differ in the volume   *)
(* they recommend (one of them leaves it as requested) or in the unit.     *)
(***************************************************************************)
EXTENDS LicenceReview, TLC

MCUsers    == {"anna", "carl"}
MCMemberOf == [u \in MCUsers |-> IF u = "anna" THEN Groups ELSE {}]
MCUnitOf   == [u \in MCUsers |-> IF u = "anna" THEN "PLU" ELSE "none"]
MCApplicant == [i \in Items |-> "carl"]

MCStages   == {"hydrogeology", "director"}
MCOrder    == [s \in MCStages |-> IF s = "hydrogeology" THEN 2 ELSE 4]
MCGroup    == [s \in MCStages |-> "officer"]
MCOwner    == [s \in MCStages |-> "none"]
MCSubject  == [i \in Items |-> "PLU"]
MCReturns  == [s \in MCStages |-> IF s = "director" THEN {"hydrogeology"} ELSE {}]

Form(wmu, volume) == [wmu |-> wmu, volume |-> volume, conditions |-> "meter"]
MCOneForm    == {Form("W1", "reduced")}
MCTwoVolumes == {Form("W1", "reduced"), Form("W1", "as_requested")}
MCNotRenewal == [i \in Items |-> "no_item"]
MCWell       == [i \in Items |-> "well"]

(* The workers are interchangeable.                                        *)
AnyWorker == Permutations(Requests)
=============================================================================
