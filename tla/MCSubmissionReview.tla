------------------------- MODULE MCSubmissionReview -------------------------
(***************************************************************************)
(* Two submissions and one row already on record, under the two-stage      *)
(* review that bootstrap_workflows sets up.  Anna sends and decides: who   *)
(* may act is MCWorkflowEngine's business, and nothing here tells users    *)
(* apart.  The category has a site and a value; the value has a soft and a *)
(* hard maximum, and no two rows of a batch may be of one site.  One       *)
(* upload is a single good row; one has a flagged row and one that repeats *)
(* its site; one is refused as a whole.  MCKeyUsedOnce gives requests a key. *)
(***************************************************************************)
EXTENDS SubmissionReview

MCUsers     == {"anna"}
MCMemberOf  == [u \in MCUsers |-> Groups]
MCUnitOf    == [u \in MCUsers |-> "RMU"]
MCOrder     == [s \in Stages |-> IF s = "review" THEN 1 ELSE 2]
MCGroup     == [s \in Stages |-> "approver"]
MCOwner     == [s \in Stages |-> "none"]
MCSubject   == [i \in Items |-> "RMU"]
MCReturns   == [s \in Stages |-> IF s = "approve" THEN {"review"} ELSE {}]

Field(required, max, softMax) ==
  [required |-> required, min |-> {0}, max |-> max, softMin |-> {}, softMax |-> softMax]
MCFields == [site |-> Field(TRUE, {}, {}), value |-> Field(FALSE, {9}, {5})]
MCRules  == << [type |-> "unique_in_batch", hard |-> TRUE, args |-> <<"site">>] >>
MCGranted == << >>

Cell(site, value) == [site |-> {site}, value |-> {value}]
MCGood    == << Cell(1, 3) >>
MCMixed   == << Cell(1, 7), Cell(1, 3) >>
MCVoid    == << [site |-> {}, value |-> {1}] >>
MCUploads == {MCGood, MCMixed, MCVoid}

(* Bound: the actions recorded for both submissions together.              *)
MaxTogether == 6
FewActions ==
  \A i, j \in Items : i # j => Len(actions[i]) + Len(actions[j]) <= MaxTogether

Interchangeable == Permutations(Requests) \cup Permutations(Items)
=============================================================================
