------------------------- MODULE MCCategoryVersions -------------------------
(***************************************************************************)
(* CategoryVersions for TLC: two administrators and a few fields, each     *)
(* interchangeable, and one deploy.                                        *)
(***************************************************************************)
EXTENDS CategoryVersions, TLC

Interchangeable == Permutations(Staff) \cup Permutations(Fields)
=============================================================================
