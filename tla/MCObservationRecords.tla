------------------------ MODULE MCObservationRecords ------------------------
(***************************************************************************)
(* One row, three sessions at work at once, and a technician, tess, who    *)
(* may not approve observations, beside a hydrologist, hugh.               *)
(***************************************************************************)
EXTENDS ObservationRecords

MCPublications == UNION {[S -> Values] : S \in SUBSET Rows \ {{}}}

(* Values, and sessions, are interchangeable.                              *)
Interchangeable == Permutations(Editors) \cup Permutations(Values)
=============================================================================
