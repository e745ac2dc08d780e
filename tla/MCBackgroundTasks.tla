-------------------------- MODULE MCBackgroundTasks --------------------------
(* Notifications with and without an address, two documents of one         *)
(* application and one of another.                                         *)
EXTENDS BackgroundTasks, TLC

CONSTANTS n1, n2, d1, d2, d3, a1, a2

MCApplicationOf == d1 :> a1 @@ d2 :> a1 @@ d3 :> a2

MCMaxRetries == [t \in Tasks |-> IF t \in {n1, d1} THEN 1 ELSE 0]

(* An email, two documents of an application, or one of each of two.       *)
MCTogether == {{n1}, {n2}, {d1, d2}, {d1, d3}}
=============================================================================
