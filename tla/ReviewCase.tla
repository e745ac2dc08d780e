----------------------------- MODULE ReviewCase -----------------------------
(***************************************************************************)
(* What the workflow engine of apps/workflow promises about one item under *)
(* review, with stages, groups and units left out: an item is opened at    *)
(* most once, is decided at most once and never re-opened, and every step  *)
(* leaves exactly one more line in a history that is only ever appended    *)
(* to.  engine.py says so in its module docstring and models.py in the     *)
(* docstring of WorkflowAction ("Append-only log of every workflow         *)
(* action").  WorkflowEngine implements this module.                       *)
(***************************************************************************)
EXTENDS Sequences

CONSTANTS Items,    \* what is reviewed: licence applications, submissions
          Entry     \* the lines a history may hold

VARIABLES phase,    \* [Items -> {"none", "open"} \cup Verdict]
          history   \* [Items -> Seq(Entry)]

vars == <<phase, history>>

Verdict == {"approved", "rejected", "withdrawn"}

Init ==
  /\ phase   = [i \in Items |-> "none"]
  /\ history = [i \in Items |-> << >>]

Move(i, from, to) ==
  /\ phase[i] = from
  /\ phase' = [phase EXCEPT ![i] = to]
  /\ \E e \in Entry : history' = [history EXCEPT ![i] = Append(@, e)]

Open(i)     == Move(i, "none", "open")
Work(i)     == Move(i, "open", "open")
Close(i, v) == Move(i, "open", v)

(* A remark is allowed on a closed item too: engine.comment asks for       *)
(* nothing but some text.                                                  *)
Remark(i) == phase[i] \in Verdict /\ Move(i, phase[i], phase[i])

Next ==
  \E i \in Items :
    \/ Open(i)
    \/ Work(i)
    \/ Remark(i)
    \/ \E v \in Verdict : Close(i, v)

Spec == Init /\ [][Next]_vars
=============================================================================
