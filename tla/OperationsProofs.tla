------------------------- MODULE OperationsProofs -------------------------
(***************************************************************************)
(* Proofs about what keeps the system going behind the pages.              *)
(*                                                                         *)
(* BackgroundTasks, for any notifications, documents and workers and       *)
(* whatever fails, is retried, delivered again or lost: tasks find their   *)
(* rows, a committed task is never dropped without a trace, nobody sets    *)
(* out to send an email that is on record as sent, and a handle on record  *)
(* names an item that holds the document.                                  *)
(*                                                                         *)
(* Deployment, whichever apps are rolled back, however often and wherever  *)
(* it stops: no table that an applied migration rests on is dropped, the   *)
(* next migration of the plan finds what it names, and the full plan ends  *)
(* in the schema that the models declare.                                  *)
(***************************************************************************)
EXTENDS BackgroundTasks, Deployment, SequenceTheorems, WellFoundedInduction, TLAPS

Steps == {"start", "send", "sent", "create", "add", "archived", "error", "retry", "done"}
Messages == [task : Tasks, retries : Nat]
Places == Nat \cup {NoItem}
Busy == [step : Steps, msg : Messages, item : Places]
Item == [application : {ApplicationOf[d] : d \in Documents}, files : SUBSET Tasks]

\* The part of the types that the argument needs.
HandTypes ==
  /\ saved \in [Tasks -> {"absent", "open", "committed"}]
  /\ outbox \subseteq Tasks
  /\ queue \subseteq Messages
  /\ worker \in [Workers -> {Idle} \cup Busy]
  /\ sentAt \subseteq Tasks /\ failed \subseteq Tasks /\ lost \subseteq Tasks
  /\ handle \in [Documents -> Places]
  /\ items \in Seq(Item)

\* What has come of a task: its work is done, or a trace of its failure stays.
Marked(t) == Finished(t) \/ t \in failed \/ t \in lost

\* The tasks of a step: an email is sent, a document archived.
TasksOf(s) ==
  CASE s \in {"send", "sent"} -> Notifications
    [] s \in {"create", "add", "archived"} -> Documents
    [] OTHER -> Tasks

\* A worker that is about to acknowledge has left a mark; one that archives knows the item.
Settled ==
  \A w \in Workers :
    /\ worker[w].step \in {"retry", "done"} => Marked(TaskOf(w))
    /\ worker[w].step \in {"add", "archived"} => worker[w].item # NoItem
    /\ worker[w] # Idle => TaskOf(w) \in TasksOf(worker[w].step)

HandInv == HandTypes /\ TasksFindTheirRows /\ Settled /\ NothingForgotten

-----------------------------------------------------------------------------
\* A worker is idle or has a message.
LEMMA BusyWorker ==
  ASSUME HandTypes, NEW w \in Workers, ~At(w, "idle")
  PROVE  worker[w] \in Busy /\ TaskOf(w) \in Tasks /\ InHand(TaskOf(w))
<1>1. worker[w] \in Busy
  BY DEF HandTypes, At, Idle
<1>2. TaskOf(w) \in Tasks
  BY <1>1 DEF Busy, Messages, TaskOf
<1> QED BY <1>1, <1>2 DEF InHand

LEMMA FinishedStays ==
  ASSUME sentAt \subseteq sentAt', \A d \in Documents : handle[d] # NoItem => handle'[d] # NoItem, NEW t \in Tasks
  PROVE  Finished(t) => Finished(t)'
BY DEF Finished, Tasks

(***************************************************************************)
(* A worker goes on with its message, or gives it up: the mark is left, or *)
(* the message is with the broker again.                                   *)
(***************************************************************************)
LEMMA WorkerMoves ==
  ASSUME HandInv, HandTypes', NEW w \in Workers, NEW u \in Tasks, ~At(w, "idle"), u = TaskOf(w), NEW x \in {Idle} \cup Busy,
         worker' = [worker EXCEPT ![w] = x], UNCHANGED rows,
         queue \subseteq queue',
         \A m \in queue' : m \in queue \/ m.task = u,
         x # Idle => x.msg = worker[w].msg,
         x = Idle => Marked(u)' \/ \E m \in queue' : m.task = u,
         x.step \in {"retry", "done"} => Marked(u)',
         x.step \in {"add", "archived"} => x.item # NoItem,
         x # Idle => u \in TasksOf(x.step),
         \A t \in Tasks : Marked(t) => Marked(t)'
  PROVE  HandInv'
<1>1. worker[w] \in Busy /\ u \in Tasks /\ InHand(u)
  BY BusyWorker DEF HandInv
<1>2. worker'[w] = x /\ \A v \in Workers \ {w} : worker'[v] = worker[v]
  BY DEF HandInv, HandTypes
<1>3. saved' = saved /\ outbox' = outbox
  BY DEF rows
<1>4. x = Idle \/ (x \in Busy /\ x # Idle /\ x.step # "idle" /\ x.msg.task = u)
  BY DEF Idle, Busy, Steps, TaskOf
<1>5. \A t \in Tasks : InHand(t)' => InHand(t)
  <2> SUFFICES ASSUME NEW t \in Tasks, InHand(t)' PROVE InHand(t)
    OBVIOUS
  <2>1. CASE t \in outbox'
    BY <1>3, <2>1 DEF InHand
  <2>2. CASE \E m \in queue' : m.task = t
    BY <1>1, <2>2 DEF InHand
  <2>3. ASSUME NEW v \in Workers, worker'[v].step # "idle", worker'[v].msg.task = t PROVE InHand(t)
    <3>1. CASE v = w
      BY <1>1, <1>2, <1>4, <2>3, <3>1 DEF Idle
    <3>2. CASE v # w
      BY <1>2, <2>3, <3>2 DEF InHand, At, TaskOf
    <3> QED BY <3>1, <3>2
  <2> QED BY <2>1, <2>2, <2>3 DEF InHand, At, TaskOf
<1>6. \A t \in Tasks : InHand(t) => InHand(t)' \/ (t = u /\ x = Idle)
  <2> SUFFICES ASSUME NEW t \in Tasks, InHand(t), ~(t = u /\ x = Idle) PROVE InHand(t)'
    OBVIOUS
  <2>1. CASE t \in outbox
    BY <1>3, <2>1 DEF InHand
  <2>2. CASE \E m \in queue : m.task = t
    BY <2>2 DEF InHand
  <2>3. ASSUME NEW v \in Workers, worker[v].step # "idle", worker[v].msg.task = t PROVE InHand(t)'
    <3>1. CASE v = w
      <4>1. t = u /\ x # Idle
        BY <2>3, <3>1 DEF TaskOf
      <4>2. worker'[w].step # "idle" /\ worker'[w].msg.task = t
        BY <1>2, <1>4, <4>1
      <4> QED BY <4>2 DEF InHand, At, TaskOf
    <3>2. CASE v # w
      BY <1>2, <2>3, <3>2 DEF InHand, At, TaskOf
    <3> QED BY <3>1, <3>2
  <2> QED BY <2>1, <2>2, <2>3 DEF InHand, At, TaskOf
<1>7. TasksFindTheirRows'
  BY <1>3, <1>5 DEF HandInv, TasksFindTheirRows
<1>8. Settled'
  <2> SUFFICES ASSUME NEW v \in Workers
               PROVE  /\ worker'[v].step \in {"retry", "done"} => Marked(worker[v].msg.task)'
                      /\ worker'[v].step \in {"add", "archived"} => worker'[v].item # NoItem
                      /\ worker'[v] # Idle => worker'[v].msg.task \in TasksOf(worker'[v].step)
    BY DEF Settled, TaskOf
  <2>1. CASE v = w
    <3>1. CASE x = Idle
      BY <1>2, <2>1, <3>1 DEF Idle
    <3>2. CASE x # Idle
      <4>1. worker'[v] = x /\ x.msg.task = u
        BY <1>2, <1>4, <2>1, <3>2
      <4>2. worker'[v].step \in {"retry", "done"} => Marked(u)'
        BY <4>1
      <4>3. worker'[v].msg.task = u
        BY <4>1
      <4> QED BY <4>1, <4>2, <4>3
    <3> QED BY <3>1, <3>2
  <2>2. CASE v # w
    <3>1. worker'[v] = worker[v]
      BY <1>2, <2>2
    <3>2. worker[v] \in {Idle} \cup Busy
      BY DEF HandInv, HandTypes
    <3>3. CASE worker[v] = Idle
      BY <3>1, <3>3 DEF Idle
    <3>4. CASE worker[v] \in Busy
      <4>1. PICK t \in Tasks : worker[v].msg.task = t
        BY <3>4 DEF Busy, Messages
      <4>2. worker'[v].msg.task = t
        BY <3>1, <4>1
      <4>3. worker[v].step \in {"retry", "done"} => Marked(t)
        BY <4>1 DEF HandInv, Settled, TaskOf
      <4>4. worker'[v].step \in {"retry", "done"} => Marked(t)'
        BY <3>1, <4>3
      <4>5. worker[v].step \in {"add", "archived"} => worker[v].item # NoItem
        BY DEF HandInv, Settled
      <4>6. worker[v] # Idle => t \in TasksOf(worker[v].step)
        BY <4>1 DEF HandInv, Settled, TaskOf
      <4> QED BY <3>1, <4>2, <4>4, <4>5, <4>6
    <3> QED BY <3>2, <3>3, <3>4
  <2> QED BY <2>1, <2>2
<1>9. NothingForgotten'
  <2> SUFFICES ASSUME NEW t \in Tasks, saved[t] = "committed", ~InHand(t)' PROVE Marked(t)'
    BY <1>3 DEF NothingForgotten, Marked
  <2>1. CASE InHand(t)
    <3>1. t = u /\ x = Idle
      BY <1>6, <2>1
    <3>2. ~\E m \in queue' : m.task = t
      BY DEF InHand
    <3> QED BY <3>1, <3>2
  <2>2. CASE ~InHand(t)
    BY <2>2 DEF HandInv, NothingForgotten, Marked
  <2> QED BY <2>1, <2>2
<1> QED BY <1>7, <1>8, <1>9 DEF HandInv

-----------------------------------------------------------------------------
(* What a step of a worker makes of it.                                    *)

LEMMA Went ==
  ASSUME HandTypes, NEW w \in Workers, worker[w] \in Busy, NEW s \in Steps, NEW i \in Places
  PROVE  /\ [worker[w] EXCEPT !.step = s, !.item = i] \in Busy
         /\ [worker[w] EXCEPT !.step = s] \in Busy
         /\ [worker[w] EXCEPT !.step = s].step = s /\ [worker[w] EXCEPT !.step = s].msg = worker[w].msg
         /\ [worker[w] EXCEPT !.step = s].item = worker[w].item
         /\ [worker[w] EXCEPT !.step = s, !.item = i].step = s
         /\ [worker[w] EXCEPT !.step = s, !.item = i].item = i
         /\ [worker[w] EXCEPT !.step = s, !.item = i].msg = worker[w].msg
BY DEF Busy

\* Going on to another step, with rows and messages as they are.
LEMMA GoKeeps ==
  ASSUME HandInv, NEW w \in Workers, NEW u \in Tasks, ~At(w, "idle"), u = TaskOf(w),
         NEW s \in Steps, Goto(w, s), UNCHANGED <<rows, queue, lost>>,
         s \in {"retry", "done"} => Marked(u)',
         s \in {"add", "archived"} => worker[w].item # NoItem,
         u \in TasksOf(s),
         sentAt \subseteq sentAt', sentAt' \subseteq Tasks, failed' \subseteq Tasks,
         handle' \in [Documents -> Places], items' \in Seq(Item),
         \A t \in Tasks : Marked(t) => Marked(t)'
  PROVE  HandInv'
<1> DEFINE x == [worker[w] EXCEPT !.step = s]
<1>1. worker[w] \in Busy
  BY BusyWorker DEF HandInv
<1>2. x \in Busy /\ x.step = s /\ x.msg = worker[w].msg /\ x.item = worker[w].item
  BY <1>1 DEF Busy
<1>3. worker' = [worker EXCEPT ![w] = x]
  BY DEF Goto
<1>4. x # Idle
  BY <1>2 DEF Idle, Steps
<1> HIDE DEF x
<1>5. HandTypes'
  BY <1>2, <1>3 DEF HandInv, HandTypes, rows
<1> QED BY <1>2, <1>3, <1>4, <1>5, WorkerMoves

\* An attempt to send changes nothing that is saved.
LEMMA MailKeeps == ASSUME HandInv, NEW w \in Workers, MailStart(w) \/ Send(w) \/ SaveSent(w) PROVE HandInv'
<1> DEFINE u == TaskOf(w)
<1>1. ~At(w, "idle") /\ worker[w] \in Busy /\ u \in Tasks /\ InHand(u)
  BY BusyWorker DEF MailStart, Send, SaveSent, At, HandInv
<1>2. saved[u] = "committed"
  BY <1>1 DEF HandInv, TasksFindTheirRows
<1>3. PICK t \in Tasks : t = u
  BY <1>1
<1>4. HandTypes
  BY DEF HandInv
<1> HIDE DEF u
<1>5. CASE MailStart(w)
  <2>1. PICK s \in {"send", "done"} : Goto(w, s) /\ (s = "done" => ~ToSend(t))
    BY <1>3, <1>5 DEF MailStart, u
  <2>2. UNCHANGED <<rows, queue, lost, sentAt, failed, handle, items>> /\ t \in Notifications
    BY <1>3, <1>5 DEF MailStart, fields, outside, mishaps, u
  <2>3. s = "done" => Marked(t)
    BY <1>2, <1>3, <2>1, <2>2 DEF ToSend, Marked, Finished
  <2>4. \A v \in Tasks : Marked(v) => Marked(v)'
    BY <2>2 DEF Marked, Finished
  <2>5. s \in Steps /\ s \notin {"retry", "add", "archived"} /\ t \in TasksOf(s)
    BY <2>1, <2>2 DEF Steps, TasksOf
  <2>6. s \in {"retry", "done"} => Marked(t)'
    BY <2>3, <2>4, <2>5
  <2> QED BY <1>1, <1>3, <1>4, <2>1, <2>2, <2>4, <2>5, <2>6, GoKeeps DEF HandTypes, u
<1>6. CASE Send(w)
  <2>1. PICK s \in {"sent", "error"} : Goto(w, s)
    BY <1>6 DEF Send
  <2>2. UNCHANGED <<rows, queue, lost, sentAt, failed, handle, items>>
    BY <1>6 DEF Send, fields, mishaps
  <2>3. \A v \in Tasks : Marked(v) => Marked(v)'
    BY <2>2 DEF Marked, Finished
  <2>4. s \in Steps /\ s \notin {"retry", "done", "add", "archived"} /\ t \in TasksOf(s)
    BY <1>1, <1>3, <1>6, <2>1 DEF Steps, TasksOf, Send, HandInv, Settled, u, At, Idle
  <2> QED BY <1>1, <1>3, <1>4, <2>1, <2>2, <2>3, <2>4, GoKeeps DEF HandTypes, u
<1>7. CASE SaveSent(w)
  <2>1. /\ Goto(w, "done") /\ sentAt' = sentAt \cup {t} /\ failed' = failed \ {t}
        /\ UNCHANGED <<rows, queue, lost, handle, items>>
    BY <1>3, <1>7 DEF SaveSent, outside, mishaps, u
  <2>2. t \in Notifications
    BY <1>1, <1>3, <1>7 DEF SaveSent, HandInv, Settled, TasksOf, u, At, Idle
  <2>3. \A v \in Tasks : Marked(v) => Marked(v)'
    BY <2>1, <2>2 DEF Marked, Finished
  <2>4. Marked(t)' /\ "done" \in Steps /\ t \in TasksOf("done")
    BY <2>1, <2>2 DEF Marked, Finished, Steps, TasksOf
  <2> QED BY <1>1, <1>3, <1>4, <2>1, <2>3, <2>4, GoKeeps DEF HandTypes, u
<1> QED BY <1>5, <1>6, <1>7

\* Items are added and filled, never shortened; a handle is set to an item there is.
LEMMA FilledItems ==
  ASSUME items \in Seq(Item), NEW i \in Places, NEW t \in Tasks
  PROVE  [items EXCEPT ![i].files = @ \cup {t}] \in Seq(Item)
<1>1. CASE i \in 1 .. Len(items)
  <2>1. items[i] \in Item
    BY <1>1
  <2>2. [items[i] EXCEPT !.files = @ \cup {t}] \in Item
    BY <2>1 DEF Item
  <2>3. [items EXCEPT ![i] = [items[i] EXCEPT !.files = @ \cup {t}]] \in Seq(Item)
    BY <1>1, <2>2, ExceptSeq
  <2> QED BY <1>1, <2>3
<1>2. CASE i \notin 1 .. Len(items)
  <2>1. items \in [1 .. Len(items) -> Item]
    BY LenProperties, ElementOfSeq
  <2>2. [items EXCEPT ![i].files = @ \cup {t}] = items
    BY <1>2, <2>1
  <2> QED BY <2>2
<1> QED BY <1>1, <1>2

LEMMA ArchiveKeeps ==
  ASSUME HandInv, NEW w \in Workers, ArchiveStart(w) \/ CreateItem(w) \/ AddBitstream(w) \/ SaveHandle(w)
  PROVE  HandInv'
<1> DEFINE u == TaskOf(w)
<1>1. ~At(w, "idle") /\ worker[w] \in Busy /\ u \in Tasks /\ InHand(u)
  BY BusyWorker DEF ArchiveStart, CreateItem, AddBitstream, SaveHandle, At, HandInv
<1>2. saved[u] = "committed"
  BY <1>1 DEF HandInv, TasksFindTheirRows
<1>3. PICK t \in Tasks : t = u
  BY <1>1
<1>4. HandTypes /\ NoItem \notin Nat
  BY TasksAssumption DEF HandInv
<1>5. worker[w].item \in Places /\ worker[w] # Idle
  BY <1>1 DEF Busy, At, Idle
<1> HIDE DEF u
<1>6. CASE ArchiveStart(w)
  <2>1. UNCHANGED <<rows, queue, lost, sentAt, failed, handle, items>> /\ t \in Documents
    BY <1>3, <1>6 DEF ArchiveStart, fields, outside, mishaps, u
  <2>2. \A v \in Tasks : Marked(v) => Marked(v)'
    BY <2>1 DEF Marked, Finished
  <2>3. CASE Goto(w, "create")
    <3>1. "create" \in Steps /\ t \in TasksOf("create")
      BY <2>1 DEF Steps, TasksOf
    <3> QED BY <1>1, <1>3, <1>4, <2>1, <2>2, <2>3, <3>1, GoKeeps DEF HandTypes, u
  <2>4. CASE ~Goto(w, "create")
    <3>1. PICK h \in OtherHandles(t) : worker' = [worker EXCEPT ![w].step = "add", ![w].item = h]
      BY <1>2, <1>3, <1>6, <2>4 DEF ArchiveStart, u
    <3>2. h \in Nat /\ h # NoItem /\ h \in Places
      BY <1>4, <3>1 DEF OtherHandles, HandTypes, Places
    <3> DEFINE x == [worker[w] EXCEPT !.step = "add", !.item = h]
    <3>3. "add" \in Steps /\ t \in TasksOf("add")
      BY <2>1 DEF Steps, TasksOf
    <3>4. x \in Busy /\ x.step = "add" /\ x.item = h /\ x.msg = worker[w].msg
      BY <1>1, <3>2, <3>3 DEF Busy
    <3>5. worker' = [worker EXCEPT ![w] = x] /\ x # Idle
      BY <1>1, <1>4, <3>1, <3>4 DEF HandTypes, Idle
    <3> HIDE DEF x
    <3>6. HandTypes'
      BY <1>4, <2>1, <3>4, <3>5 DEF HandTypes, rows
    <3> QED BY <1>1, <1>3, <2>1, <2>2, <3>2, <3>3, <3>4, <3>5, <3>6, WorkerMoves DEF u
  <2> QED BY <2>3, <2>4
<1>7. CASE CreateItem(w)
  <2>1. t \in Documents
    BY <1>1, <1>3, <1>5, <1>7 DEF CreateItem, HandInv, Settled, TasksOf, u, At
  <2>2. UNCHANGED <<rows, queue, lost, sentAt, failed, handle>>
    BY <1>7 DEF CreateItem, fields, mishaps
  <2>3. PICK s \in {"add", "error"}, i \in Places :
          /\ worker' = [worker EXCEPT ![w].step = s, ![w].item = i]
          /\ s = "add" => i # NoItem
    <3>1. Len(items) + 1 \in Nat
      BY <1>4, LenProperties DEF HandTypes
    <3> QED BY <1>4, <1>7, <3>1 DEF CreateItem, Places
  <2>4. items' \in Seq(Item)
    <3>1. [application |-> ApplicationOf[t], files |-> {}] \in Item
      BY <2>1 DEF Item
    <3>2. items' = items \/ items' = Append(items, [application |-> ApplicationOf[t], files |-> {}])
      BY <1>3, <1>7 DEF CreateItem, u
    <3> QED BY <1>4, <3>1, <3>2, AppendProperties DEF HandTypes
  <2> DEFINE x == [worker[w] EXCEPT !.step = s, !.item = i]
  <2>5. s \in Steps /\ t \in TasksOf(s)
    BY <2>1, <2>3 DEF Steps, TasksOf
  <2>6. x \in Busy /\ x.step = s /\ x.item = i /\ x.msg = worker[w].msg
    BY <1>1, <2>3, <2>5 DEF Busy
  <2>7. worker' = [worker EXCEPT ![w] = x] /\ x # Idle
    BY <1>1, <1>4, <2>3, <2>5, <2>6 DEF HandTypes, Idle, Steps
  <2> HIDE DEF x
  <2>8. HandTypes'
    BY <1>4, <2>2, <2>4, <2>6, <2>7 DEF HandTypes, rows
  <2>9. \A v \in Tasks : Marked(v) => Marked(v)'
    BY <2>2 DEF Marked, Finished
  <2>10. x.step \notin {"retry", "done", "archived"} /\ (x.step = "add" => x.item # NoItem)
    BY <2>3, <2>6
  <2> QED BY <1>1, <1>3, <2>2, <2>5, <2>6, <2>7, <2>8, <2>9, <2>10, WorkerMoves DEF u
<1>8. CASE AddBitstream(w)
  <2>1. PICK s \in {"archived", "error"} : Goto(w, s)
    BY <1>8 DEF AddBitstream
  <2>2. UNCHANGED <<rows, queue, lost, sentAt, failed, handle>>
    BY <1>8 DEF AddBitstream, fields, mishaps
  <2>3. t \in Documents /\ worker[w].item # NoItem
    BY <1>1, <1>3, <1>5, <1>8 DEF AddBitstream, HandInv, Settled, TasksOf, u, At
  <2>4. items' \in Seq(Item)
    <3>1. items' = items \/ items' = [items EXCEPT ![worker[w].item].files = @ \cup {t}]
      BY <1>3, <1>8 DEF AddBitstream, u
    <3> QED BY <1>4, <1>5, <3>1, FilledItems DEF HandTypes
  <2>5. \A v \in Tasks : Marked(v) => Marked(v)'
    BY <2>2 DEF Marked, Finished
  <2>6. s \in Steps /\ s \notin {"retry", "done"} /\ t \in TasksOf(s)
    BY <2>1, <2>3 DEF Steps, TasksOf
  <2> QED BY <1>1, <1>3, <1>4, <2>1, <2>2, <2>3, <2>4, <2>5, <2>6, GoKeeps DEF HandTypes, u
<1>9. CASE SaveHandle(w)
  <2>1. /\ Goto(w, "done") /\ handle' = [handle EXCEPT ![t] = worker[w].item] /\ failed' = failed \ {t}
        /\ UNCHANGED <<rows, queue, lost, sentAt, items>>
    BY <1>3, <1>9 DEF SaveHandle, outside, mishaps, u
  <2>2. t \in Documents /\ t \notin Notifications /\ worker[w].item # NoItem
    BY <1>1, <1>3, <1>5, <1>9, TasksAssumption DEF SaveHandle, HandInv, Settled, TasksOf, u, At
  <2>3. \A v \in Tasks : Marked(v) => Marked(v)'
    BY <1>4, <2>1, <2>2 DEF Marked, Finished, HandTypes, Tasks
  <2>4. Marked(t)' /\ "done" \in Steps /\ t \in TasksOf("done")
    BY <1>4, <2>1, <2>2 DEF Marked, Finished, Steps, TasksOf, HandTypes
  <2>5. handle' \in [Documents -> Places]
    BY <1>4, <1>5, <2>1 DEF HandTypes
  <2> QED BY <1>1, <1>3, <1>4, <2>1, <2>3, <2>4, <2>5, GoKeeps DEF HandTypes, u
<1> QED BY <1>6, <1>7, <1>8, <1>9

\* A failure leaves its error on the row before the next attempt is queued and the message acknowledged.
LEMMA FailKeeps == ASSUME HandInv, NEW w \in Workers, SaveError(w) \/ Retry(w) \/ Done(w) PROVE HandInv'
<1> DEFINE u == TaskOf(w)
<1>1. ~At(w, "idle") /\ worker[w] \in Busy /\ u \in Tasks
  BY BusyWorker DEF SaveError, Retry, Done, At, HandInv
<1>2. PICK t \in Tasks : t = u
  BY <1>1
<1>3. HandTypes
  BY DEF HandInv
<1> HIDE DEF u
<1>4. CASE SaveError(w)
  <2>1. Goto(w, "retry") /\ failed' = failed \cup {t} /\ UNCHANGED <<rows, queue, lost, sentAt, handle, items>>
    BY <1>2, <1>4 DEF SaveError, outside, mishaps, u
  <2>2. \A v \in Tasks : Marked(v) => Marked(v)'
    BY <2>1 DEF Marked, Finished
  <2>3. Marked(t)' /\ "retry" \in Steps /\ t \in TasksOf("retry")
    BY <2>1 DEF Marked, Steps, TasksOf
  <2> QED BY <1>1, <1>2, <1>3, <2>1, <2>2, <2>3, GoKeeps DEF HandTypes, u
<1>5. CASE Retry(w)
  <2> DEFINE x == [worker[w] EXCEPT !.step = "done"]
  <2>1. UNCHANGED <<rows, lost, sentAt, failed, handle, items>>
    BY <1>5 DEF Retry, fields, outside, mishaps
  <2>2. x \in Busy /\ x.step = "done" /\ x.msg = worker[w].msg /\ x # Idle
    BY <1>1 DEF Busy, Steps, Idle
  <2>3. worker' = [worker EXCEPT ![w] = x]
    BY <1>5 DEF Retry, Goto
  <2>4. queue' = queue \/ \E n \in Nat : queue' = queue \cup {Message(t, n)}
    <3>1. worker[w].msg \in Messages /\ worker[w].msg.task = t
      BY <1>1, <1>2 DEF Busy, TaskOf, u
    <3>2. worker[w].msg.retries + 1 \in Nat
      BY <3>1 DEF Messages
    <3> QED BY <1>5, <3>1, <3>2 DEF Retry, QueueRetry
  <2>5. queue \subseteq queue' /\ queue' \subseteq Messages /\ \A m \in queue' : m \in queue \/ m.task = t
    BY <1>3, <2>4 DEF HandTypes, Messages, Message
  <2> HIDE DEF x
  <2>6. HandTypes'
    BY <1>3, <2>1, <2>2, <2>3, <2>5 DEF HandTypes, rows
  <2>7. \A v \in Tasks : Marked(v) => Marked(v)'
    BY <2>1 DEF Marked, Finished
  <2>8. Marked(t)
    BY <1>2, <1>5 DEF Retry, At, HandInv, Settled, u
  <2>9. t \in TasksOf("done")
    BY DEF TasksOf
  <2> QED BY <1>1, <1>2, <2>1, <2>2, <2>3, <2>5, <2>6, <2>7, <2>8, <2>9, WorkerMoves DEF u
<1>6. CASE Done(w)
  <2>1. worker' = [worker EXCEPT ![w] = Idle] /\ UNCHANGED <<rows, queue, lost, sentAt, failed, handle, items>>
    BY <1>6 DEF Done, Acknowledge, fields, outside, mishaps
  <2>2. HandTypes'
    BY <1>3, <2>1 DEF HandTypes, rows
  <2>3. \A v \in Tasks : Marked(v) => Marked(v)'
    BY <2>1 DEF Marked, Finished
  <2>4. Marked(t)
    BY <1>2, <1>6 DEF Done, At, HandInv, Settled, u
  <2>5. Idle.step = "idle"
    BY DEF Idle
  <2> QED BY <1>1, <1>2, <2>1, <2>2, <2>3, <2>4, <2>5, WorkerMoves DEF u
<1> QED BY <1>4, <1>5, <1>6

LEMMA InterruptionKeeps == ASSUME HandInv, NEW w \in Workers, Interruption(w) PROVE HandInv'
<1> DEFINE u == TaskOf(w)
<1>1. ~At(w, "idle") /\ worker[w] \in Busy /\ u \in Tasks
  BY BusyWorker DEF Interruption, Redeliver, HostDies, ProcessDies, At, HandInv
<1>2. PICK t \in Tasks : t = u
  BY <1>1
<1>3. HandTypes /\ worker[w].msg \in Messages /\ worker[w].msg.task = t /\ Idle.step = "idle"
  BY <1>1, <1>2 DEF HandInv, Busy, TaskOf, Idle
<1> HIDE DEF u
<1>4. CASE Redeliver(w)
  <2>1. /\ worker' = [worker EXCEPT ![w] = worker[w]] /\ queue' = queue \cup {worker[w].msg}
        /\ UNCHANGED <<rows, lost, sentAt, failed, handle, items>>
    BY <1>3, <1>4 DEF Redeliver, fields, outside, HandTypes
  <2>2. HandTypes'
    BY <1>1, <1>3, <2>1 DEF HandTypes, rows
  <2>3. \A v \in Tasks : Marked(v) <=> Marked(v)'
    BY <2>1 DEF Marked, Finished
  <2>4. /\ worker[w].step \in {"retry", "done"} => Marked(t)
        /\ worker[w].step \in {"add", "archived"} => worker[w].item # NoItem
        /\ worker[w] # Idle => t \in TasksOf(worker[w].step)
    BY <1>2 DEF HandInv, Settled, u
  <2>5. queue \subseteq queue' /\ \A m \in queue' : m \in queue \/ m.task = t
    BY <1>3, <2>1
  <2>6. worker[w] # Idle
    BY <1>1, <1>3 DEF At
  <2> QED BY <1>1, <1>2, <2>1, <2>2, <2>3, <2>4, <2>5, <2>6, WorkerMoves DEF u
<1>5. CASE HostDies(w)
  <2>1. /\ worker' = [worker EXCEPT ![w] = Idle] /\ queue' = queue \cup {worker[w].msg}
        /\ UNCHANGED <<rows, lost, sentAt, failed, handle, items>>
    BY <1>5 DEF HostDies, Acknowledge, fields, outside
  <2>2. HandTypes'
    BY <1>3, <2>1 DEF HandTypes, rows
  <2>3. \A v \in Tasks : Marked(v) => Marked(v)'
    BY <2>1 DEF Marked, Finished
  <2>4. queue \subseteq queue' /\ (\A m \in queue' : m \in queue \/ m.task = t) /\ \E m \in queue' : m.task = t
    BY <1>3, <2>1
  <2> QED BY <1>1, <1>2, <1>3, <2>1, <2>2, <2>3, <2>4, WorkerMoves DEF u
<1>6. CASE ProcessDies(w)
  <2>1. /\ worker' = [worker EXCEPT ![w] = Idle] /\ lost' = lost \cup {t}
        /\ UNCHANGED <<rows, queue, sentAt, failed, handle, items>>
    BY <1>2, <1>6 DEF ProcessDies, Acknowledge, fields, outside, u
  <2>2. HandTypes'
    BY <1>3, <2>1 DEF HandTypes, rows
  <2>3. Marked(t)' /\ \A v \in Tasks : Marked(v) => Marked(v)'
    BY <2>1 DEF Marked, Finished
  <2> QED BY <1>1, <1>2, <1>3, <2>1, <2>2, <2>3, WorkerMoves DEF u
<1> QED BY <1>4, <1>5, <1>6 DEF Interruption

-----------------------------------------------------------------------------
(***************************************************************************)
(* A step that touches no worker's work: what is in hand afterwards is     *)
(* committed, and what goes out of hand is marked.                         *)
(***************************************************************************)
LEMMA OtherStep ==
  ASSUME HandInv, HandTypes', worker' = worker,
         \A t \in Tasks : InHand(t)' => saved'[t] = "committed",
         \A t \in Tasks : saved'[t] = "committed" => InHand(t)' \/ Marked(t)' \/ (saved[t] = "committed" /\ ~InHand(t)),
         \A t \in Tasks : Marked(t) => Marked(t)'
  PROVE  HandInv'
<1>1. Settled'
  <2> SUFFICES ASSUME NEW w \in Workers
               PROVE  /\ worker[w].step \in {"retry", "done"} => Marked(worker[w].msg.task)'
                      /\ worker[w].step \in {"add", "archived"} => worker[w].item # NoItem
                      /\ worker[w] # Idle => worker[w].msg.task \in TasksOf(worker[w].step)
    BY DEF Settled, TaskOf
  <2>1. CASE worker[w] = Idle
    BY <2>1 DEF Idle
  <2>2. CASE worker[w] # Idle
    <3>1. PICK t \in Tasks : worker[w].msg.task = t
      BY <2>2 DEF HandInv, HandTypes, Busy, Messages
    <3>2. worker'[w].msg.task = t
      BY <3>1
    <3> QED BY <3>1, <3>2 DEF HandInv, Settled, TaskOf
  <2> QED BY <2>1, <2>2
<1>2. TasksFindTheirRows'
  BY DEF TasksFindTheirRows
<1>3. NothingForgotten'
  BY DEF HandInv, NothingForgotten, Marked
<1> QED BY <1>1, <1>2, <1>3 DEF HandInv

\* Nobody has a row in hand that is not committed; on_commit and the broker only pass tasks on.
LEMMA WebKeeps == ASSUME HandInv, NEW u \in Tasks, WebStep(u) \/ OnCommit(u) PROVE HandInv'
<1>1. /\ UNCHANGED <<worker, sentAt, failed, handle, items>>
      /\ \A t \in Tasks : Marked(t) => Marked(t)'
  BY DEF WebStep, Save, Commit, Rollback, NeverQueued, OnCommit, fields, outside, mishaps, Marked, Finished
<1>2. HandTypes /\ \A t \in Tasks : InHand(t) => saved[t] = "committed"
  BY DEF HandInv, TasksFindTheirRows
<1>3. \A t \in Tasks : InHand(t)' <=> \/ t \in outbox' \/ (\E m \in queue' : m.task = t)
                                      \/ \E w \in Workers : ~At(w, "idle") /\ TaskOf(w) = t
  BY <1>1 DEF InHand, At, TaskOf
<1>4. CASE Save(u)
  <2>1. /\ saved[u] = "absent" /\ queue' = queue /\ lost' = lost
        /\ saved' = [saved EXCEPT ![u] = IF u \in Notifications THEN "open" ELSE "committed"]
        /\ outbox' = outbox \cup ({u} \cap Documents)
    BY <1>4 DEF Save, mishaps
  <2>2. HandTypes'
    BY <1>1, <1>2, <2>1 DEF HandTypes, Tasks
  <2>3. ASSUME NEW t \in Tasks, t # u
        PROVE  (InHand(t)' <=> InHand(t)) /\ saved'[t] = saved[t]
    BY <1>2, <1>3, <2>1, <2>3 DEF InHand, HandTypes
  <2>4. InHand(u)' => saved'[u] = "committed"
    <3>1. ~InHand(u)
      BY <1>2, <2>1
    <3>2. InHand(u)' => u \in Documents
      BY <1>3, <2>1, <3>1 DEF InHand
    <3> QED BY <1>2, <2>1, <3>2, TasksAssumption DEF HandTypes
  <2>5. saved'[u] = "committed" => InHand(u)'
    BY <1>2, <1>3, <2>1 DEF HandTypes, Tasks
  <2>6. \A t \in Tasks : InHand(t)' => saved'[t] = "committed"
    BY <1>2, <2>3, <2>4
  <2>7. \A t \in Tasks : saved'[t] = "committed" => InHand(t)' \/ Marked(t)' \/ (saved[t] = "committed" /\ ~InHand(t))
    BY <2>3, <2>5
  <2> QED BY <1>1, <2>2, <2>6, <2>7, OtherStep
<1>5. CASE Commit(u) \/ Rollback(u)
  <2>1. /\ saved[u] = "open" /\ queue' = queue /\ lost' = lost
        /\ \/ saved' = [saved EXCEPT ![u] = "committed"] /\ outbox' = outbox \cup {u}
           \/ saved' = [saved EXCEPT ![u] = "absent"] /\ outbox' = outbox
    BY <1>5 DEF Commit, Rollback, mishaps
  <2>2. HandTypes'
    BY <1>1, <1>2, <2>1 DEF HandTypes
  <2>3. ASSUME NEW t \in Tasks, t # u
        PROVE  (InHand(t)' <=> InHand(t)) /\ saved'[t] = saved[t]
    BY <1>2, <1>3, <2>1, <2>3 DEF InHand, HandTypes
  <2>4. ~InHand(u)
    BY <1>2, <2>1
  <2>5. InHand(u)' <=> saved'[u] = "committed"
    BY <1>2, <1>3, <2>1, <2>4 DEF InHand, HandTypes
  <2>6. \A t \in Tasks : InHand(t)' => saved'[t] = "committed"
    BY <1>2, <2>3, <2>5
  <2>7. \A t \in Tasks : saved'[t] = "committed" => InHand(t)' \/ Marked(t)' \/ (saved[t] = "committed" /\ ~InHand(t))
    BY <2>3, <2>5
  <2> QED BY <1>1, <2>2, <2>6, <2>7, OtherStep
<1>6. CASE OnCommit(u) \/ NeverQueued(u)
  <2>1. /\ u \in outbox /\ outbox' = outbox \ {u} /\ saved' = saved
        /\ \/ queue' = queue \cup {Message(u, 0)} /\ lost' = lost
           \/ queue' = queue /\ lost' = lost \cup {u}
    BY <1>6 DEF OnCommit, NeverQueued, mishaps
  <2>2. Message(u, 0) \in Messages /\ Message(u, 0).task = u
    BY DEF Message, Messages
  <2>3. HandTypes'
    BY <1>1, <1>2, <2>1, <2>2 DEF HandTypes
  <2>4. InHand(u) /\ (InHand(u)' \/ Marked(u)')
    BY <1>3, <2>1, <2>2 DEF InHand, Marked
  <2>5. \A t \in Tasks : t # u => (InHand(t)' <=> InHand(t))
    BY <1>3, <2>1, <2>2 DEF InHand
  <2>6. \A t \in Tasks : InHand(t)' => saved'[t] = "committed"
    BY <1>2, <2>1, <2>4, <2>5
  <2>7. \A t \in Tasks : saved'[t] = "committed" => InHand(t)' \/ Marked(t)' \/ (saved[t] = "committed" /\ ~InHand(t))
    BY <2>1, <2>4, <2>5
  <2> QED BY <1>1, <2>3, <2>6, <2>7, OtherStep
<1> QED BY <1>4, <1>5, <1>6 DEF WebStep

LEMMA DeliverKeeps == ASSUME HandInv, NEW w \in Workers, NEW m \in queue, Deliver(w, m) PROVE HandInv'
<1> DEFINE x == [step |-> "start", msg |-> m, item |-> NoItem]
<1>1. /\ worker[w].step = "idle" /\ queue' = queue \ {m} /\ worker' = [worker EXCEPT ![w] = x]
      /\ UNCHANGED <<saved, outbox, sentAt, failed, handle, items, lost>>
  BY DEF Deliver, At, rows, fields, outside, mishaps
<1>2. HandTypes /\ m \in Messages /\ m.task \in Tasks
  BY DEF HandInv, HandTypes, Messages
<1>3. x \in Busy
  BY <1>2 DEF Busy, Steps, Places
<1>4. HandTypes'
  BY <1>1, <1>2, <1>3 DEF HandTypes
<1>5. worker'[w] = x /\ \A v \in Workers \ {w} : worker'[v] = worker[v]
  BY <1>1, <1>2 DEF HandTypes
<1>6. \A t \in Tasks : Marked(t)' <=> Marked(t)
  BY <1>1 DEF Marked, Finished
<1>7. \A t \in Tasks : InHand(t)' <=> InHand(t)
  <2> SUFFICES ASSUME NEW t \in Tasks PROVE InHand(t)' <=> InHand(t)
    OBVIOUS
  <2>1. CASE t = m.task
    BY <1>5, <2>1 DEF InHand, At, TaskOf
  <2>2. CASE t # m.task
    <3>1. (\E n \in queue' : n.task = t) <=> (\E n \in queue : n.task = t)
      BY <1>1, <2>2
    <3>2. (\E v \in Workers : worker'[v].step # "idle" /\ worker'[v].msg.task = t)
          <=> (\E v \in Workers : worker[v].step # "idle" /\ worker[v].msg.task = t)
      BY <1>1, <1>5, <2>2
    <3> QED BY <1>1, <3>1, <3>2 DEF InHand, At, TaskOf
  <2> QED BY <2>1, <2>2
<1>8. Settled'
  <2> SUFFICES ASSUME NEW v \in Workers
               PROVE  /\ worker'[v].step \in {"retry", "done"} => Marked(worker[v].msg.task)'
                      /\ worker'[v].step \in {"add", "archived"} => worker'[v].item # NoItem
                      /\ worker'[v] # Idle => worker'[v].msg.task \in TasksOf(worker'[v].step)
    BY DEF Settled, TaskOf
  <2>1. CASE v = w
    BY <1>2, <1>5, <2>1 DEF TasksOf
  <2>2. CASE v # w
    <3>1. worker'[v] = worker[v]
      BY <1>5, <2>2
    <3>2. CASE worker[v] = Idle
      BY <3>1, <3>2 DEF Idle
    <3>3. CASE worker[v] # Idle
      <4>1. PICK t \in Tasks : worker[v].msg.task = t
        BY <1>2, <3>3 DEF HandTypes, Busy, Messages
      <4>2. worker'[v].msg.task = t
        BY <3>1, <4>1
      <4> QED BY <1>6, <3>1, <4>1, <4>2 DEF HandInv, Settled, TaskOf
    <3> QED BY <3>2, <3>3
  <2> QED BY <2>1, <2>2
<1>9. TasksFindTheirRows' /\ NothingForgotten'
  BY <1>1, <1>6, <1>7 DEF HandInv, TasksFindTheirRows, NothingForgotten, Marked
<1> QED BY <1>4, <1>8, <1>9 DEF HandInv

LEMMA NextKeeps == ASSUME HandInv, [TasksNext]_tvars PROVE HandInv'
<1>1. ASSUME NEW w \in Workers, WorkerStep(w) PROVE HandInv'
  BY <1>1, MailKeeps, ArchiveKeeps, FailKeeps DEF WorkerStep, MailStep, ArchiveStep
<1>2. CASE UNCHANGED tvars
  <2>1. UNCHANGED <<worker, saved, outbox, queue, sentAt, failed, handle, items, lost>>
    BY <1>2 DEF tvars
  <2>2. HandTypes'
    BY <2>1 DEF HandInv, HandTypes
  <2>3. \A t \in Tasks : (InHand(t)' <=> InHand(t)) /\ (Marked(t)' <=> Marked(t))
    BY <2>1 DEF InHand, At, TaskOf, Marked, Finished
  <2> QED BY <2>1, <2>2, <2>3, OtherStep DEF HandInv, TasksFindTheirRows
<1> QED BY <1>1, <1>2, WebKeeps, DeliverKeeps, InterruptionKeeps DEF TasksNext

LEMMA InitHolds == TasksInit => HandInv
<1> SUFFICES ASSUME TasksInit PROVE HandInv
  OBVIOUS
<1>1. outbox = {} /\ queue = {} /\ \A w \in Workers : worker[w] = Idle /\ worker[w].step = "idle"
  BY DEF TasksInit, Idle
<1>2. HandTypes
  BY EmptySeq DEF TasksInit, HandTypes, Places
<1>3. \A t \in Tasks : ~InHand(t) /\ saved[t] = "absent"
  BY <1>1 DEF InHand, At, TasksInit
<1>4. Settled
  BY <1>1 DEF Settled
<1> QED BY <1>2, <1>3, <1>4 DEF HandInv, TasksFindTheirRows, NothingForgotten

-----------------------------------------------------------------------------
(***************************************************************************)
(* Whoever has a task in hand finds its row committed (notify and          *)
(* attach_document queue their tasks in on_commit).                        *)
(***************************************************************************)
THEOREM RowsAreFound == TasksSpec => []TasksFindTheirRows
<1>1. HandInv /\ [TasksNext]_tvars => HandInv'
  BY NextKeeps
<1>2. HandInv => TasksFindTheirRows
  BY DEF HandInv
<1> QED BY <1>1, <1>2, InitHolds, PTL DEF TasksSpec

(***************************************************************************)
(* A committed task that nobody has in hand is done, has left an error, or *)
(* is on record as lost with its message, for any number of retries,       *)
(* redeliveries and deaths (core/tasks.py, integrations/tasks.py).         *)
(***************************************************************************)
THEOREM NoneForgotten == TasksSpec => []NothingForgotten
<1>1. HandInv /\ [TasksNext]_tvars => HandInv'
  BY NextKeeps
<1>2. HandInv => NothingForgotten
  BY DEF HandInv
<1> QED BY <1>1, <1>2, InitHolds, PTL DEF TasksSpec

\* Only MailStart begins to send, and it looks at email_sent_at.
LEMMA SendingBegins ==
  ASSUME HandTypes, [TasksNext]_tvars, NEW n \in sentAt, NEW v \in Workers, Sending(v, n)'
  PROVE  Sending(v, n)
<1>1. worker'[v].step = "send" /\ worker'[v].msg.task = n
  BY DEF Sending, At, TaskOf
<1>2. CASE worker'[v] = worker[v]
  BY <1>1, <1>2 DEF Sending, At, TaskOf
<1>3. CASE worker'[v] # worker[v]
  <2>1. ASSUME NEW w \in Workers, NEW s \in {"sent", "error", "retry", "done", "create", "archived"},
               ~At(w, "idle"), Goto(w, s)
        PROVE  FALSE
    <3>1. worker[w] \in Busy
      BY <2>1, BusyWorker
    <3>2. worker'[w].step = s /\ \A y \in Workers \ {w} : worker'[y] = worker[y]
      BY <2>1, <3>1 DEF Goto, HandTypes, Busy
    <3> QED BY <1>1, <1>3, <2>1, <3>2
  <2>2. ASSUME NEW w \in Workers, NEW x, worker' = [worker EXCEPT ![w] = x], x.step # "send" PROVE FALSE
    BY <1>1, <1>3, <2>2 DEF HandTypes
  <2>3. ASSUME NEW w \in Workers, MailStart(w) PROVE FALSE
    <3>1. CASE ToSend(TaskOf(w))
      <4>1. worker[w] \in Busy /\ TaskOf(w) \notin sentAt
        BY <2>3, <3>1, BusyWorker DEF MailStart, At, ToSend
      <4>2. worker'[w].msg.task = TaskOf(w) /\ \A y \in Workers \ {w} : worker'[y] = worker[y]
        BY <2>3, <4>1 DEF MailStart, Goto, HandTypes, Busy, TaskOf
      <4> QED BY <1>1, <1>3, <4>1, <4>2
    <3>2. CASE ~ToSend(TaskOf(w))
      <4>1. Goto(w, "done") /\ ~At(w, "idle")
        BY <2>3, <3>2 DEF MailStart, At
      <4> QED BY <2>1, <4>1
    <3> QED BY <3>1, <3>2
  <2>4. ASSUME NEW w \in Workers, Send(w) \/ SaveSent(w) \/ SaveError(w) \/ Retry(w) \/ SaveHandle(w) \/ AddBitstream(w)
        PROVE  FALSE
    <3>1. ~At(w, "idle") /\ \E s \in {"sent", "error", "retry", "done", "archived"} : Goto(w, s)
      BY <2>4 DEF Send, SaveSent, SaveError, Retry, SaveHandle, AddBitstream, At
    <3> QED BY <2>1, <3>1
  <2>5. ASSUME NEW w \in Workers, Done(w) \/ HostDies(w) \/ ProcessDies(w) PROVE FALSE
    <3>1. worker' = [worker EXCEPT ![w] = Idle] /\ Idle.step # "send"
      BY <2>5 DEF Done, HostDies, ProcessDies, Acknowledge, Idle
    <3> QED BY <2>2, <3>1
  <2>6. ASSUME NEW w \in Workers, NEW m \in queue, Deliver(w, m) PROVE FALSE
    <3> DEFINE x == [step |-> "start", msg |-> m, item |-> NoItem]
    <3>1. worker' = [worker EXCEPT ![w] = x]
      BY <2>6 DEF Deliver
    <3>2. x.step # "send"
      OBVIOUS
    <3> HIDE DEF x
    <3> QED BY <2>2, <3>1, <3>2
  <2>7. ASSUME NEW w \in Workers, ArchiveStart(w) \/ CreateItem(w) PROVE FALSE
    <3>1. worker[w] \in Busy /\ ~At(w, "idle")
      BY <2>7, BusyWorker DEF ArchiveStart, CreateItem, At
    <3>2. CASE Goto(w, "done") \/ Goto(w, "create")
      BY <2>1, <3>1, <3>2
    <3>3. CASE \E s \in {"add", "error"} : \E i : worker' = [worker EXCEPT ![w].step = s, ![w].item = i]
      <4>0. PICK s \in {"add", "error"} : \E i : worker' = [worker EXCEPT ![w].step = s, ![w].item = i]
        BY <3>3
      <4>1. PICK i : worker' = [worker EXCEPT ![w].step = s, ![w].item = i]
        BY <4>0
      <4>2. worker'[w].step = s /\ \A y \in Workers \ {w} : worker'[y] = worker[y]
        BY <3>1, <4>1 DEF HandTypes, Busy
      <4> QED BY <1>1, <1>3, <4>2
    <3>4. Goto(w, "done") \/ Goto(w, "create") \/ \E s \in {"add", "error"} : \E i : worker' = [worker EXCEPT ![w].step = s, ![w].item = i]
      <4>1. CASE ArchiveStart(w)
        BY <4>1 DEF ArchiveStart
      <4>2. CASE CreateItem(w)
        <5>1. PICK created \in BOOLEAN, ok \in BOOLEAN :
                worker' = [worker EXCEPT ![w].step = IF ok THEN "add" ELSE "error",
                                         ![w].item = IF ok THEN Len(items) + 1 ELSE NoItem]
          BY <4>2 DEF CreateItem
        <5>2. CASE ok
          BY <5>1, <5>2
        <5>3. CASE ~ok
          BY <5>1, <5>3
        <5> QED BY <5>2, <5>3
      <4> QED BY <2>7, <4>1, <4>2
    <3> QED BY <3>2, <3>3, <3>4
  <2> QED BY <1>3, <2>3, <2>4, <2>5, <2>6, <2>7
         DEF TasksNext, WebStep, Save, Commit, Rollback, NeverQueued, OnCommit, WorkerStep, MailStep, ArchiveStep,
             Interruption, Redeliver, tvars
<1> QED BY <1>2, <1>3

(***************************************************************************)
(* Nobody sets out to send an email that is on record as sent              *)
(* (send_notification_email looks at email_sent_at), however often its     *)
(* message comes back.                                                     *)
(***************************************************************************)
THEOREM SentOnRecord == TasksSpec => NoResend
<1>1. HandInv /\ [TasksNext]_tvars => HandInv'
  BY NextKeeps
<1>2. HandInv /\ [TasksNext]_tvars => [\A n \in sentAt, w \in Workers : Sending(w, n)' => Sending(w, n)]_tvars
  <2> SUFFICES ASSUME HandTypes, [TasksNext]_tvars, NEW n \in sentAt, NEW w \in Workers, Sending(w, n)'
               PROVE  Sending(w, n)
    BY DEF HandInv
  <2> QED BY SendingBegins
<1> QED BY <1>1, <1>2, InitHolds, PTL DEF TasksSpec, NoResend

-----------------------------------------------------------------------------
(***************************************************************************)
(* The archive: what a handle names.  A worker that has an item in hand    *)
(* takes it for its document's application, and once the file is in it     *)
(* stays there; nothing is ever taken out of DSpace.                       *)
(***************************************************************************)
Fits(i, d) == i \in DOMAIN items /\ items[i].application = ApplicationOf[d]
Holds(i, d) == Fits(i, d) /\ d \in items[i].files

ItemsInHand ==
  \A w \in Workers :
    /\ At(w, "add") => Fits(worker[w].item, TaskOf(w))
    /\ At(w, "archived") => Holds(worker[w].item, TaskOf(w))

HandlesHold == \A d \in Documents : handle[d] # NoItem => Holds(handle[d], d)

ArchiveInv == HandlesHold /\ ItemsInHand

\* No item goes, changes its application or loses a file.
Grown ==
  \A i \in DOMAIN items :
    /\ i \in DOMAIN items'
    /\ items'[i].application = items[i].application
    /\ items[i].files \subseteq items'[i].files

LEMMA ItemsGrow == ASSUME HandTypes, [TasksNext]_tvars PROVE Grown
<1>1. CASE items' = items
  BY <1>1 DEF Grown
<1>2. ASSUME NEW w \in Workers, CreateItem(w) PROVE Grown
  <2>1. CASE items' = items
    BY <2>1 DEF Grown
  <2>2. CASE items' = Append(items, [application |-> ApplicationOf[TaskOf(w)], files |-> {}])
    <3>1. /\ DOMAIN items' = 1 .. Len(items) + 1 /\ DOMAIN items = 1 .. Len(items) /\ Len(items) \in Nat
          /\ \A i \in 1 .. Len(items) : items'[i] = items[i]
      BY <2>2 DEF HandTypes
    <3> QED BY <3>1 DEF Grown
  <2> QED BY <1>2, <2>1, <2>2 DEF CreateItem
<1>3. ASSUME NEW w \in Workers, AddBitstream(w) PROVE Grown
  <2>1. CASE items' = items
    BY <2>1 DEF Grown
  <2>2. CASE items' = [items EXCEPT ![worker[w].item].files = @ \cup {TaskOf(w)}]
    <3>1. DOMAIN items' = DOMAIN items
      BY <2>2
    <3>2. ASSUME NEW i \in DOMAIN items
          PROVE  items'[i].application = items[i].application /\ items[i].files \subseteq items'[i].files
      <4>1. items[i] \in Item
        BY DEF HandTypes
      <4>2. CASE i = worker[w].item
        <5>1. items'[i] = [items[i] EXCEPT !.files = items[i].files \cup {TaskOf(w)}]
          BY <2>2, <4>2
        <5> QED BY <4>1, <5>1 DEF Item
      <4>3. CASE i # worker[w].item
        BY <2>2, <4>3
      <4> QED BY <4>2, <4>3
    <3> QED BY <3>1, <3>2 DEF Grown
  <2> QED BY <1>3, <2>1, <2>2 DEF AddBitstream
<1>4. ASSUME NEW w \in Workers, WorkerStep(w) PROVE Grown
  BY <1>1, <1>2, <1>3, <1>4
     DEF WorkerStep, MailStep, ArchiveStep, MailStart, Send, SaveSent, ArchiveStart, SaveHandle, SaveError, Retry, Done, outside
<1>5. ASSUME NEW w \in Workers, Interruption(w) \/ \E m \in queue : Deliver(w, m) PROVE Grown
  BY <1>1, <1>5 DEF Interruption, Redeliver, HostDies, ProcessDies, Deliver, outside
<1>6. ASSUME NEW t \in Tasks, WebStep(t) \/ OnCommit(t) PROVE Grown
  BY <1>1, <1>6 DEF WebStep, Save, Commit, Rollback, NeverQueued, OnCommit, outside
<1> QED BY <1>1, <1>4, <1>5, <1>6 DEF TasksNext, tvars

LEMMA HoldsStays ==
  ASSUME Grown, NEW i, NEW d
  PROVE  (Fits(i, d) => Fits(i, d)') /\ (Holds(i, d) => Holds(i, d)')
BY DEF Grown, Fits, Holds

\* One worker goes on to x, and the handles that change name an item that holds the document.
LEMMA WorkerArchives ==
  ASSUME HandTypes, ArchiveInv, Grown, NEW w \in Workers, NEW x, worker' = [worker EXCEPT ![w] = x],
         x.step = "add" => Fits(x.item, x.msg.task)',
         x.step = "archived" => Holds(x.item, x.msg.task)',
         \A d \in Documents : handle'[d] = handle[d] \/ \E i \in Places : handle'[d] = i /\ Holds(i, d)'
  PROVE  ArchiveInv'
<1>1. HandlesHold'
  <2> SUFFICES ASSUME NEW d \in Documents, handle'[d] # NoItem PROVE Holds(handle[d], d)'
    BY DEF HandlesHold
  <2>1. CASE handle'[d] = handle[d]
    <3>1. PICK i : i = handle[d]
      OBVIOUS
    <3>2. Holds(i, d)
      BY <2>1, <3>1 DEF ArchiveInv, HandlesHold
    <3>3. Holds(i, d)'
      BY <3>2, HoldsStays
    <3> QED BY <2>1, <3>1, <3>3 DEF Holds, Fits
  <2>2. CASE \E i \in Places : handle'[d] = i /\ Holds(i, d)'
    BY <2>2 DEF Holds, Fits
  <2> QED BY <2>1, <2>2
<1>2. ItemsInHand'
  <2> SUFFICES ASSUME NEW v \in Workers
               PROVE  /\ worker'[v].step = "add" => Fits(worker[v].item, TaskOf(v))'
                      /\ worker'[v].step = "archived" => Holds(worker[v].item, TaskOf(v))'
    BY DEF ItemsInHand, At
  <2>1. PICK i, t : i = worker'[v].item /\ t = worker'[v].msg.task
    OBVIOUS
  <2>2. (worker'[v].step = "add" => Fits(i, t)') /\ (worker'[v].step = "archived" => Holds(i, t)')
    <3>1. CASE v = w
      <4>1. worker'[v] = x
        BY <3>1 DEF HandTypes
      <4> QED BY <2>1, <4>1
    <3>2. CASE v # w
      <4>1. worker'[v] = worker[v]
        BY <3>2 DEF HandTypes
      <4>2. (worker[v].step = "add" => Fits(i, t)) /\ (worker[v].step = "archived" => Holds(i, t))
        BY <2>1, <4>1 DEF ArchiveInv, ItemsInHand, At, TaskOf
      <4> QED BY <4>1, <4>2, HoldsStays
    <3> QED BY <3>1, <3>2
  <2> QED BY <2>1, <2>2 DEF Fits, Holds, TaskOf
<1> QED BY <1>1, <1>2 DEF ArchiveInv

\* Neither a worker nor a handle changes.
LEMMA OthersArchive ==
  ASSUME ArchiveInv, Grown, UNCHANGED <<worker, handle>>
  PROVE  ArchiveInv'
<1>1. HandlesHold'
  <2> SUFFICES ASSUME NEW d \in Documents, handle[d] # NoItem PROVE Holds(handle[d], d)'
    BY DEF HandlesHold
  <2>1. PICK i : i = handle[d]
    OBVIOUS
  <2>2. Holds(i, d)'
    BY <2>1, HoldsStays DEF ArchiveInv, HandlesHold
  <2> QED BY <2>1, <2>2 DEF Holds, Fits
<1>2. ItemsInHand'
  <2> SUFFICES ASSUME NEW v \in Workers
               PROVE  /\ worker[v].step = "add" => Fits(worker[v].item, TaskOf(v))'
                      /\ worker[v].step = "archived" => Holds(worker[v].item, TaskOf(v))'
    BY DEF ItemsInHand, At
  <2>1. PICK i, t : i = worker[v].item /\ t = worker[v].msg.task
    OBVIOUS
  <2>2. (worker[v].step = "add" => Fits(i, t)) /\ (worker[v].step = "archived" => Holds(i, t))
    BY <2>1 DEF ArchiveInv, ItemsInHand, At, TaskOf
  <2> QED BY <2>1, <2>2, HoldsStays DEF Fits, Holds, TaskOf
<1> QED BY <1>1, <1>2 DEF ArchiveInv

\* Most steps of a worker lead where no item is in hand, and leave the handles alone.
LEMMA EmptyHand ==
  ASSUME HandTypes, ArchiveInv, Grown, NEW w \in Workers, handle' = handle,
         \/ Acknowledge(w)
         \/ ~At(w, "idle") /\ \E s \in Steps \ {"add", "archived"} : Goto(w, s)
  PROVE  ArchiveInv'
<1>1. PICK x : worker' = [worker EXCEPT ![w] = x] /\ x.step \notin {"add", "archived"}
  <2>1. CASE Acknowledge(w)
    <3>1. worker' = [worker EXCEPT ![w] = Idle]
      BY <2>1 DEF Acknowledge
    <3>2. Idle.step \notin {"add", "archived"}
      BY DEF Idle
    <3> QED BY <3>1, <3>2
  <2>2. ASSUME NEW s \in Steps \ {"add", "archived"}, Goto(w, s), ~At(w, "idle")
        PROVE  \E x : worker' = [worker EXCEPT ![w] = x] /\ x.step \notin {"add", "archived"}
    <3>1. worker[w] \in Busy
      BY <2>2, BusyWorker
    <3>2. worker' = [worker EXCEPT ![w] = [worker[w] EXCEPT !.step = s]] /\ [worker[w] EXCEPT !.step = s].step = s
      BY <2>2, <3>1 DEF Goto, Busy
    <3> QED BY <3>2
  <2> QED BY <2>1, <2>2
<1> QED BY <1>1, WorkerArchives

LEMMA ArchiveStepKeeps ==
  ASSUME HandInv, ArchiveInv, Grown, NEW w \in Workers, ArchiveStep(w)
  PROVE  ArchiveInv'
<1>1. worker[w] \in Busy /\ ~At(w, "idle") /\ HandTypes
  BY BusyWorker DEF ArchiveStep, ArchiveStart, CreateItem, AddBitstream, SaveHandle, At, HandInv
<1>2. PICK t \in Tasks : t = worker[w].msg.task
  BY <1>1 DEF Busy, Messages
<1>3. TaskOf(w) = t /\ worker[w] # Idle
  BY <1>1, <1>2 DEF TaskOf, At, Idle
<1>4. CASE ArchiveStart(w)
  <2>1. handle' = handle /\ t \in Documents
    BY <1>3, <1>4 DEF ArchiveStart, fields
  <2>2. CASE \E s \in {"done", "create"} : Goto(w, s)
    BY <1>1, <2>1, <2>2, EmptyHand DEF Steps
  <2>3. CASE \E h \in OtherHandles(t) : worker' = [worker EXCEPT ![w].step = "add", ![w].item = h]
    <3>1. PICK h \in OtherHandles(t) : worker' = [worker EXCEPT ![w].step = "add", ![w].item = h]
      BY <2>3
    <3>2. PICK x : x = [worker[w] EXCEPT !.step = "add", !.item = h]
      OBVIOUS
    <3>3. worker' = [worker EXCEPT ![w] = x] /\ x.step = "add" /\ x.item = h /\ x.msg.task = t
      BY <1>1, <1>2, <3>1, <3>2 DEF HandTypes, Busy
    <3>4. PICK e \in Documents : h = handle[e] /\ h # NoItem /\ ApplicationOf[e] = ApplicationOf[t]
      BY <3>1 DEF OtherHandles
    <3>5. Fits(h, t)
      BY <3>4 DEF ArchiveInv, HandlesHold, Holds, Fits
    <3>6. Fits(h, t)'
      BY <3>5, HoldsStays
    <3>7. Fits(x.item, x.msg.task)'
      BY <3>3, <3>6 DEF Fits
    <3> QED BY <1>1, <2>1, <3>3, <3>7, WorkerArchives
  <2> QED BY <1>3, <1>4, <2>2, <2>3 DEF ArchiveStart
<1>5. CASE CreateItem(w)
  <2>1. handle' = handle /\ t \in Documents
    BY <1>3, <1>5 DEF CreateItem, fields, HandInv, Settled, TasksOf, At
  <2>2. PICK created \in BOOLEAN, ok \in BOOLEAN :
          /\ ok => created
          /\ created => items' = Append(items, [application |-> ApplicationOf[t], files |-> {}])
          /\ worker' = [worker EXCEPT ![w].step = IF ok THEN "add" ELSE "error",
                                      ![w].item = IF ok THEN Len(items) + 1 ELSE NoItem]
    BY <1>3, <1>5 DEF CreateItem
  <2>3. PICK s, i : s = (IF ok THEN "add" ELSE "error") /\ i = IF ok THEN Len(items) + 1 ELSE NoItem
    OBVIOUS
  <2>4. PICK x : x = [worker[w] EXCEPT !.step = s, !.item = i]
    OBVIOUS
  <2>5. worker' = [worker EXCEPT ![w] = x] /\ x.step = s /\ x.item = i /\ x.msg.task = t
    BY <1>1, <1>2, <2>2, <2>3, <2>4 DEF HandTypes, Busy
  <2>6. s = "add" => Fits(i, t)'
    <3> SUFFICES ASSUME ok PROVE Fits(i, t)'
      BY <2>3
    <3>1. items \in Seq(Item) /\ i = Len(items) + 1
      BY <1>1, <2>3 DEF HandTypes
    <3>2. items' = Append(items, [application |-> ApplicationOf[t], files |-> {}])
      BY <2>2
    <3>3. i \in DOMAIN items' /\ items'[i] = [application |-> ApplicationOf[t], files |-> {}]
      BY <3>1, <3>2
    <3> QED BY <3>3 DEF Fits
  <2>7. x.step = "add" => Fits(x.item, x.msg.task)'
    BY <2>5, <2>6 DEF Fits
  <2>8. x.step # "archived"
    BY <2>3, <2>5
  <2> QED BY <1>1, <2>1, <2>5, <2>7, <2>8, WorkerArchives
<1>6. CASE AddBitstream(w)
  <2>1. handle' = handle /\ worker[w].step = "add"
    BY <1>6 DEF AddBitstream, fields, At
  <2>2. PICK added \in BOOLEAN, ok \in BOOLEAN :
          /\ ok => added
          /\ added => items' = [items EXCEPT ![worker[w].item].files = @ \cup {t}]
          /\ Goto(w, IF ok THEN "archived" ELSE "error")
    BY <1>3, <1>6 DEF AddBitstream
  <2>3. CASE ~ok
    BY <1>1, <2>1, <2>2, <2>3, EmptyHand DEF Steps
  <2>4. CASE ok
    <3>1. PICK i : i = worker[w].item
      OBVIOUS
    <3>2. Fits(i, t)
      BY <1>3, <2>1, <3>1 DEF ArchiveInv, ItemsInHand, At
    <3>3. Fits(i, t)'
      BY <3>2, HoldsStays
    <3>4. t \in items'[i].files
      <4>1. items' = [items EXCEPT ![i].files = @ \cup {t}]
        BY <2>2, <2>4, <3>1
      <4>2. i \in DOMAIN items /\ items[i] \in Item
        BY <1>1, <3>2 DEF Fits, HandTypes
      <4>3. items'[i] = [items[i] EXCEPT !.files = items[i].files \cup {t}]
        BY <4>1, <4>2
      <4> QED BY <4>2, <4>3 DEF Item
    <3>5. Holds(i, t)'
      BY <3>3, <3>4 DEF Holds
    <3>6. PICK x : x = [worker[w] EXCEPT !.step = "archived"]
      OBVIOUS
    <3>7. worker' = [worker EXCEPT ![w] = x] /\ x.step = "archived" /\ x.item = i /\ x.msg.task = t
      BY <1>1, <1>2, <2>2, <2>4, <3>1, <3>6 DEF Goto, Busy
    <3>8. Holds(x.item, x.msg.task)'
      BY <3>5, <3>7 DEF Holds, Fits
    <3> QED BY <1>1, <2>1, <3>7, <3>8, WorkerArchives
  <2> QED BY <2>3, <2>4
<1>7. CASE SaveHandle(w)
  <2>1. PICK i \in Places : i = worker[w].item
    BY <1>1 DEF Busy
  <2>2. Holds(i, t)
    BY <1>3, <1>7, <2>1 DEF SaveHandle, ArchiveInv, ItemsInHand
  <2>3. Holds(i, t)'
    BY <2>2, HoldsStays
  <2>4. \A d \in Documents : handle'[d] = handle[d] \/ (d = t /\ handle'[d] = i)
    BY <1>1, <1>3, <1>7, <2>1 DEF SaveHandle, HandTypes
  <2>5. PICK x : x = [worker[w] EXCEPT !.step = "done"]
    OBVIOUS
  <2>6. worker' = [worker EXCEPT ![w] = x] /\ x.step = "done"
    BY <1>1, <1>7, <2>5 DEF SaveHandle, Goto, Busy
  <2>7. \A d \in Documents : handle'[d] = handle[d] \/ \E j \in Places : handle'[d] = j /\ Holds(j, d)'
    BY <2>3, <2>4
  <2> QED BY <1>1, <2>6, <2>7, WorkerArchives
<1> QED BY <1>4, <1>5, <1>6, <1>7 DEF ArchiveStep

LEMMA ArchiveNext == ASSUME HandInv, ArchiveInv, [TasksNext]_tvars PROVE ArchiveInv'
<1>1. Grown /\ HandTypes
  BY ItemsGrow DEF HandInv
<1>2. ASSUME NEW w \in Workers, MailStep(w) \/ SaveError(w) \/ Retry(w) PROVE ArchiveInv'
  <2>1. handle' = handle /\ ~At(w, "idle")
    BY <1>2 DEF MailStep, MailStart, Send, SaveSent, SaveError, Retry, fields, At
  <2>2. \E s \in Steps \ {"add", "archived"} : Goto(w, s)
    BY <1>2 DEF MailStep, MailStart, Send, SaveSent, SaveError, Retry, Steps
  <2> QED BY <1>1, <2>1, <2>2, EmptyHand
<1>3. ASSUME NEW w \in Workers, Done(w) \/ HostDies(w) \/ ProcessDies(w) PROVE ArchiveInv'
  BY <1>1, <1>3, EmptyHand DEF Done, HostDies, ProcessDies, fields
<1>4. ASSUME NEW w \in Workers, NEW m \in queue, Deliver(w, m) PROVE ArchiveInv'
  <2>1. PICK x : x = [step |-> "start", msg |-> m, item |-> NoItem]
    OBVIOUS
  <2>2. worker' = [worker EXCEPT ![w] = x] /\ x.step = "start" /\ handle' = handle
    BY <1>4, <2>1 DEF Deliver, fields
  <2> QED BY <1>1, <2>2, WorkerArchives
<1>5. ASSUME NEW t \in Tasks, WebStep(t) \/ OnCommit(t) PROVE ArchiveInv'
  BY <1>1, <1>5, OthersArchive DEF WebStep, Save, Commit, Rollback, NeverQueued, OnCommit, fields
<1>6. ASSUME NEW w \in Workers, Redeliver(w) PROVE ArchiveInv'
  BY <1>1, <1>6, OthersArchive DEF Redeliver, fields
<1>7. CASE UNCHANGED tvars
  BY <1>1, <1>7, OthersArchive DEF tvars
<1> QED BY <1>1, <1>2, <1>3, <1>4, <1>5, <1>6, <1>7, ArchiveStepKeeps DEF TasksNext, WorkerStep, Interruption

(***************************************************************************)
(* A document's handle names an item of its own application that holds it, *)
(* however many documents are archived side by side and whatever is        *)
(* retried (dspace.push_document, which reuses the handle of a sibling).   *)
(***************************************************************************)
THEOREM ArchivedAreThere == TasksSpec => []ArchivedIsThere
<1>1. HandInv /\ ArchiveInv /\ [TasksNext]_tvars => HandInv' /\ ArchiveInv'
  BY NextKeeps, ArchiveNext
<1>2. TasksInit => ArchiveInv
  BY DEF TasksInit, ArchiveInv, HandlesHold, ItemsInHand, At, Idle
<1>3. ArchiveInv => ArchivedIsThere
  BY DEF ArchiveInv, HandlesHold, Holds, Fits, ArchivedIsThere
<1> QED BY <1>1, <1>2, <1>3, InitHolds, PTL DEF TasksSpec

---------------------------------------------------------------------------
\* A set of numbers has a smallest one.
LEMMA Least ==
  ASSUME NEW S, S \subseteq Nat, S # {}
  PROVE  \E x \in S : \A y \in S : x <= y
<1> DEFINE Less == OpToRel(<, Nat)
<1>1. IsWellFoundedOn(Less, Nat)
  BY NatLessThanWellFounded
<1>2. \A x, y \in Nat : y < x => <<y, x>> \in Less
  BY DEF OpToRel
<1> HIDE DEF Less
<1>3. PICK x \in S : \A y \in S : ~(<<y, x>> \in Less)
  BY <1>1, WFMin
<1>4. ASSUME NEW y \in S PROVE ~(y < x)
  BY <1>2, <1>3
<1>5. \A y \in S : x <= y
  BY <1>4
<1> QED BY <1>3, <1>5

\* A bounded set of numbers has a greatest one.
LEMMA Greatest ==
  ASSUME NEW N \in Nat, NEW S, S \subseteq 0 .. N, S # {}
  PROVE  \E x \in S : \A y \in S : y <= x
<1> DEFINE T == {N - y : y \in S}
<1>1. T \subseteq Nat /\ T # {}
  <2>1. ASSUME NEW y \in S PROVE N - y \in Nat
    BY y \in 0 .. N
  <2> QED BY <2>1
<1>2. PICK t \in T : \A u \in T : t <= u
  <2> HIDE DEF T
  <2> QED BY <1>1, Least
<1>3. PICK x \in S : t = N - x
  OBVIOUS
<1>4. ASSUME NEW y \in S PROVE y <= x
  <2>1. N - y \in T
    OBVIOUS
  <2>2. N - x <= N - y
    BY <1>2, <1>3, <2>1
  <2> QED BY <2>2
<1> QED BY <1>4

\* In a set whose members have ranks there is one of the least rank.
LEMMA LeastRank ==
  ASSUME NEW S, S # {}, NEW rank, \A m \in S : rank[m] \in Nat
  PROVE  \E x \in S : \A y \in S : rank[x] <= rank[y]
<1> DEFINE R == {rank[m] : m \in S}
<1>1. R \subseteq Nat /\ R # {}
  OBVIOUS
<1>2. PICK r \in R : \A q \in R : r <= q
  <2> HIDE DEF R
  <2> QED BY <1>1, Least
<1>3. PICK x \in S : r = rank[x]
  OBVIOUS
<1> QED BY <1>2, <1>3

\* A walk through S takes the step next until it stops; every step lowers the rank.
Descends(S, Stop, next, rank) ==
  /\ \A m \in S : rank[m] \in Nat /\ rank[m] <= 99
  /\ \A m \in S \ Stop : next[m] \in S /\ rank[next[m]] < rank[m]

IsWalk(f, S, Stop, next) == f = [m \in S |-> IF m \in Stop THEN m ELSE f[next[m]]]

\* A walk whose steps go down in rank is defined: there is a function that meets its equation.
LEMMA WalkDefined ==
  ASSUME NEW S, NEW Stop, NEW next, NEW rank, Descends(S, Stop, next, rank)
  PROVE  \E f : IsWalk(f, S, Stop, next)
<1> DEFINE Low(n) == {m \in S : rank[m] < n}
           Walks(n, f) == f = [m \in Low(n) |-> IF m \in Stop THEN m ELSE f[next[m]]]
           Bad == {n \in Nat : ~ \E f : Walks(n, f)}
<1>0. \A m \in S : rank[m] \in Nat /\ rank[m] <= 99
  BY DEF Descends
<1>9. \A m \in S \ Stop : next[m] \in S /\ rank[next[m]] < rank[m]
  BY DEF Descends
<1>1. \E f : Walks(0, f)
  <2> DEFINE e == [m \in {} |-> m]
  <2>1. Low(0) = {}
    BY <1>0
  <2>2. e = [m \in Low(0) |-> IF m \in Stop THEN m ELSE e[next[m]]]
    BY <2>1
  <2>3. Walks(0, e)
    BY <2>2
  <2> HIDE DEF e, Walks
  <2> QED BY <2>3
<1>2. ASSUME NEW n \in Nat, NEW f, Walks(n, f)
      PROVE  \E g : Walks(n + 1, g)
  <2> DEFINE g == [m \in Low(n + 1) |-> IF m \in Stop THEN m ELSE f[next[m]]]
  <2>1. ASSUME NEW m \in Low(n) PROVE m \in Low(n + 1) /\ g[m] = f[m]
    <3>1. m \in Low(n + 1)
      BY <1>0, <2>1
    <3>2. f[m] = IF m \in Stop THEN m ELSE f[next[m]]
      BY <1>2, <2>1
    <3>3. g[m] = IF m \in Stop THEN m ELSE f[next[m]]
      BY <3>1
    <3> QED BY <3>1, <3>2, <3>3
  <2>2. ASSUME NEW m \in Low(n + 1), m \notin Stop PROVE f[next[m]] = g[next[m]]
    <3>1. next[m] \in Low(n)
      BY <1>0, <1>9, <2>2
    <3> QED BY <2>1, <3>1
  <2>3. g = [m \in Low(n + 1) |-> IF m \in Stop THEN m ELSE g[next[m]]]
    BY <2>2
  <2>4. Walks(n + 1, g)
    BY <2>3
  <2> HIDE DEF g, Walks
  <2> QED BY <2>4
<1>3. Bad = {}
  <2> SUFFICES ASSUME Bad # {} PROVE FALSE
    OBVIOUS
  <2>1. Bad \subseteq Nat
    OBVIOUS
  <2>2. PICK n \in Bad : \A k \in Bad : n <= k
    <3> HIDE DEF Bad
    <3> QED BY <2>1, Least
  <2>3. n \in Nat /\ ~ \E f : Walks(n, f)
    BY <2>1
  <2> HIDE DEF Walks
  <2>4. n # 0
    BY <1>1, <2>3
  <2>7. n - 1 \in Nat /\ (n - 1) + 1 = n /\ ~(n <= n - 1)
    BY <2>3, <2>4
  <2>8. n - 1 \notin Bad
    <3> HIDE DEF Bad
    <3> QED BY <2>2, <2>7
  <2>5. PICK f : Walks(n - 1, f)
    BY <2>7, <2>8
  <2>6. \E g : Walks((n - 1) + 1, g)
    BY <1>2, <2>5, <2>7
  <2> QED BY <2>3, <2>6, <2>7
<1>4. Low(100) = S
  BY <1>0
<1>5. PICK f : Walks(100, f)
  BY <1>3
<1> QED BY <1>4, <1>5 DEF IsWalk

\* A walk ends where it stops, and in every set that its steps do not leave.
LEMMA WalkEnds ==
  ASSUME NEW S, NEW Stop, NEW next, NEW rank, Descends(S, Stop, next, rank),
         NEW f, IsWalk(f, S, Stop, next),
         NEW C, C \subseteq S, \A m \in C \ Stop : next[m] \in C
  PROVE  \A m \in C : f[m] \in C /\ f[m] \in Stop
<1>0. \A m \in S : rank[m] \in Nat
  BY DEF Descends
<1>8. \A m \in S \ Stop : next[m] \in S /\ rank[next[m]] < rank[m]
  BY DEF Descends
<1>9. \A m \in S : f[m] = IF m \in Stop THEN m ELSE f[next[m]]
  BY DEF IsWalk
<1> DEFINE Bad == {m \in C : ~(f[m] \in C /\ f[m] \in Stop)}
<1> SUFFICES ASSUME Bad # {} PROVE FALSE
  OBVIOUS
<1>1. \A m \in Bad : rank[m] \in Nat
  BY <1>0
<1>2. PICK m \in Bad : \A k \in Bad : rank[m] <= rank[k]
  <2> HIDE DEF Bad
  <2> QED BY <1>1, LeastRank
<1>3. m \in S /\ m \in C
  OBVIOUS
<1>4. m \notin Stop
  <2>1. m \in Stop => f[m] = m
    BY <1>3, <1>9
  <2> QED BY <2>1
<1>5. f[m] = f[next[m]]
  BY <1>3, <1>4, <1>9
<1>6. next[m] \in C /\ rank[next[m]] < rank[m] /\ next[m] \notin Bad
  <2>1. next[m] \in C /\ rank[next[m]] < rank[m] /\ rank[m] \in Nat /\ rank[next[m]] \in Nat
    BY <1>0, <1>8, <1>3, <1>4
  <2>2. \A k \in Bad : rank[m] <= rank[k]
    BY <1>2
  <2> HIDE DEF Bad
  <2>3. next[m] \notin Bad
    BY <2>1, <2>2
  <2> QED BY <2>1, <2>3
<1>7. next[m] \in Bad
  BY <1>5, <1>6
<1> QED BY <1>6, <1>7

---------------------------------------------------------------------------
\* Every app has one to nine migrations, numbered from 1.
LEMMA HistoryLengths ==
  /\ DOMAIN Apps = 1 .. 14
  /\ \A i \in 1 .. 14 : /\ Len(History[Apps[i]]) \in 1 .. 9
                        /\ DOMAIN History[Apps[i]] = 1 .. Len(History[Apps[i]])
<1>1. DOMAIN Apps = 1 .. 14
  BY DEF Apps
<1>2. ASSUME NEW i \in 1 .. 14
      PROVE  /\ Len(History[Apps[i]]) \in 1 .. 9
             /\ DOMAIN History[Apps[i]] = 1 .. Len(History[Apps[i]])
  <2>1. CASE i = 1
    <3>1. Apps[i] = "accounts"
      BY <2>1 DEF Apps
    <3> QED BY <3>1 DEF History
  <2>2. CASE i = 2
    <3>1. Apps[i] = "catalog"
      BY <2>2 DEF Apps
    <3> QED BY <3>1 DEF History
  <2>3. CASE i = 3
    <3>1. Apps[i] = "console"
      BY <2>3 DEF Apps
    <3> QED BY <3>1 DEF History
  <2>4. CASE i = 4
    <3>1. Apps[i] = "core"
      BY <2>4 DEF Apps
    <3> QED BY <3>1 DEF History
  <2>5. CASE i = 5
    <3>1. Apps[i] = "governance"
      BY <2>5 DEF Apps
    <3> QED BY <3>1 DEF History
  <2>6. CASE i = 6
    <3>1. Apps[i] = "integrations"
      BY <2>6 DEF Apps
    <3> QED BY <3>1 DEF History
  <2>7. CASE i = 7
    <3>1. Apps[i] = "lic"
      BY <2>7 DEF Apps
    <3> QED BY <3>1 DEF History
  <2>8. CASE i = 8
    <3>1. Apps[i] = "maps"
      BY <2>8 DEF Apps
    <3> QED BY <3>1 DEF History
  <2>9. CASE i = 9
    <3>1. Apps[i] = "obs"
      BY <2>9 DEF Apps
    <3> QED BY <3>1 DEF History
  <2>10. CASE i = 10
    <3>1. Apps[i] = "opendata"
      BY <2>10 DEF Apps
    <3> QED BY <3>1 DEF History
  <2>11. CASE i = 11
    <3>1. Apps[i] = "ref"
      BY <2>11 DEF Apps
    <3> QED BY <3>1 DEF History
  <2>12. CASE i = 12
    <3>1. Apps[i] = "reports"
      BY <2>12 DEF Apps
    <3> QED BY <3>1 DEF History
  <2>13. CASE i = 13
    <3>1. Apps[i] = "submissions"
      BY <2>13 DEF Apps
    <3> QED BY <3>1 DEF History
  <2>14. CASE i = 14
    <3>1. Apps[i] = "workflow"
      BY <2>14 DEF Apps
    <3> QED BY <3>1 DEF History
  <2> QED BY <2>1, <2>2, <2>3, <2>4, <2>5, <2>6, <2>7, <2>8, <2>9, <2>10, <2>11, <2>12, <2>13, <2>14
<1> QED BY <1>1, <1>2

LEMMA NamedIs ==
  ASSUME NEW m
  PROVE  m \in Named <=> \E i \in 1 .. 14 : \E n \in 1 .. Len(History[Apps[i]]) : m = <<Apps[i], n>>
<1> DEFINE OfApp(i) == {<<Apps[i], n>> : n \in DOMAIN History[Apps[i]]}
<1>1. m \in Named <=> \E i \in DOMAIN Apps : m \in OfApp(i)
  BY DEF Named
<1>2. ASSUME NEW i \in 1 .. 14
      PROVE  m \in OfApp(i) <=> \E n \in 1 .. Len(History[Apps[i]]) : m = <<Apps[i], n>>
  <2>1. DOMAIN History[Apps[i]] = 1 .. Len(History[Apps[i]])
    BY HistoryLengths
  <2> QED BY <2>1
<1> HIDE DEF OfApp
<1> QED BY <1>1, <1>2, HistoryLengths

\* An app of Apps has an index there.
LEMMA IndexIs ==
  ASSUME NEW m \in Named
  PROVE  AppIndex(m[1]) \in 1 .. 14 /\ Apps[AppIndex(m[1])] = m[1] /\ m[2] \in 1 .. 9
<1>1. PICK i \in 1 .. 14 : \E n \in 1 .. Len(History[Apps[i]]) : m = <<Apps[i], n>>
  BY NamedIs
<1>4. PICK n \in 1 .. Len(History[Apps[i]]) : m = <<Apps[i], n>>
  BY <1>1
<1>5. Len(History[Apps[i]]) \in 1 .. 9
  BY HistoryLengths
<1>2. m[1] = Apps[i] /\ m[2] \in 1 .. 9
  <2>1. m[1] = Apps[i] /\ m[2] = n
    BY <1>4
  <2> DEFINE len == Len(History[Apps[i]])
  <2>2. n \in 1 .. len /\ len \in 1 .. 9
    BY <1>5
  <2> HIDE DEF len
  <2>3. n \in 1 .. 9
    BY <2>2
  <2> QED BY <2>1, <2>3
<1>6. \E k \in DOMAIN Apps : Apps[k] = m[1]
  BY <1>2, HistoryLengths
<1>3. AppIndex(m[1]) \in DOMAIN Apps /\ Apps[AppIndex(m[1])] = m[1]
  BY <1>6 DEF AppIndex
<1> QED BY <1>2, <1>3, HistoryLengths

\* Some migrations have a last one.
LEMMA LastIs ==
  ASSUME NEW S, S \subseteq Named, S # {}
  PROVE  LastOf(S) \in S
<1> DEFINE I == {AppIndex(m[1]) : m \in S}
<1>1. I \subseteq 0 .. 14 /\ I # {}
  BY IndexIs
<1>2. PICK i \in I : \A j \in I : j <= i
  <2> HIDE DEF I
  <2> QED BY <1>1, Greatest
<1> DEFINE N == {m[2] : m \in {l \in S : AppIndex(l[1]) = i}}
<1>3. N \subseteq 0 .. 9 /\ N # {}
  BY <1>2, IndexIs
<1>4. PICK k \in N : \A n \in N : n <= k
  <2> HIDE DEF N
  <2> QED BY <1>3, Greatest
<1>5. PICK m \in S : AppIndex(m[1]) = i /\ m[2] = k
  BY <1>4
<1>6. ASSUME NEW n \in S PROVE Precedes(n, m)
  <2>1. AppIndex(n[1]) \in 1 .. 14 /\ AppIndex(n[1]) <= i /\ i \in 1 .. 14
    BY <1>2, <1>5, IndexIs
  <2>2. CASE AppIndex(n[1]) = i
    <3>1. n[2] <= k
      BY <1>4, <2>2
    <3>2. n[1] = m[1]
      BY <1>5, <2>2, IndexIs
    <3> QED BY <1>5, <3>1, <3>2 DEF Precedes
  <2>3. CASE AppIndex(n[1]) # i
    BY <1>5, <2>1, <2>3 DEF Precedes
  <2> QED BY <2>2, <2>3
<1> QED BY <1>6 DEF LastOf

\* What a migration depends on are migrations, and lower in the graph.
LEMMA AfterIs ==
  ASSUME NEW m \in Named
  PROVE  /\ After(m) \subseteq Named /\ Depth[m] \in Nat /\ Depth[m] <= 99
         /\ \A d \in After(m) : Depth[d] < Depth[m]
BY GraphAssumption

LEMMA BehindDefined == \E f : f = [m \in Named |-> {m} \cup UNION {f[d] : d \in After(m)}]
<1> DEFINE Low(n) == {m \in Named : Depth[m] < n}
           Gathers(n, f) == f = [m \in Low(n) |-> {m} \cup UNION {f[d] : d \in After(m)}]
           Bad == {n \in Nat : ~ \E f : Gathers(n, f)}
<1>1. \E f : Gathers(0, f)
  <2> DEFINE e == [m \in {} |-> m]
  <2>1. Low(0) = {}
    BY AfterIs
  <2>2. e = [m \in Low(0) |-> {m} \cup UNION {e[d] : d \in After(m)}]
    BY <2>1
  <2>3. Gathers(0, e)
    BY <2>2
  <2> HIDE DEF e, Gathers
  <2> QED BY <2>3
<1>2. ASSUME NEW n \in Nat, NEW f, Gathers(n, f)
      PROVE  \E g : Gathers(n + 1, g)
  <2> DEFINE g == [m \in Low(n + 1) |-> {m} \cup UNION {f[d] : d \in After(m)}]
  <2>1. ASSUME NEW m \in Low(n) PROVE m \in Low(n + 1) /\ g[m] = f[m]
    <3>1. m \in Low(n + 1)
      BY <2>1, AfterIs
    <3>2. f[m] = {m} \cup UNION {f[d] : d \in After(m)}
      BY <1>2, <2>1
    <3>3. g[m] = {m} \cup UNION {f[d] : d \in After(m)}
      BY <3>1
    <3> QED BY <3>1, <3>2, <3>3
  <2>2. ASSUME NEW m \in Low(n + 1) PROVE {f[d] : d \in After(m)} = {g[d] : d \in After(m)}
    <3>1. \A d \in After(m) : d \in Low(n)
      BY <2>2, AfterIs
    <3>2. \A d \in After(m) : f[d] = g[d]
      <4> HIDE DEF g, Low
      <4> QED BY <2>1, <3>1
    <3> HIDE DEF g
    <3> QED BY <3>2
  <2>3. g = [m \in Low(n + 1) |-> {m} \cup UNION {g[d] : d \in After(m)}]
    <3>1. ASSUME NEW m \in Low(n + 1)
          PROVE  {m} \cup UNION {f[d] : d \in After(m)} = {m} \cup UNION {g[d] : d \in After(m)}
      <4> HIDE DEF g
      <4> QED BY <2>2
    <3> QED BY <3>1
  <2>4. Gathers(n + 1, g)
    BY <2>3
  <2> HIDE DEF g, Gathers
  <2> QED BY <2>4
<1>3. Bad = {}
  <2> SUFFICES ASSUME Bad # {} PROVE FALSE
    OBVIOUS
  <2>1. Bad \subseteq Nat
    OBVIOUS
  <2>2. PICK n \in Bad : \A k \in Bad : n <= k
    <3> HIDE DEF Bad
    <3> QED BY <2>1, Least
  <2>3. n \in Nat /\ ~ \E f : Gathers(n, f)
    BY <2>1
  <2> HIDE DEF Gathers
  <2>4. n # 0
    BY <1>1, <2>3
  <2>5. n - 1 \in Nat /\ (n - 1) + 1 = n /\ ~(n <= n - 1)
    BY <2>3, <2>4
  <2>6. n - 1 \notin Bad
    <3> HIDE DEF Bad
    <3> QED BY <2>2, <2>5
  <2>7. PICK f : Gathers(n - 1, f)
    BY <2>5, <2>6
  <2>8. \E g : Gathers((n - 1) + 1, g)
    BY <1>2, <2>5, <2>7
  <2> QED BY <2>3, <2>5, <2>8
<1>4. Low(100) = Named
  BY AfterIs
<1>5. PICK f : Gathers(100, f)
  BY <1>3
<1> QED BY <1>4, <1>5

\* A migration rests on itself and on all that its dependencies rest on.
LEMMA BehindIs ==
  ASSUME NEW m \in Named
  PROVE  Behind[m] = {m} \cup UNION {Behind[d] : d \in After(m)}
<1>1. Behind = [l \in Named |-> {l} \cup UNION {Behind[d] : d \in After(l)}]
  BY BehindDefined DEF Behind
<1> QED BY <1>1

\* What a migration rests on are migrations, and they rest on no more than it does.
LEMMA BehindNamed == \A m \in Named : Behind[m] \subseteq Named
<1> DEFINE Bad == {m \in Named : ~(Behind[m] \subseteq Named)}
<1> SUFFICES ASSUME Bad # {} PROVE FALSE
  OBVIOUS
<1>1. PICK m \in Bad : \A k \in Bad : Depth[m] <= Depth[k]
  <2>1. \A k \in Bad : Depth[k] \in Nat
    BY AfterIs
  <2> HIDE DEF Bad
  <2> QED BY <2>1, LeastRank
<1>2. \A d \in After(m) : d \in Named /\ d \notin Bad
  <2>1. \A d \in After(m) : d \in Named /\ ~(Depth[m] <= Depth[d])
    BY AfterIs
  <2> HIDE DEF Bad
  <2> QED BY <1>1, <2>1
<1>3. \A d \in After(m) : Behind[d] \subseteq Named
  BY <1>2
<1>4. Behind[m] = {m} \cup UNION {Behind[d] : d \in After(m)}
  BY BehindIs
<1> QED BY <1>3, <1>4

\* A migration on which another rests is among the dependencies of one that does, too.
LEMMA BehindHasDependent ==
  \A n \in Named : \A m \in Behind[n] : m # n => \E d \in Behind[n] : m \in After(d)
<1> DEFINE Direct(n) == \A m \in Behind[n] : m # n => \E d \in Behind[n] : m \in After(d)
           Bad == {n \in Named : ~Direct(n)}
<1> SUFFICES ASSUME Bad # {} PROVE FALSE
  OBVIOUS
<1>1. PICK n \in Bad : \A k \in Bad : Depth[n] <= Depth[k]
  <2>1. \A k \in Bad : Depth[k] \in Nat
    BY AfterIs
  <2> HIDE DEF Bad
  <2> QED BY <2>1, LeastRank
<1>2. \A d \in After(n) : d \in Named /\ d \notin Bad
  <2>1. \A d \in After(n) : d \in Named /\ ~(Depth[n] <= Depth[d])
    BY AfterIs
  <2> HIDE DEF Bad
  <2> QED BY <1>1, <2>1
<1>3. Behind[n] = {n} \cup UNION {Behind[d] : d \in After(n)}
  BY BehindIs
<1>4. ASSUME NEW m \in Behind[n], m # n
      PROVE  \E d \in Behind[n] : m \in After(d)
  <2>1. PICK l \in After(n) : m \in Behind[l]
    BY <1>3, <1>4
  <2>2. CASE m = l
    <3>1. n \in Behind[n]
      BY <1>3
    <3> QED BY <2>1, <2>2, <3>1
  <2>3. CASE m # l
    <3>1. Direct(l)
      BY <1>2, <2>1
    <3>2. PICK d \in Behind[l] : m \in After(d)
      BY <2>1, <2>3, <3>1
    <3>3. d \in Behind[n]
      BY <1>3, <2>1, <3>2
    <3> QED BY <3>2, <3>3
  <2> QED BY <2>2, <2>3
<1>5. n \in Named /\ ~Direct(n)
  OBVIOUS
<1> QED BY <1>4, <1>5

\* What a migration rests on rests on no more than it does.
LEMMA BehindTransitive == \A n \in Named : \A m \in Behind[n] : Behind[m] \subseteq Behind[n]
<1> DEFINE Contains(n) == \A m \in Behind[n] : Behind[m] \subseteq Behind[n]
           Bad == {n \in Named : ~Contains(n)}
<1> SUFFICES ASSUME Bad # {} PROVE FALSE
  OBVIOUS
<1>1. PICK n \in Bad : \A k \in Bad : Depth[n] <= Depth[k]
  <2>1. \A k \in Bad : Depth[k] \in Nat
    BY AfterIs
  <2> HIDE DEF Bad
  <2> QED BY <2>1, LeastRank
<1>2. \A d \in After(n) : d \in Named /\ d \notin Bad
  <2>1. \A d \in After(n) : d \in Named /\ ~(Depth[n] <= Depth[d])
    BY AfterIs
  <2> HIDE DEF Bad
  <2> QED BY <1>1, <2>1
<1>3. Behind[n] = {n} \cup UNION {Behind[d] : d \in After(n)}
  BY BehindIs
<1>4. ASSUME NEW m \in Behind[n], m # n
      PROVE  Behind[m] \subseteq Behind[n]
  <2>1. PICK l \in After(n) : m \in Behind[l]
    BY <1>3, <1>4
  <2>2. Contains(l)
    BY <1>2, <2>1
  <2>3. Behind[m] \subseteq Behind[l] /\ Behind[l] \subseteq Behind[n]
    BY <1>3, <2>1, <2>2
  <2> QED BY <2>3
<1>5. n \in Named /\ ~Contains(n)
  OBVIOUS
<1> QED BY <1>4, <1>5

\* A migration rests on the dependencies of all it rests on.
LEMMA BehindClosed ==
  ASSUME NEW n \in Named, NEW m \in Behind[n]
  PROVE  m \in Behind[m] /\ After(m) \subseteq Behind[n]
<1>1. m \in Named
  BY BehindNamed
<1>2. Behind[m] = {m} \cup UNION {Behind[d] : d \in After(m)}
  BY <1>1, BehindIs
<1>3. ASSUME NEW d \in After(m) PROVE d \in Behind[n]
  <2>1. d \in Named
    BY <1>1, AfterIs
  <2>2. d \in Behind[d]
    BY <2>1, BehindIs
  <2>3. Behind[m] \subseteq Behind[n]
    BY BehindTransitive
  <2> QED BY <1>2, <2>2, <2>3
<1> QED BY <1>2, <1>3

---------------------------------------------------------------------------
\* Nothing is applied without what it depends on.
Grounded == applied \subseteq Named /\ \A m \in applied : After(m) \subseteq applied

\* The columns of the database are those of the applied migrations, no more and no less.
ColumnsFollow == columns = UNION {Effect(m).adds : m \in applied}

\* A rollback goes on only while the migration it goes back before is applied.
UndoingApplied == step = "rollback" => undoing \in applied

LEMMA GroundedBehind ==
  ASSUME Grounded
  PROVE  \A m \in applied : Behind[m] \subseteq applied
<1> DEFINE Bad == {m \in applied : ~(Behind[m] \subseteq applied)}
<1> SUFFICES ASSUME Bad # {} PROVE FALSE
  OBVIOUS
<1>1. Bad \subseteq Named
  BY DEF Grounded
<1>2. PICK m \in Bad : \A k \in Bad : Depth[m] <= Depth[k]
  <2>1. \A k \in Bad : Depth[k] \in Nat
    BY <1>1, AfterIs
  <2> HIDE DEF Bad
  <2> QED BY <2>1, LeastRank
<1>3. m \in Named /\ After(m) \subseteq applied
  BY <1>1 DEF Grounded
<1>4. \A d \in After(m) : d \in applied /\ d \notin Bad
  <2>1. \A d \in After(m) : d \in applied /\ ~(Depth[m] <= Depth[d])
    BY <1>3, AfterIs
  <2> HIDE DEF Bad
  <2> QED BY <1>2, <2>1
<1>5. \A d \in After(m) : Behind[d] \subseteq applied
  BY <1>4
<1>6. Behind[m] = {m} \cup UNION {Behind[d] : d \in After(m)}
  BY <1>3, BehindIs
<1> QED BY <1>5, <1>6

\* An app whose last migration is applied has all of its migrations applied.
LEMMA AppComplete ==
  ASSUME Grounded, NEW i \in 1 .. 14, <<Apps[i], Len(History[Apps[i]])>> \in applied
  PROVE  \A n \in 1 .. Len(History[Apps[i]]) : <<Apps[i], n>> \in applied
<1> DEFINE len == Len(History[Apps[i]])
           Bad == {n \in 1 .. len : <<Apps[i], n>> \notin applied}
<1>0. len \in 1 .. 9
  BY HistoryLengths
<1>9. \A n \in 1 .. len : <<Apps[i], n>> \in Named
  BY NamedIs
<1> HIDE DEF len
<1> SUFFICES ASSUME Bad # {} PROVE FALSE
  BY DEF len
<1>1. PICK n \in Bad : \A k \in Bad : k <= n
  <2>1. Bad \subseteq 0 .. 9
    BY <1>0
  <2> HIDE DEF Bad
  <2> QED BY <2>1, Greatest
<1>2. n \in 1 .. len /\ n # len
  BY DEF len
<1>3. n + 1 \in 1 .. len /\ n + 1 \notin Bad
  <2>1. n + 1 \in 1 .. len /\ ~(n + 1 <= n)
    BY <1>0, <1>2
  <2> HIDE DEF Bad
  <2> QED BY <1>1, <2>1
<1>4. <<Apps[i], n + 1>> \in applied
  BY <1>3
<1>5. <<Apps[i], n>> \in After(<<Apps[i], n + 1>>)
  BY <1>0, <1>2 DEF After
<1> QED BY <1>4, <1>5 DEF Grounded

\* While migrations wait, there is a first app that is behind.
LEMMA FirstIs ==
  ASSUME Grounded, Waiting # {}
  PROVE  FirstOpen \in OpenApps /\ \A j \in OpenApps : FirstOpen <= j
<1>1. OpenApps # {}
  <2>1. PICK m \in Named : m \notin applied
    BY DEF Waiting
  <2>2. PICK i \in 1 .. 14 : \E n \in 1 .. Len(History[Apps[i]]) : m = <<Apps[i], n>>
    BY NamedIs
  <2>3. <<Apps[i], Len(History[Apps[i]])>> \notin applied
    BY <2>1, <2>2, AppComplete
  <2>4. <<Apps[i], Len(History[Apps[i]])>> \in Named
    <3> DEFINE len == Len(History[Apps[i]])
    <3>1. len \in 1 .. 9
      BY HistoryLengths
    <3>2. len \in 1 .. len
      <4> HIDE DEF len
      <4> QED BY <3>1
    <3> QED BY <3>2, NamedIs
  <2> QED BY <2>3, <2>4, HistoryLengths DEF OpenApps, Waiting
<1>2. OpenApps \subseteq Nat
  <2>1. OpenApps \subseteq DOMAIN Apps
    BY DEF OpenApps
  <2>2. DOMAIN Apps = 1 .. 14
    BY HistoryLengths
  <2> QED BY <2>1, <2>2
<1>3. PICK i \in OpenApps : \A j \in OpenApps : i <= j
  BY <1>1, <1>2, Least
<1> QED BY <1>3 DEF FirstOpen

\* The walk up ends at a migration that waits and whose dependencies are applied, among those
\* that the last one of the first app behind rests on.
LEMMA NextUpIs ==
  ASSUME Grounded, Waiting # {}
  PROVE  /\ NextUp \in Waiting /\ After(NextUp) \subseteq applied
         /\ NextUp \in Behind[<<Apps[FirstOpen], Len(History[Apps[FirstOpen]])>>]
<1> DEFINE stop == {m \in Named : After(m) \subseteq applied}
           next == [m \in Named |-> LastOf(After(m) \cap Waiting)]
<1>1. ASSUME NEW m \in Named, m \notin stop
      PROVE  next[m] \in After(m) /\ next[m] \in Waiting
  <2>1. After(m) \cap Waiting \subseteq Named /\ After(m) \cap Waiting # {}
    BY <1>1, AfterIs DEF Waiting
  <2>2. LastOf(After(m) \cap Waiting) \in After(m) \cap Waiting
    BY <2>1, LastIs
  <2> QED BY <2>2
<1>2. Descends(Named, stop, next, Depth)
  <2>1. ASSUME NEW m \in Named, m \notin stop
        PROVE  next[m] \in Named /\ Depth[next[m]] < Depth[m]
    <3>1. next[m] \in After(m)
      BY <1>1, <2>1
    <3> HIDE DEF stop, next
    <3> QED BY <3>1, AfterIs
  <2>2. \A m \in Named : Depth[m] \in Nat /\ Depth[m] <= 99
    BY AfterIs
  <2> HIDE DEF stop, next
  <2> QED BY <2>1, <2>2 DEF Descends
<1> DEFINE top == <<Apps[FirstOpen], Len(History[Apps[FirstOpen]])>>
           below == Waiting \cap Behind[top]
<1>8. top \in Waiting /\ top \in Named
  BY FirstIs DEF OpenApps, Waiting
<1> HIDE DEF top
<1>3. \A m \in below \ stop : next[m] \in below
  <2> SUFFICES ASSUME NEW m \in below, m \notin stop PROVE next[m] \in below
    OBVIOUS
  <2>1. m \in Named /\ m \in Behind[top]
    BY DEF Waiting
  <2>2. next[m] \in After(m) /\ next[m] \in Waiting
    BY <1>1, <2>1
  <2>3. After(m) \subseteq Behind[top]
    BY <1>8, <2>1, BehindClosed
  <2> HIDE DEF stop, next
  <2> QED BY <2>2, <2>3
<1>4. ASSUME NEW f
      PROVE  IsWalk(f, Named, stop, next)
             <=> f = [m \in Named |-> IF After(m) \subseteq applied THEN m ELSE f[LastOf(After(m) \cap Waiting)]]
  BY DEF IsWalk
<1>5. IsWalk(WalkUp, Named, stop, next)
  <2>1. \E f : IsWalk(f, Named, stop, next)
    <3> HIDE DEF stop, next
    <3> QED BY <1>2, WalkDefined
  <2>2. \E f : f = [m \in Named |-> IF After(m) \subseteq applied THEN m ELSE f[LastOf(After(m) \cap Waiting)]]
    BY <1>4, <2>1
  <2>3. WalkUp = [m \in Named |-> IF After(m) \subseteq applied THEN m ELSE WalkUp[LastOf(After(m) \cap Waiting)]]
    BY <2>2 DEF WalkUp
  <2> QED BY <1>4, <2>3
<1>6. below \subseteq Named
  BY DEF Waiting
<1>7. \A m \in below : WalkUp[m] \in below /\ WalkUp[m] \in stop
  <2> HIDE DEF stop, next, below
  <2> QED BY <1>2, <1>3, <1>5, <1>6, WalkEnds
<1>9. top \in below
  BY <1>8, BehindIs
<1> QED BY <1>7, <1>9 DEF NextUp, top

\* The walk down ends at an applied migration on which no applied one depends, and which itself
\* rests on the migration that is undone.
LEMMA NextDownIs ==
  ASSUME Grounded, undoing \in applied
  PROVE  NextDown \in applied /\ Dependents(NextDown) = {} /\ undoing \in Behind[NextDown]
<1> DEFINE above == {n \in applied : undoing \in Behind[n]}
           stop == {m \in Named : Dependents(m) = {}}
           next == [m \in Named |-> LastOf(Dependents(m))]
           height == [m \in Named |-> 99 - Depth[m]]
<1>1. ASSUME NEW m \in Named, m \notin stop
      PROVE  next[m] \in applied /\ m \in After(next[m])
  <2>1. Dependents(m) \subseteq Named /\ Dependents(m) # {}
    BY <1>1 DEF Dependents, Grounded
  <2>2. LastOf(Dependents(m)) \in Dependents(m)
    BY <2>1, LastIs
  <2> QED BY <2>2 DEF Dependents
<1>2. Descends(Named, stop, next, height)
  <2>1. ASSUME NEW m \in Named, m \notin stop
        PROVE  next[m] \in Named /\ height[next[m]] < height[m]
    <3>1. next[m] \in applied /\ m \in After(next[m])
      BY <1>1, <2>1
    <3>2. height[m] = 99 - Depth[m] /\ Depth[m] \in Nat
      BY AfterIs
    <3> HIDE DEF stop, next
    <3>3. next[m] \in Named
      BY <3>1 DEF Grounded
    <3>4. height[next[m]] = 99 - Depth[next[m]] /\ Depth[m] < Depth[next[m]] /\ Depth[next[m]] \in Nat
      BY <3>1, <3>3, AfterIs
    <3> HIDE DEF height
    <3> QED BY <3>2, <3>3, <3>4
  <2>2. ASSUME NEW m \in Named PROVE height[m] \in Nat /\ height[m] <= 99
    <3>1. Depth[m] \in Nat /\ Depth[m] <= 99
      BY AfterIs
    <3> QED BY <3>1
  <2> HIDE DEF stop, next, height
  <2> QED BY <2>1, <2>2 DEF Descends
<1>3. ASSUME NEW m \in above, m \notin stop PROVE next[m] \in above
  <2>1. next[m] \in applied /\ m \in After(next[m])
    BY <1>1, <1>3 DEF Grounded
  <2> HIDE DEF stop, next
  <2>2. next[m] \in Named
    BY <2>1 DEF Grounded
  <2>3. Behind[m] \subseteq Behind[next[m]]
    BY <2>1, <2>2, BehindIs
  <2> QED BY <2>1, <2>3
<1>4. ASSUME NEW f
      PROVE  IsWalk(f, Named, stop, next)
             <=> f = [m \in Named |-> IF Dependents(m) = {} THEN m ELSE f[LastOf(Dependents(m))]]
  BY DEF IsWalk
<1>5. IsWalk(WalkDown, Named, stop, next)
  <2>1. \E f : IsWalk(f, Named, stop, next)
    <3> HIDE DEF stop, next, height
    <3> QED BY <1>2, WalkDefined
  <2>2. \E f : f = [m \in Named |-> IF Dependents(m) = {} THEN m ELSE f[LastOf(Dependents(m))]]
    BY <1>4, <2>1
  <2>3. WalkDown = [m \in Named |-> IF Dependents(m) = {} THEN m ELSE WalkDown[LastOf(Dependents(m))]]
    BY <2>2 DEF WalkDown
  <2> QED BY <1>4, <2>3
<1>6. above \subseteq Named /\ undoing \in above
  BY BehindIs DEF Grounded
<1>7. \A m \in above : WalkDown[m] \in above /\ WalkDown[m] \in stop
  <2> HIDE DEF stop, next, height, above
  <2> QED BY <1>2, <1>3, <1>5, <1>6, WalkEnds
<1> QED BY <1>6, <1>7 DEF NextDown

\* Without dependents, a migration takes along nothing but the columns it added.
LEMMA DroppedIs ==
  ASSUME Grounded, ColumnsFollow, NEW m \in applied, Dependents(m) = {}
  PROVE  Dropped(m) = UNION {Effect(n).adds : n \in applied \ {m}}
<1>1. ASSUME NEW n \in applied, n # m, NEW c \in Effect(n).adds
      PROVE  c \notin Effect(m).adds /\ c.table \notin Creates(m)
  <2>1. n \in Named /\ m \in Named
    BY DEF Grounded
  <2>2. c \notin Effect(m).adds
    BY <1>1, <2>1, ColumnsAssumption
  <2>3. c.table \in Creates(m) => m \in Behind[n]
    BY <2>1, ColumnsAssumption
  <2>4. ASSUME m \in Behind[n] PROVE FALSE
    <3>1. PICK d \in Behind[n] : m \in After(d)
      BY <1>1, <2>1, <2>4, BehindHasDependent
    <3>2. d \in applied
      BY GroundedBehind
    <3> QED BY <3>1, <3>2 DEF Dependents
  <2> QED BY <2>2, <2>3, <2>4
<1> DEFINE rest == UNION {Effect(n).adds : n \in applied \ {m}}
<1>2. columns = rest \cup Effect(m).adds
  BY DEF ColumnsFollow
<1>3. \A c \in rest : c \notin Effect(m).adds /\ c.table \notin Creates(m)
  BY <1>1
<1> HIDE DEF rest
<1>4. Dropped(m) = rest
  BY <1>2, <1>3 DEF Dropped
<1> QED BY <1>4 DEF rest

---------------------------------------------------------------------------
\* The inductive invariant: the types, with the columns and the rollback tied to what is applied.
DeployInv == TypeOK /\ ColumnsFollow /\ UndoingApplied

\* What is applied is closed under dependencies.
LEMMA InvGrounds == DeployInv => Grounded
BY DEF DeployInv, TypeOK, Grounded

\* The value undoing has outside a rollback names no migration.
LEMMA NothingIsNoName == Nothing \notin Named
<1>1. ASSUME NEW m \in Named PROVE m # Nothing
  <2>1. m[2] \in 1 .. 9
    BY IndexIs
  <2>2. Nothing[2] = 0
    BY DEF Nothing
  <2> QED BY <2>1, <2>2
<1> QED BY <1>1

\* An empty database.
LEMMA DeployInit == Init => DeployInv
<1> SUFFICES ASSUME Init PROVE DeployInv
  OBVIOUS
<1> USE DEF Init
<1>1. TypeOK
  BY RollbacksAssumption DEF TypeOK
<1>2. ColumnsFollow
  BY DEF ColumnsFollow
<1>3. UndoingApplied
  BY DEF UndoingApplied
<1> QED BY <1>1, <1>2, <1>3 DEF DeployInv

\* A view that is left or created is one of those that some migration names.
LEMMA ReplaceIs ==
  ASSUME NEW vs, NEW new, NEW All, vs \subseteq All, new \subseteq All
  PROVE  Replace(vs, new) \subseteq All
BY DEF Replace

\* A view that still stands was there.
LEMMA StandingIs == ASSUME NEW cs, NEW vs PROVE Standing(cs, vs) \subseteq vs
BY DEF Standing

\* Applying the next migration of the plan.
LEMMA ApplyKeeps == DeployInv /\ Apply => DeployInv'
<1> SUFFICES ASSUME DeployInv, Apply PROVE DeployInv'
  OBVIOUS
<1>0. TypeOK /\ ColumnsFollow /\ UndoingApplied /\ Grounded
  BY InvGrounds DEF DeployInv
<1>1. PICK m : /\ m = NextUp /\ applied' = applied \cup {m} /\ columns' = columns \cup Effect(m).adds
               /\ views' = Replace(views, Effect(m).views)
  BY DEF Apply
<1>2. step = "migrate" /\ step' = step /\ undoing' = undoing /\ rollbacks' = rollbacks
  BY DEF Apply
<1>3. m \in Named /\ m \notin applied /\ After(m) \subseteq applied
  BY <1>0, <1>1, NextUpIs DEF Apply, Waiting
<1>4. applied' \subseteq Named /\ \A n \in applied' : After(n) \subseteq applied'
  BY <1>0, <1>1, <1>3 DEF Grounded
<1>5. columns' \subseteq UNION {Effect(n).adds : n \in Named}
  BY <1>0, <1>1, <1>3 DEF TypeOK
<1>6. views' \subseteq UNION {Effect(n).views \cup Effect(n).restores : n \in Named}
  <2>1. views \subseteq UNION {Effect(n).views \cup Effect(n).restores : n \in Named}
    BY <1>0 DEF TypeOK
  <2>2. Effect(m).views \subseteq UNION {Effect(n).views \cup Effect(n).restores : n \in Named}
    BY <1>3
  <2> QED BY <1>1, <2>1, <2>2, ReplaceIs
<1>7. TypeOK'
  BY <1>0, <1>2, <1>4, <1>5, <1>6 DEF TypeOK
<1>8. ColumnsFollow'
  BY <1>0, <1>1 DEF ColumnsFollow
<1>9. UndoingApplied'
  BY <1>2 DEF UndoingApplied
<1> QED BY <1>7, <1>8, <1>9 DEF DeployInv

\* Reversing one migration, or failing to: the columns that remain are those of what stays applied.
LEMMA ReverseKeeps == DeployInv /\ Reverse => DeployInv'
<1> SUFFICES ASSUME DeployInv, Reverse PROVE DeployInv'
  OBVIOUS
<1>0. TypeOK /\ ColumnsFollow /\ UndoingApplied /\ Grounded
  BY InvGrounds DEF DeployInv
<1>1. step = "rollback" /\ rollbacks' = rollbacks /\ undoing \in applied
  BY <1>0 DEF Reverse, UndoingApplied
<1>2. NextDown \in applied /\ Dependents(NextDown) = {}
  BY <1>0, <1>1, NextDownIs
<1>3. CASE UNCHANGED db /\ step' = "idle" /\ undoing' = Nothing
  <2>1. TypeOK'
    BY <1>0, <1>1, <1>3 DEF TypeOK, db
  <2> QED BY <1>0, <1>3, <2>1 DEF DeployInv, ColumnsFollow, UndoingApplied, db
<1>4. ASSUME NEW m \in applied, m = NextDown, NEW left, left = Dropped(m), NEW kept, kept \subseteq views,
             applied' = applied \ {m}, columns' = left, views' = Replace(kept, Effect(m).restores),
             \/ m = undoing /\ step' = "idle" /\ undoing' = Nothing
             \/ m # undoing /\ UNCHANGED <<step, undoing>>
      PROVE  DeployInv'
  <2>1. m \in Named /\ \A n \in applied : m \notin After(n)
    BY <1>0, <1>2, <1>4 DEF Grounded, Dependents
  <2>2. applied' \subseteq Named /\ \A n \in applied' : After(n) \subseteq applied'
    BY <1>0, <1>4, <2>1 DEF Grounded
  <2>3. ColumnsFollow'
    <3>1. left = UNION {Effect(n).adds : n \in applied \ {m}}
      BY <1>0, <1>2, <1>4, DroppedIs
    <3> QED BY <1>4, <3>1 DEF ColumnsFollow
  <2>4. columns' \subseteq UNION {Effect(n).adds : n \in Named}
    BY <2>2, <2>3 DEF ColumnsFollow
  <2>5. views' \subseteq UNION {Effect(n).views \cup Effect(n).restores : n \in Named}
    <3>1. kept \subseteq UNION {Effect(n).views \cup Effect(n).restores : n \in Named}
      BY <1>0, <1>4 DEF TypeOK
    <3>2. Effect(m).restores \subseteq UNION {Effect(n).views \cup Effect(n).restores : n \in Named}
      BY <2>1
    <3> QED BY <1>4, <3>1, <3>2, ReplaceIs
  <2>6. TypeOK'
    BY <1>0, <1>1, <1>4, <2>2, <2>4, <2>5 DEF TypeOK
  <2>7. UndoingApplied'
    BY <1>0, <1>1, <1>4 DEF UndoingApplied
  <2> QED BY <2>3, <2>6, <2>7 DEF DeployInv
<1> DEFINE m == NextDown
           left == Dropped(m)
           kept == {v \in Standing(left, views) : \A w \in Effect(m).views : v.name # w.name}
           fails == \E v \in Effect(m).restores : ~(v.reads \subseteq Exists(left))
<1>5. /\ IF fails THEN UNCHANGED db
         ELSE applied' = applied \ {m} /\ columns' = left /\ views' = Replace(kept, Effect(m).restores)
      /\ IF fails \/ m = undoing THEN step' = "idle" /\ undoing' = Nothing ELSE UNCHANGED <<step, undoing>>
  BY DEF Reverse
<1>6. kept \subseteq views
  BY StandingIs
<1>7. m \in applied
  BY <1>2
<1>8. CASE fails
  <2> HIDE DEF fails, m, left, kept
  <2> QED BY <1>3, <1>5, <1>8
<1>9. CASE ~fails
  <2>1. m = NextDown /\ left = Dropped(m)
    OBVIOUS
  <2> HIDE DEF fails, m, left, kept
  <2> QED BY <1>4, <1>5, <1>6, <1>7, <1>9, <2>1
<1> QED BY <1>8, <1>9

\* Every step of a deployment or a rollback.
LEMMA DeployKeeps == DeployInv /\ [Next]_vars => DeployInv'
<1> SUFFICES ASSUME DeployInv, [Next]_vars PROVE DeployInv'
  OBVIOUS
<1>0. TypeOK /\ ColumnsFollow /\ UndoingApplied
  BY DEF DeployInv
<1>1. ASSUME NEW m \in Named, MigrateBack(m) PROVE DeployInv'
  <2>1. TypeOK'
    BY <1>0, <1>1, NothingIsNoName, RollbacksAssumption DEF MigrateBack, TypeOK, db
  <2> QED BY <1>0, <1>1, <2>1 DEF MigrateBack, DeployInv, ColumnsFollow, UndoingApplied, db
<1>2. CASE Reverse
  BY <1>2, ReverseKeeps
<1>3. CASE Begin
  BY <1>0, <1>3 DEF Begin, DeployInv, TypeOK, ColumnsFollow, UndoingApplied, db
<1>4. CASE Apply
  BY <1>4, ApplyKeeps
<1>5. CASE Migrated
  BY <1>0, <1>5, RollbacksAssumption DEF Migrated, DeployInv, TypeOK, ColumnsFollow, UndoingApplied, db
<1>6. CASE Refresh
  BY <1>0, <1>6 DEF Refresh, DeployInv, TypeOK, ColumnsFollow, UndoingApplied, db
<1>7. CASE Interrupt
  BY <1>0, <1>7 DEF Interrupt, DeployInv, TypeOK, ColumnsFollow, UndoingApplied, db
<1>8. CASE UNCHANGED vars
  BY <1>0, <1>8 DEF vars, DeployInv, TypeOK, ColumnsFollow, UndoingApplied
<1> QED BY <1>1, <1>2, <1>3, <1>4, <1>5, <1>6, <1>7, <1>8 DEF Next

\* Whatever is applied, rolled back and interrupted: what is applied is closed under dependencies,
\* the columns are exactly those that the applied migrations add, and a rollback goes back before a
\* migration that is applied.
THEOREM DeployInvariant == Spec => []DeployInv
<1>1. Init => DeployInv
  BY DeployInit
<1>2. DeployInv /\ [Next]_vars => DeployInv'
  BY DeployKeeps
<1> QED BY <1>1, <1>2, PTL DEF Spec

\* A table that an applied migration references was created by one it rests on, which is applied.
LEMMA InvStands == DeployInv => TablesStand
<1> SUFFICES ASSUME DeployInv, NEW m \in applied, NEW c \in Effect(m).adds
             PROVE  c \in columns /\ (c.target # "" => <<c.target, "id">> \in Exists(columns))
  BY DEF TablesStand
<1>1. Grounded /\ ColumnsFollow
  BY InvGrounds DEF DeployInv
<1>2. c \in columns
  BY <1>1 DEF ColumnsFollow
<1>3. ASSUME c.target # "" PROVE <<c.target, "id">> \in Exists(columns)
  <2>1. CASE c.target \in External
    BY <2>1 DEF Exists
  <2>2. CASE c.target \notin External
    <3>1. PICK d \in Behind[m] : c.target \in Creates(d)
      BY <1>1, <1>3, <2>2, ColumnsAssumption DEF Grounded
    <3>2. d \in applied
      BY <1>1, GroundedBehind
    <3>3. PICK a \in Effect(d).adds : a.column = "id" /\ a.table = c.target
      BY <3>1 DEF Creates
    <3>4. a \in columns
      BY <1>1, <3>2 DEF ColumnsFollow
    <3> QED BY <3>3, <3>4 DEF Exists
  <2> QED BY <2>1, <2>2
<1> QED BY <1>2, <1>3

\* A rollback never takes a column or a table from under a migration that stays applied
\* (SQL_DOWN and the schema editor, in the order of migrate).
THEOREM TablesAlwaysStand == Spec => []TablesStand
BY DeployInvariant, InvStands, PTL

\* When everything is applied, the columns are all that the migrations add: the database after any
\* rollback and redeployment is the one a fresh deployment makes.
LEMMA InvDeclares ==
  ASSUME DeployInv, Declares(UNION {Effect(m).adds : m \in Named})
  PROVE  SchemaIsDeclared
BY DEF DeployInv, ColumnsFollow, SchemaIsDeclared

\* After any rollbacks and interruptions a complete migrate ends in the schema of the model classes,
\* if one over an empty database does: the hypothesis is a formula without variables, which the
\* run evaluates when everything is applied.
THEOREM SchemaStaysDeclared ==
  ASSUME Declares(UNION {Effect(m).adds : m \in Named})
  PROVE  Spec => []SchemaIsDeclared
<1>1. DeployInv => SchemaIsDeclared
  BY InvDeclares
<1> QED BY <1>1, DeployInvariant, PTL

---------------------------------------------------------------------------
\* No app appears twice in the plan.
LEMMA IndexOfApp == \A i \in 1 .. 14 : AppIndex(Apps[i]) = i
<1>1. \A i, j \in 1 .. 14 : Apps[i] = Apps[j] => i = j
  BY DEF Apps
<1>2. ASSUME NEW i \in 1 .. 14 PROVE AppIndex(Apps[i]) = i
  <2>1. \E j \in DOMAIN Apps : Apps[j] = Apps[i]
    BY HistoryLengths
  <2>2. AppIndex(Apps[i]) \in DOMAIN Apps /\ Apps[AppIndex(Apps[i])] = Apps[i]
    BY <2>1 DEF AppIndex
  <2> QED BY <1>1, <2>2, HistoryLengths
<1> QED BY <1>2

\* The apps before the first one that is behind are complete.
LEMMA EarlierApplied ==
  ASSUME Grounded, Waiting # {}, NEW n \in Named, AppIndex(n[1]) < FirstOpen
  PROVE  n \in applied
<1>1. PICK i \in 1 .. 14 : \E k \in 1 .. Len(History[Apps[i]]) : n = <<Apps[i], k>>
  BY NamedIs
<1>2. AppIndex(n[1]) = i
  BY <1>1, IndexOfApp
<1>3. i \notin OpenApps
  <2>1. FirstOpen \in 1 .. 14 /\ \A j \in OpenApps : FirstOpen <= j
    BY FirstIs, HistoryLengths DEF OpenApps
  <2>2. ~(FirstOpen <= i)
    BY <1>2, <2>1
  <2> QED BY <2>1, <2>2
<1>4. <<Apps[i], Len(History[Apps[i]])>> \in Named
  <2> DEFINE len == Len(History[Apps[i]])
  <2>1. len \in 1 .. 9
    BY HistoryLengths
  <2>2. len \in 1 .. len
    <3> HIDE DEF len
    <3> QED BY <2>1
  <2> QED BY <2>2, NamedIs
<1>5. <<Apps[i], Len(History[Apps[i]])>> \in applied
  BY <1>3, <1>4, HistoryLengths DEF OpenApps, Waiting
<1> QED BY <1>1, <1>5, AppComplete

\* A migration finds its tables with what it rests on, and its views with what the plan took before.
LEMMA InvFinds == DeployInv => PlanFindsItsTables
<1> SUFFICES ASSUME DeployInv, Waiting # {} PROVE Finds(NextUp)
  BY DEF PlanFindsItsTables
<1>1. Grounded /\ ColumnsFollow
  BY InvGrounds DEF DeployInv
<1> DEFINE top == <<Apps[FirstOpen], Len(History[Apps[FirstOpen]])>>
<1>2. PICK m : m = NextUp
  OBVIOUS
<1>3. m \in Named /\ After(m) \subseteq applied /\ m \in Behind[top]
  BY <1>1, <1>2, NextUpIs DEF Waiting
<1>4. top \in Named /\ FirstOpen \in 1 .. 14
  BY <1>1, FirstIs, HistoryLengths DEF OpenApps, Waiting
<1>5. \A d \in Behind[m] : d = m \/ d \in applied
  <2>1. Behind[m] = {m} \cup UNION {Behind[d] : d \in After(m)}
    BY <1>3, BehindIs
  <2>2. \A d \in After(m) : Behind[d] \subseteq applied
    BY <1>1, <1>3, GroundedBehind
  <2> QED BY <2>1, <2>2
<1> DEFINE there == Exists(columns \cup Effect(m).adds)
           shown == ViewNames(views \cup Effect(m).views)
<1>6. ASSUME NEW d \in Named, d = m \/ d \in applied, NEW c \in Effect(d).adds
      PROVE  <<c.table, c.column>> \in there
  <2>1. c \in columns \cup Effect(m).adds
    BY <1>1, <1>6 DEF ColumnsFollow
  <2> QED BY <2>1 DEF Exists
<1>7. ASSUME NEW d \in Behind[m], NEW t \in Creates(d)
      PROVE  <<t, "id">> \in there
  <2>1. PICK a \in Effect(d).adds : a.column = "id" /\ a.table = t
    BY DEF Creates
  <2>2. d \in Named
    BY <1>3, BehindNamed
  <2> HIDE DEF there
  <2> QED BY <1>5, <1>6, <2>1, <2>2
<1>8. ASSUME NEW t \in External PROVE <<t, "id">> \in there
  BY DEF Exists
<1>9. ASSUME NEW c \in Effect(m).adds
      PROVE  <<c.table, "id">> \in there /\ (c.target = "" \/ <<c.target, "id">> \in there)
  <2>1. \E d \in Behind[m] : c.table \in Creates(d)
    BY <1>3, ColumnsAssumption
  <2>2. c.target \in {""} \cup External \/ \E d \in Behind[m] : c.target \in Creates(d)
    BY <1>3, ColumnsAssumption
  <2> HIDE DEF there
  <2> QED BY <1>7, <1>8, <2>1, <2>2
<1>10. ASSUME NEW v \in Effect(m).views, NEW r \in v.reads
       PROVE  r \in there \/ r \in shown
  <2>1. CASE r \in {<<t, "id">> : t \in External} \cup {<<w.name, "view">> : w \in Effect(m).views}
    <3>1. ASSUME NEW w \in Effect(m).views PROVE <<w.name, "view">> \in shown
      BY DEF ViewNames
    <3> HIDE DEF there, shown
    <3> QED BY <1>8, <2>1, <3>1
  <2>2. ASSUME NEW n \in Named, n \in Behind[m] \/ AppIndex(n[1]) < AppIndex(m[1]),
               NEW c \in Effect(n).adds, r = <<c.table, c.column>>
        PROVE  r \in there
    <3>1. n = m \/ n \in applied
      <4>1. CASE n \in Behind[m]
        BY <1>5, <4>1
      <4>2. CASE AppIndex(n[1]) < AppIndex(m[1])
        <5>1. top[1] = m[1]
          BY <1>3, <1>4, ViewsAssumption
        <5>2. AppIndex(m[1]) = FirstOpen
          BY <1>4, <5>1, IndexOfApp
        <5> QED BY <1>1, <4>2, <5>2, EarlierApplied
      <4> QED BY <2>2, <4>1, <4>2
    <3> HIDE DEF there
    <3> QED BY <1>6, <2>2, <3>1
  <2>3. \/ r \in {<<t, "id">> : t \in External} \cup {<<w.name, "view">> : w \in Effect(m).views}
        \/ \E n \in Named : /\ n \in Behind[m] \/ AppIndex(n[1]) < AppIndex(m[1])
                           /\ \E c \in Effect(n).adds : r = <<c.table, c.column>>
    BY <1>3, ViewsAssumption
  <2> HIDE DEF there, shown
  <2> QED BY <2>1, <2>2, <2>3
<1> QED BY <1>2, <1>9, <1>10 DEF Finds

\* The next migration of the plan finds the tables, the columns and the views it names, whatever
\* rollbacks and interruptions came before (executor.migrate over entrypoint.sh's plan).
THEOREM PlanAlwaysFinds == Spec => []PlanFindsItsTables
BY DeployInvariant, InvFinds, PTL

---------------------------------------------------------------------------
\* One step reverses nothing but what rests on the migration that is undone.
LEMMA StepReverses ==
  ASSUME DeployInv, [Next]_vars, NEW m \in applied, m \notin applied'
  PROVE  step = "rollback" /\ undoing \in Behind[m]
<1>1. CASE Reverse
  <2>1. undoing \in applied /\ step = "rollback" /\ Grounded
    BY <1>1, InvGrounds DEF Reverse, DeployInv, UndoingApplied
  <2>2. undoing \in Behind[NextDown]
    BY <2>1, NextDownIs
  <2>3. applied' = applied \/ applied' = applied \ {NextDown}
    BY <1>1 DEF Reverse, db
  <2> QED BY <2>1, <2>2, <2>3
<1>2. CASE Apply
  BY <1>2 DEF Apply
<1>3. ASSUME ~Reverse, ~Apply PROVE applied' = applied
  BY <1>3 DEF Next, MigrateBack, Begin, Migrated, Refresh, Interrupt, db, vars
<1> QED BY <1>1, <1>2, <1>3

\* Only a rollback takes a migration off the record, and only one that rests on the migration
\* it undoes: what another app applied on its own stays (migrate <app> <earlier>).
THEOREM RollbackIsConfined == Spec => ReversesOnlyWhatRests
<1>1. DeployInv /\ [Next]_vars => [\A m \in applied \ applied' : step = "rollback" /\ undoing \in Behind[m]]_vars
  BY StepReverses
<1> QED BY <1>1, DeployInvariant, PTL DEF Spec, ReversesOnlyWhatRests
=============================================================================
