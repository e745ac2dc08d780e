--------------------------- MODULE BackgroundTasks ---------------------------
(***************************************************************************)
(* What happens after a commit: the email of a notification                *)
(* (core/notifications.notify, core/tasks.send_notification_email) and the *)
(* archiving of an uploaded document in DSpace (integrations/tasks,        *)
(* integrations/dspace).  Both are Celery tasks, queued by on_commit and   *)
(* acknowledged late (config/settings/base.py).                            *)
(*                                                                         *)
(* The broker, SMTP and DSpace are external.  A message stays with the     *)
(* broker until its worker acknowledges it: it is delivered again when the *)
(* worker's host dies or is slower than the broker's visibility timeout,   *)
(* but it is lost when only the process at work dies, for Celery then      *)
(* counts the task as failed.  A call to SMTP or DSpace can fail before or *)
(* after it has done its work.                                             *)
(***************************************************************************)
EXTENDS Integers, Sequences

CONSTANTS
  Notifications, Documents,  \* rows that have a task
  ApplicationOf,             \* the application of each document
  HasEmail,                  \* the notifications whose user has an address
  Workers,
  MaxRetries,                \* max_retries of each task
  MaxFaults,                 \* bound: interruptions by hosts and processes
  MaxItems,                  \* bound: items in DSpace
  Together,                  \* bound: sets of rows that may exist together
  NoItem

Tasks == Notifications \cup Documents

ASSUME TasksAssumption ==
  /\ Notifications \cap Documents = {}
  /\ HasEmail \subseteq Notifications
  /\ DOMAIN ApplicationOf = Documents
  /\ MaxRetries \in [Tasks -> Nat]
  /\ MaxFaults \in Nat /\ MaxItems \in Nat
  /\ Together \subseteq SUBSET Tasks
  /\ NoItem \notin Nat

VARIABLES
  saved,    \* the rows: "absent", "open" (in a transaction) or "committed"
  outbox,   \* committed, and on_commit has not run yet
  queue,    \* messages waiting in the broker: [task, retries]
  worker,   \* what each worker is at
  sentAt,   \* the notifications with email_sent_at
  handle,   \* dspace_handle of each document, the item it names
  failed,   \* the rows with an email_error or a dspace_error
  inbox,    \* emails that have arrived for each notification
  items,    \* the items in DSpace: [application, files], in order
  faults,   \* how many interruptions there were
  lost      \* history: the rows one of whose messages an interruption lost

tvars == <<saved, outbox, queue, worker, sentAt, handle, failed, inbox, items,
           faults, lost>>

rows == <<saved, outbox>>
fields == <<sentAt, handle, failed>>
outside == <<inbox, items>>
mishaps == <<faults, lost>>

Message(t, n) == [task |-> t, retries |-> n]

Idle == [step |-> "idle"]

At(w, s) == worker[w].step = s

TaskOf(w) == worker[w].msg.task

Goto(w, s) == worker' = [worker EXCEPT ![w].step = s]

Acknowledge(w) == worker' = [worker EXCEPT ![w] = Idle]

InHand(t) ==
  \/ t \in outbox
  \/ \E m \in queue : m.task = t
  \/ \E w \in Workers : ~At(w, "idle") /\ TaskOf(w) = t

MayJoin(t) == \E T \in Together : {t} \cup {u \in Tasks : saved[u] # "absent"} \subseteq T

-----------------------------------------------------------------------------
(* The web process.                                                        *)

(* Fault: .delay() instead of on_commit.                                   *)
SaveAndSend(t) ==
  /\ saved[t] = "absent"
  /\ MayJoin(t)
  /\ saved' = [saved EXCEPT ![t] = "open"]
  /\ queue' = queue \cup {Message(t, 0)}
  /\ UNCHANGED <<outbox, worker, fields, outside, mishaps>>

(* notify is called in the transactions of its callers; attach_document    *)
(* is in none, so its row is there, and on_commit due, at once.            *)
Save(t) ==
  /\ saved[t] = "absent"
  /\ MayJoin(t)
  /\ saved' = [saved EXCEPT ![t] = IF t \in Notifications THEN "open" ELSE "committed"]
  /\ outbox' = outbox \cup ({t} \cap Documents)
  /\ UNCHANGED <<queue, worker, fields, outside, mishaps>>

Commit(t) ==
  /\ saved[t] = "open"
  /\ saved' = [saved EXCEPT ![t] = "committed"]
  /\ outbox' = outbox \cup {t}
  /\ UNCHANGED <<queue, worker, fields, outside, mishaps>>

Rollback(t) ==
  /\ saved[t] = "open"
  /\ saved' = [saved EXCEPT ![t] = "absent"]
  /\ UNCHANGED <<outbox, queue, worker, fields, outside, mishaps>>

OnCommit(t) ==
  /\ t \in outbox
  /\ outbox' = outbox \ {t}
  /\ queue' = queue \cup {Message(t, 0)}
  /\ UNCHANGED <<saved, worker, fields, outside, mishaps>>

(* The process dies, or the broker is away, between commit and on_commit.  *)
NeverQueued(t) ==
  /\ t \in outbox
  /\ faults < MaxFaults
  /\ outbox' = outbox \ {t}
  /\ faults' = faults + 1
  /\ lost' = lost \cup {t}
  /\ UNCHANGED <<saved, queue, worker, fields, outside>>

-----------------------------------------------------------------------------
(* The broker.                                                             *)
Deliver(w, m) ==
  /\ At(w, "idle")
  /\ m \in queue
  /\ queue' = queue \ {m}
  /\ worker' = [worker EXCEPT ![w] = [step |-> "start", msg |-> m, item |-> NoItem]]
  /\ UNCHANGED <<rows, fields, outside, mishaps>>

(* The visibility timeout passes while the worker is at it.                *)
Redeliver(w) ==
  /\ ~At(w, "idle")
  /\ faults < MaxFaults
  /\ faults' = faults + 1
  /\ queue' = queue \cup {worker[w].msg}
  /\ UNCHANGED <<rows, worker, fields, outside, lost>>

HostDies(w) ==
  /\ ~At(w, "idle")
  /\ faults < MaxFaults
  /\ faults' = faults + 1
  /\ queue' = queue \cup {worker[w].msg}
  /\ Acknowledge(w)
  /\ UNCHANGED <<rows, fields, outside, lost>>

ProcessDies(w) ==
  /\ ~At(w, "idle")
  /\ faults < MaxFaults
  /\ faults' = faults + 1
  /\ lost' = lost \cup {TaskOf(w)}
  /\ Acknowledge(w)
  /\ UNCHANGED <<rows, queue, fields, outside>>

-----------------------------------------------------------------------------
(* Failing: the error is saved, the next attempt is queued (self.retry)    *)
(* and the message is acknowledged.                                        *)

(* Fault: only the log says that the attempt failed.                       *)
LogError(w) ==
  /\ At(w, "error")
  /\ Goto(w, "retry")
  /\ UNCHANGED <<rows, queue, fields, outside, mishaps>>

SaveError(w) ==
  /\ At(w, "error")
  /\ failed' = failed \cup {TaskOf(w)}
  /\ Goto(w, "retry")
  /\ UNCHANGED <<rows, queue, sentAt, handle, outside, mishaps>>

(* Fault: the attempts are not counted, as by queueing the task afresh.    *)
QueueAfresh(w) == queue' = queue \cup {Message(TaskOf(w), 0)}

QueueRetry(w) ==
  LET m == worker[w].msg IN
  IF m.retries < MaxRetries[m.task]
  THEN queue' = queue \cup {Message(m.task, m.retries + 1)}
  ELSE UNCHANGED queue

Retry(w) ==
  /\ At(w, "retry")
  /\ QueueRetry(w)
  /\ Goto(w, "done")
  /\ UNCHANGED <<rows, fields, outside, mishaps>>

Done(w) ==
  /\ At(w, "done")
  /\ Acknowledge(w)
  /\ UNCHANGED <<rows, queue, fields, outside, mishaps>>

-----------------------------------------------------------------------------
(* send_notification_email.                                                *)

(* Fault: email_sent_at is not looked at.                                  *)
AddressOnly(n) == saved[n] = "committed" /\ n \in HasEmail

ToSend(n) == saved[n] = "committed" /\ n \notin sentAt /\ n \in HasEmail

MailStart(w) ==
  /\ At(w, "start")
  /\ TaskOf(w) \in Notifications
  /\ Goto(w, IF ToSend(TaskOf(w)) THEN "send" ELSE "done")
  /\ UNCHANGED <<rows, queue, fields, outside, mishaps>>

Send(w) ==
  /\ At(w, "send")
  /\ \E arrives \in BOOLEAN, ok \in BOOLEAN :
       /\ ok => arrives
       /\ inbox' = [inbox EXCEPT ![TaskOf(w)] = IF arrives THEN @ + 1 ELSE @]
       /\ Goto(w, IF ok THEN "sent" ELSE "error")
  /\ UNCHANGED <<rows, queue, fields, items, mishaps>>

SaveSent(w) ==
  /\ At(w, "sent")
  /\ sentAt' = sentAt \cup {TaskOf(w)}
  /\ failed' = failed \ {TaskOf(w)}
  /\ Goto(w, "done")
  /\ UNCHANGED <<rows, queue, handle, outside, mishaps>>

-----------------------------------------------------------------------------
(* push_document_to_dspace and archive_application_document.               *)

OtherHandles(d) ==
  {handle[e] : e \in {e \in Documents \ {d} : ApplicationOf[e] = ApplicationOf[d]}} \ {NoItem}

(* The code takes the first other document with a handle, by date of       *)
(* upload; here it is any of them.                                         *)
ArchiveStart(w) ==
  /\ At(w, "start")
  /\ TaskOf(w) \in Documents
  /\ IF saved[TaskOf(w)] # "committed" THEN Goto(w, "done")
     ELSE IF OtherHandles(TaskOf(w)) = {} THEN Goto(w, "create")
     ELSE \E h \in OtherHandles(TaskOf(w)) :
            worker' = [worker EXCEPT ![w].step = "add", ![w].item = h]
  /\ UNCHANGED <<rows, queue, fields, outside, mishaps>>

CreateItem(w) ==
  /\ At(w, "create")
  /\ \E created \in BOOLEAN, ok \in BOOLEAN :
       /\ ok => created
       /\ IF created
          THEN /\ Len(items) < MaxItems
               /\ items' = Append(items, [application |-> ApplicationOf[TaskOf(w)], files |-> {}])
          ELSE UNCHANGED items
       /\ worker' = [worker EXCEPT ![w].step = IF ok THEN "add" ELSE "error",
                                   ![w].item = IF ok THEN Len(items) + 1 ELSE NoItem]
  /\ UNCHANGED <<rows, queue, fields, inbox, mishaps>>

AddBitstream(w) ==
  /\ At(w, "add")
  /\ \E added \in BOOLEAN, ok \in BOOLEAN :
       /\ ok => added
       /\ items' = IF added
                   THEN [items EXCEPT ![worker[w].item].files = @ \cup {TaskOf(w)}]
                   ELSE items
       /\ Goto(w, IF ok THEN "archived" ELSE "error")
  /\ UNCHANGED <<rows, queue, fields, inbox, mishaps>>

SaveHandle(w) ==
  /\ At(w, "archived")
  /\ handle' = [handle EXCEPT ![TaskOf(w)] = worker[w].item]
  /\ failed' = failed \ {TaskOf(w)}
  /\ Goto(w, "done")
  /\ UNCHANGED <<rows, queue, sentAt, outside, mishaps>>

-----------------------------------------------------------------------------
TasksInit ==
  /\ saved = [t \in Tasks |-> "absent"]
  /\ outbox = {} /\ queue = {}
  /\ worker = [w \in Workers |-> Idle]
  /\ sentAt = {} /\ failed = {}
  /\ handle = [d \in Documents |-> NoItem]
  /\ inbox = [n \in Notifications |-> 0]
  /\ items = << >>
  /\ faults = 0 /\ lost = {}

WebStep(t) == Save(t) \/ Commit(t) \/ Rollback(t) \/ NeverQueued(t)

MailStep(w) == MailStart(w) \/ Send(w) \/ SaveSent(w)

ArchiveStep(w) == ArchiveStart(w) \/ CreateItem(w) \/ AddBitstream(w) \/ SaveHandle(w)

WorkerStep(w) == MailStep(w) \/ ArchiveStep(w) \/ SaveError(w) \/ Retry(w) \/ Done(w)

Interruption(w) == Redeliver(w) \/ HostDies(w) \/ ProcessDies(w)

TasksNext ==
  \/ \E t \in Tasks : WebStep(t) \/ OnCommit(t)
  \/ \E w \in Workers :
       WorkerStep(w) \/ Interruption(w) \/ \E m \in queue : Deliver(w, m)

(* on_commit runs right after the commit; a worker that is up takes its    *)
(* next message and its calls return (every call to DSpace has a timeout). *)
(* Nothing says that a call ever succeeds, or that anybody saves a row.    *)
TasksFairness ==
  /\ \A t \in Tasks : WF_tvars(OnCommit(t))
  /\ \A w \in Workers : WF_tvars(WorkerStep(w)) /\ WF_tvars(\E m \in queue : Deliver(w, m))

TasksSpec == TasksInit /\ [][TasksNext]_tvars /\ TasksFairness

-----------------------------------------------------------------------------
(* Properties.                                                             *)

Finished(t) ==
  IF t \in Notifications THEN t \in sentAt \/ t \notin HasEmail ELSE handle[t] # NoItem

(* The values each variable can have.                                      *)
TasksTypeOK ==
  /\ saved \in [Tasks -> {"absent", "open", "committed"}]
  /\ outbox \subseteq Tasks
  /\ queue \subseteq [task : Tasks, retries : Nat]
  /\ \A w \in Workers :
       At(w, "idle") \/ worker[w] \in [step : {"start", "send", "sent", "create", "add",
                                                "archived", "error", "retry", "done"},
                                        msg : [task : Tasks, retries : Nat],
                                        item : DOMAIN items \cup {NoItem}]
  /\ sentAt \subseteq HasEmail
  /\ handle \in [Documents -> DOMAIN items \cup {NoItem}]
  /\ failed \subseteq Tasks /\ lost \subseteq Tasks
  /\ inbox \in [Notifications -> Nat]
  /\ faults \in 0 .. MaxFaults

(* A worker never looks for a row before its transaction has committed, or *)
(* after it was rolled back: the task would find nothing and end, and the  *)
(* email or the copy in the archive would be dropped without a trace       *)
(* (notify and attach_document queue their tasks in on_commit).            *)
TasksFindTheirRows == \A t \in Tasks : InHand(t) => saved[t] = "committed"

(* A task that is committed and that nobody has in hand any more has done  *)
(* its work or left an error on its row for staff to see, whatever         *)
(* failures and redeliveries there were, unless an interruption lost one   *)
(* of its messages.                                                        *)
NothingForgotten ==
  \A t \in Tasks :
    saved[t] = "committed" /\ ~InHand(t) => Finished(t) \/ t \in failed \/ t \in lost

(* A document's dspace_handle names an item of the document's own          *)
(* application that holds the document, however the documents of several   *)
(* applications are archived side by side and attempts are repeated.       *)
ArchivedIsThere ==
  \A d \in Documents : handle[d] # NoItem =>
    /\ items[handle[d]].application = ApplicationOf[d]
    /\ d \in items[handle[d]].files

(* Once email_sent_at is saved nobody sets out to send the email again,    *)
(* although its message may come back, or a retry of an attempt whose      *)
(* answer was lost; a worker that had looked before may still send one.    *)
Sending(w, n) == At(w, "send") /\ TaskOf(w) = n

NoResend == [][\A n \in sentAt, w \in Workers : Sending(w, n)' => Sending(w, n)]_tvars

(* Every task that was queued is at last in nobody's hand: attempts are    *)
(* counted (max_retries), so one that always fails is given up.            *)
TasksEnd == \A t \in Tasks : InHand(t) ~> ~InHand(t)
=============================================================================
