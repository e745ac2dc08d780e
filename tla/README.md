# A TLA+ specification of WaterSource

WaterSource is the Django application of a water-resources authority: licence
applications and the licence register, submissions of measurements, their
review, and a consolidated database of observations. This directory holds TLA+
modules of its core, TLC configurations that check them on small instances,
and proofs for TLAPS. `PROJECT.json` lists the runs, the mutants each property
was tested with, and the source lines behind every definition. Paths below are
under `src/apps/` unless they say otherwise.

## 1. The system

PostgreSQL holds all state. Web processes work on requests concurrently;
Celery workers run tasks that Redis queues (late acknowledgement, one message
at a time, `src/config/settings/base.py`); beat queues the periodic tasks.
There is no `ATOMIC_REQUESTS`: a view runs in a transaction only where the
code opens one, and most rows are read without a lock and saved later. The
hard behaviour comes from there: two requests that overlap, a task that is
delivered twice or dies half way, and one step of several failing.

| Component | State | Operations | Interacts with |
|---|---|---|---|
| workflow engine (`workflow/engine.py`) | an instance per item: state, stage, clock; a log of actions | start, approve, reject, return, request information, resubmit, withdraw, comment, queue | locks the instance, calls the item's hooks (`workflow_can_advance`, `on_workflow_*`) |
| licence applications (`lic/`) | application, documents, one technical assessment with conditions | draft, upload, submit, assess, decide | starts an instance; its approval issues a licence |
| licence register (`lic/models.py`, `lic/tasks.py`) | licences, the yearly number sequence, the licence number shown at a well | issue, renew, the daily warnings and expiry | called in the transaction of the final approval; alerts holder and staff |
| submissions (`submissions/`) | submission, its rows, counts, anomaly flags, idempotency key | form, CSV, API upload; correction; review hooks; promotion | validates with the catalog, starts an instance, writes observations |
| catalog (`catalog/`) | categories, versions (draft, published, retired), fields, rules | seed, clone, edit, publish, delete; validate a row, derive schema and form | each submission names the version it was checked with |
| observations (`obs/`) | fourteen tables of measurements with approval state and grade; `RecordHistory` | promote, correct, re-grade, approve a period, enter by hand | written by promotion, read by everything public |
| notifications (`core/notifications.py`, `core/tasks.py`) | notification rows with the time or the error of their email | notify, send, retry | queued on commit |
| archive (`integrations/dspace.py`) | the handle or the error on a document; items in DSpace | push a document, retry | queued on commit |
| visibility, audit (`core/`) | approval state and classification of rows, an append-only log | visible_to, mask, coarsen, log | pages, API, open data |
| accounts (`accounts/`) | users, roles, units, email tokens, second factors, sessions | verify, sign in, reset, expire, anonymise | roles and units decide who may act on a stage |
| synchronisation (`integrations/`) | runs and the rows they upsert | Aquarius, HGA, exports | beat |
| reports (`reports/`) | materialised views, the time of their refresh, a cache lock | refresh if stale, dashboards | beat and viewers |
| deployment (`*/migrations/`, `src/scripts/entrypoint.sh`) | the migrations applied, the tables, the `bi` views | migrate, roll back, refresh the views, seed | every other part stands on the tables |
| demonstration (`core/management/commands/seed_demo_data.py`) | rows of a made-up authority among real ones | build, wipe, rebuild, upgrade | refused by foreign keys that protect |
| governance, console, maps, open data, API, reference registers | milestones; cleansing issues and sign-offs; otherwise reads | deliver and decide; resolve and sign | |

What makes each part correct:

* engine: the instance and its log tell one story, no stage is skipped, nobody
  acts on a stage who is not entitled to, an item is decided once;
* licences: the application, its review and the register agree; nothing is
  granted without an assessment; numbers are in order and without gaps; holders
  are warned; nothing expires early and nothing lapsed stays active;
* submissions: nothing is published that was not reviewed, what is approved is
  published as a whole, duplicates are not, corrections keep their history;
* observations: an approval is for good, the history accounts for the values;
* tasks after a commit: they find their row, leave a trace when they fail, and
  do not repeat what is on record as done;
* catalog: one published version per category, with a schema made of the fields
  its rows are checked with, both frozen once it is published;
* dashboards: one guarded refresh at a time, views that count what was written;
* accounts: the retention sweep takes who is away and nobody else, for good;
* deployment: whatever was rolled back, tables keep what they reference, and a
  complete `migrate` ends in the schema the models declare;
* demonstration: it can be removed, and only rows that others wrote can stop it.

Visibility and synchronisation are still to come (section 7).

## 2. The modules

**`ReviewCase`** is what a review promises, and no more: a case is new, open or
closed with a verdict; it is opened once and decided once, and each step adds
one line to its history.

**`WorkflowEngine`** is `engine.py`. An item's instance is `state`, `currentStage`,
`enteredAt`, `closedAt`; `actions[i]` is its log of `WorkflowAction` rows,
whose length serves as the clock. There is one action per public function
(`Start`, `Advance` and `FinalApprove` for `approve`, `Reject`, `ReturnTo`,
`RequestInfo`, `Resubmit`, `Withdraw`, `Comment`); every function holds the row
lock of the instance, so each is one step. `StageActor` is
`_require_stage_actor` with its group, unit and superuser branches, and
`QueueFor` is `queue_for`. Stages, groups, units and return targets are
constants, as administrators configure them. `IsAReviewCase` maps the engine
to `ReviewCase`.

**`NumberSequence`** is `Sequence.next`: the row lock a drawing
transaction holds until it commits or rolls back, and the callers outside a
transaction (application references).

**`LicenceRegister`** is `Licence.issue` and `raise_expiry_alerts`. The task is
a loop over lead times and one over expired licences; each query's objects are
held as loaded (`todo`: the warnings and the status they had), sending and
saving are two steps in the order of the code, a delivery can crash between any
two and comes again, and the day can change in the middle. A licence renews one
that exists (`Renewable`).

**`LicenceReview`** composes the engine with an application, its assessment and
the register. What runs in one transaction is one step or, for the final
approval, a request in flight that holds the locks the code holds
(`FinalLoad`, `FinalDecide`, `FinalCommit`); the assessment view, which is in
no transaction, is four steps with the application as it was first loaded. The
form of a new application offers for renewal only licences that exist, so
`Create` asks the register for it.

**`RowValidation`** is `validate_row` with every rule type, over rows whose
cells are sets (empty: no value) or `Garbage`. `batch_seen` is the one set of
keys all rules of a batch share.

**`SubmissionReview`** composes the engine, `RowValidation` and
`ObservationRecords`: upload, anomaly flags, counts, hooks and promotion.
`create_submission` is two steps, for it looks the key up before its
transaction begins. A final approval is three when it corrects a row:
`PromoteBegin` takes the time that the history row will bear (`clock`),
`PromoteRead` reads the row without a lock, `PromoteCommit` saves. Where the
category writes `GenericRecord`s (`Generic`) every promotion inserts, also that
of a correction, and no history is written: `Inserts` is the order of the
branches in `promote`. What the statistics of the anomaly screening find is any
set of rows. `EditsInFlight` is what the records see of the requests: a
promotion that corrects a row is a correction, with its time and its copy.

**`ObservationRecords`** is an observation row and the services that change it.
Re-grading and correcting load the row and save it later (the correction: all
columns of it), so up to three edits and the approval of a period overlap. A
correction is three steps: `Stamp` takes `approved_at`, `Read` loads the row,
`Correct` saves. The history row is inserted between the last two, but nobody
sees it before the transaction commits, and that is after its save had the lock
of the row; so `corrections` is in the order of the saves, and each entry has
the time by which the code sorts it (`at`) beside that of its save (`saved`).
Two corrections `Overlap` when each was stamped before the other was saved.

**`BackgroundTasks`** is what follows a commit: the email of a notification and
the archiving of a document, with the broker, SMTP and DSpace as external
actors. A call may fail after it did its work; a message may come again, or be
lost with the process at work.

**`Schema`**, **`Migrations`** and **`Deployment`**. `Schema` holds the foreign
keys the model classes declare, with what each does on deletion; `Migrations`
what each migration of each app depends on, adds, and creates in SQL. They are
tables of constants, written from two different places of the repository, and
`SchemaIsDeclared` compares them. `Deployment` is their machine: `Apply` takes
the next migration of Django's plan (`WalkUp`, a walk through the dependencies
that wait, from the first app that is behind), `Reverse` undoes the next one of
the roll-back that `MigrateBack` began (`WalkDown`, the same walk through the
dependents), each in a transaction; `DROP ... CASCADE` takes the views along
(`Standing`). `Begin`, `Migrated` and `Refresh` are the steps of the entry
point; `Interrupt` stops it between two transactions. Columns that reference
nothing and that no view reads come and go with their table.

**`CategoryVersions`** is `catalog/models.py`: `publish` (retire the others,
build the schema, save) and `clone_as_draft` (count, create, copy row by row)
run statement by statement, as no transaction holds them together. The forms of
the console are read in one request (`OpenForm`) and written in another
(`SaveForm`): on any version, draft, published or retired, and to add one, with
any status and any change of the fields and rules, for the admin makes neither
read-only. The schema is not on the form and stays. Two history variables say
what the code does not guard: `contested`, that since the last retirement a form
published a version or another process was publishing; `edited`, the versions
that a form published, or whose entries were written while they were published
or on the way to it. `CopyRow` of a clone is such a write when the clone was
published meanwhile.

**`DemoData`** is `seed_demo_data.py`: `Wipe`, `Rebuild` and `UpgradeOrBuild`
are one transaction each, and `Delete` is Django's collector by the rules of
`Schema`. One row stands for all the rows of a kind.

**`Dashboards`** is `refresh_if_stale` and `refresh_bi_views`, statement by
statement: the stamp, the lock with its timeout (an age that `Tick` advances),
each `REFRESH` as a read of the tables and a replacement of the view. A killed
process leaves its lock, and a `REFRESH` of the database goes on without it.

**`Accounts`** is a client's account: registration, link, login, password
change, the admin page, licences, and the retention sweep. A request or a page
holds the row as it read it (`copy`) and `Write` saves all of it or the columns
the code names; the sweep holds its list, and saves each row of it whole, with
the dates of verification and last login that it had. The admin page sets the
address, `is_active` and the date of verification to anything. Time is how long
an account has been away, up to the window.

A definition marked `Fault:` is a mutant: the definition after it as a
plausible slip would write it. No specification uses one.

## 3. The runs

| Run | Shows | Bounds |
|---|---|---|
| `engine` | Instance and log agree (`LogDecidesState`), the stage's clock, no stage skipped, no approval while the submitter owes an answer, the queue holds only what its reader may approve, and the engine implements `ReviewCase` | one item, three stages (one owned by another unit), a reviewer-approver, an approver, the applicant and an administrator, 6 actions |
| `register` | The well shows its latest licence, numbers without gap or repetition; what is on record as warned was sent; a renewed licence becomes expired only through a delivery that had it on its list; (liveness) lapsed licences leave the active state | a licence, its renewal and another on one well, terms of one day, one lead time, two deliveries at work, one crash, two days |
| `licence_review` | The application mirrors the decision; nothing is granted unassessed; the granted volume stays on record; the engine sees only its own steps | one application, two concurrent requests, 4 actions, two volumes |
| `submissions` | What is approved is published as a whole; approval, rejection and questions reach the status; no duplicates; every correction of a typed row has its history; engine steps and record steps only | two submissions, one row on record, two requests, two stages, 4 actions for one and 6 for both |
| `key_used_once` | violated: overlapping requests with one key make two submissions | 3 actions |
| `observations` | Approval stays, the newest correction, or one that overlapped it, gives the current value, history is rooted, periods count a row once | one row, two values, three edits at once, three corrections stamped, two periods |
| `tasks` | Tasks find their rows, none is forgotten, a sent email is not sent again, and (liveness) every task ends | two notifications, three documents of two applications, two workers, one retry, one interruption, two items |
| `deploy` | Tables keep what they reference (`TablesStand`) and the full plan ends in the declared schema (`SchemaIsDeclared`), wherever migrating and rolling back stop | all migrations of all apps; rollbacks of accounts, core and reports, two between complete runs |
| `catalog` | One published version, with a schema of its fields, however clones, forms, deletions, deploys and kills come between, but for what `contested` and `edited` name | two administrators and a deploy, one field, two versions, one kill, two forms saved, one submission |
| `demo` | A wipe leaves nothing of the demonstration, and only rows written by others stop it | the whole demonstration, fifteen kinds of foreign rows, three at a time |
| `dashboards` | A pass that met no other leaves every view fresh; guarded passes stay apart; (liveness) what is written is shown | two watchers, one command, two views of which one reads the other, one change, one fault, times of one |
| `accounts` | Only who was away is swept, or who came back after the list was read; no login and no link restores a removed account; (liveness) who is past the window is swept | one client, who is answered once at a time, an admin page, two deliveries of the sweep, one kill, links of one unit, a window of two |

Why the bounds are enough. Six actions let an item pass a stage, be returned, be
parked and answered and come back to the last stage, and the skip of a stage
needs two of these. Two requests are what a lost update needs, and two
deliveries of the task what overwriting takes; a third only repeats one. Two
days cover the warning, the last day and the day after it; that deliveries
overwrite the warnings of several lead times is left to the proof, which has any
number. One crash puts every pair of consecutive steps apart. Two submissions
suffice for two corrections of one row; values are symmetric. For rows, three
edits let one load before an approval and save after another, and three stamps
let a correction be dated before two that are saved first. One retry reaches
both branches of `QueueRetry`; the code has five and ten. `Together` keeps
emails and documents in separate behaviours: they share nothing but idle
workers. Rules of a category are copied, edited and deleted as its fields are
and do not enter its schema, so `catalog` has fields only; with one, a form
still empties a version or refills it, and two forms publish a version and take
that back. Fields in greater number are left to the proofs. Three foreign rows
are a chain from the demonstration to a row that protects it. A lock of one unit
is outlasted by the second `Tick` of a pass. That an address freed by the sweep
is taken by another client is left to the proofs, which have any number of both.

`CHECK_DEADLOCK FALSE` stands where the system may really stop: everything is
decided, or nobody acts. Bounds on the log, on days and on interruptions stop
behaviours too. `observations`, `accounts`, `dashboards` and `demo` have no such
end (time passes, rows come and go), so there deadlock is checked.

Symmetry is used in runs of safety properties only, over requests, sessions,
submissions, administrators, fields and values, none of which the specifications
tell apart.

The modules state some properties that no run lists: ones the listed ones imply
or stand beside (`OthersStay`, `UpgradeCatchesUp`), ones that are proved
(`TypeOK`, `CountsAgree`, `LogIsAWalk`, `NeverExpiredEarly`,
`OnlyReviewedIsPublished`, `ArchivedIsThere`, `PlanFindsItsTables`,
`ReversesOnlyWhatRests`), and the ones of section 4 that the code does not keep.
Any of them can be put into the configuration of its module in place of those
there.

**Fairness.** `FairSpec` of the register asks for weak fairness of each worker's
step: beat queues the task every day and late acknowledgement brings it back.
Nothing obliges anyone to issue a licence. `TasksFairness` asks that on_commit
runs, that a free worker takes a waiting message and that a worker at work
goes on: calls to DSpace have a timeout (30 s). The SMTP call has none
(`EMAIL_TIMEOUT` is not set): that it returns is an assumption. Nothing
assumes that a call ever succeeds. `Dashboards` assumes that time passes, that a
watcher looks (beat queues the task every minute) and that a pass that is not
killed goes on; it never assumes that a refresh succeeds or that the lock is
given back. `Accounts` assumes only the sweep, which beat queues every day; no
client, no administrator and no clock has to act. All of them bound crashes, as
without a bound a worker could be killed for ever.

## 4. Where code and documents disagree

An idempotency key is checked and stored without lock or constraint
(`submissions/services.py:70`): the run `key_used_once` shows it.

The following were met while modelling. The model has the behaviour, and where
a property is named in brackets the module states it and TLC finds a
counterexample when a configuration asks for it; no run does.

* The status of a submission "mirrors the workflow instance"
  (`submissions/models.py:27`), but resubmitting, returning and withdrawing have
  no hook: it stays at `info_requested` after the answer, and `WITHDRAWN` is
  never set (`StatusMirrorsInstance`). `StatusFollowsReview` is what the hooks
  do keep.
* Approved corrections write the old and new values to `RecordHistory`
  (`submissions/models.py:6`), but `promote` asks for the `GenericRecord` first
  and inserts a second one (`submissions/promotion.py:106`;
  `EveryCorrectionOnRecord` with `Generic = TRUE`). It holds of the typed
  tables.
* The final approval saves the application it loaded; a unit that an assessment
  saved meanwhile is lost (`lic/models.py:143`; `DecisionKeepsUnit`).
* "Immutable-once-published" (`catalog/models.py:72`): the forms of the admin
  write fields of published and retired versions (`ImmutableOncePublished`); so do
  a clone that still copies and a form opened before the publication.
* `publish` is to "retire the previously published one" (`catalog/models.py:94`):
  of two that overlap neither does (`RetiresThePrevious`).
* The retention sweep takes a client who signed in after its list was read
  ("past the retention window", `accounts/tasks.py:7`; `SweptOnlyWhenAway`).
* "Irreversibly" (`accounts/services.py:28`): a password change under way saves
  the account back (`Irreversible`).
* A parked item can be returned and asked about again (`workflow/engine.py:189`);
  the reviewer's panel says it can only be commented on or rejected
  (`ParkedOnlyCommentedOrRejected`).
* A licence may be marked as alerted of its expiry without an alert, when the
  worker dies between the two (`lic/tasks.py:32`; `ExpiredMeansAlerted`).
* Overlapping assessment forms leave the application in another unit than its
  assessment (`lic/views.py:148`; `ApplicationHasAssessedUnit`).
* The volume typed at approval reaches nobody (`workflow/views.py:61`;
  `GrantsTypedVolume`).
* A re-grade decides by a copy whether it must leave a history
  (`obs/services.py:88`; `RegradeIsTraced`).
* `RecordHistory` is read newest first by `approved_at`, which `promote` takes
  before it reads and locks the row (`submissions/promotion.py:100`): of two
  corrections that overlap, the newest entry need not give the current value,
  and both may start from the same old one (`NewestIsCurrent`).
* Seeding the demonstration is "idempotent" (`seed_demo_data.py:109`,
  `docs/deployment.md:30`): it is refused while a row somebody wrote protects a
  row of it, and the start of the server stops there (`NeverRefused`).
* "Every step is idempotent" (`scripts/entrypoint.sh:9`): after a roll-back of
  `core` or `obs` the views of `reports` that CASCADE took do not come back,
  for their migration stays applied, and the refresh fails (`DeployGetsThrough`,
  with `RolledBack` = core and obs).
* A licence that was renewed after the daily task had listed it goes from
  renewed to expired (`lic/tasks.py:30`). `RenewalLasts` excepts exactly these.
* Two behaviours no text forbids: the retry of a failed upload makes a second
  item in DSpace, and an email whose confirmation is lost goes out twice.

## 5. What is proved

The eight modules `*Proofs` prove, for every value of the constants that
satisfies the named assumptions:

* engine: `TypeCorrect`, `LogDecides`, `LogWalks`, `StageClockRight` (the log of
  an instance and the instance agree, the log is a walk, the clock is right);
  `NoStageIsSkipped` (if stages return items only to earlier stages,
  `ReturnsGoBack`, no item passes a stage that does not stand approved);
  `NotApprovedWhileParked`; `QueueMatchesApprove` and `ApprovedFromQueue` (the
  queue lists exactly the items whose reader passes the checks of approve, and
  nobody approves what is not in his queue); `EngineIsAReviewCase` (refinement
  of `ReviewCase`, which has no fairness);
* licence register: `LicenceRegisterTypes`, `LicencesNumberedInOrder`,
  `WellsShowLatest`, `WarnedWereAlerted`, `RenewalsLast`, `NothingExpiresEarly`,
  for any number of licences, deliveries, lead times and crashes;
* licence review: `ReviewTypesHold`, `DecisionsAgree`, `VolumesOnRecord`,
  `AssessedFirst` (if returns go back and the workflow has an assessment stage);
  `PagesRunTheEngine` and `ApprovalsRunTheRegister`: every behaviour of the
  review is one of the engine and one of the register, so that
  `GrantsAreNumbered`, `WellsShowGrants` and `ApplicationsAreCases` carry over
  what is proved of those: the licences granted bear the numbers 1 to n, a well
  shows its latest one, a review is a `ReviewCase`;
* submissions: `SubmissionTypesHold`, `ApprovalsPublish`, `StatusesFollow`,
  `NoDuplicates`, `CorrectionsOnRecord` (unless the target is the generic
  record: `~Generic`), `OnlyReviewed`, `PublishedAsCounted` (an approval
  publishes as many rows as were counted accepted or flagged), and
  `SubmissionsRunTheEngine`, `PromotionsRunTheRecords`, `SubmissionsAreCases` in
  the same way;
* from end to end, out of those: `NothingGrantedUnreviewed` and
  `NothingPublishedUnreviewed`. If returns go back, then behind every licence,
  and behind every row of the database that came with a submission, stands an
  approval of each stage by somebody entitled to it;
* records: `RecordsTypeCorrect`, `CorrectionsAccount`, `HistoryRooted`,
  `ApprovalIsForGood` (the history of an observation accounts for its value, no
  approval is taken back), `RowsCountedOnce` (no row is counted by two periods);
* tasks: `RowsAreFound`, `NoneForgotten`, `SentOnRecord`: a task in anybody's
  hand has a committed row, a task in nobody's hand has left its result or its
  trace, and what is on record as sent is not sent again; `ArchivedAreThere`: a
  handle names an item of the right application that holds the document;
* catalog: `PublishedAlone`, `SchemaIsOfFields`: the two properties of a
  category, for any number of administrators, fields, versions and forms;
* dashboards: `PassesApart` and `PassesFresh`: the lock keeps guarded passes
  apart, for any times, and a pass that met no other leaves every view fresh,
  for any views that read earlier ones;
* accounts: `OnlyAwaySwept`, `RemovedStays`: whom the sweep takes, and that it
  lasts, for any number of clients, requests and sweeps;
* numbering by itself: `NumbersStayApart`, with any callers inside a transaction
  (licences) and outside one (application references);
* deployment: `DeployInvariant`, `TablesAlwaysStand`, `SchemaStaysDeclared`,
  `PlanAlwaysFinds`, `RollbackIsConfined`: for the migrations of the repository,
  whichever apps are rolled back, however often and wherever it stops.

`OperationsProofs` holds the proofs about `BackgroundTasks` and `Deployment`,
`TablesProofs` those about `ObservationRecords`, `CategoryVersions` and
`NumberSequence`; the other modules are named for theirs.

*The engine.* `LogDecidesState` alone is not inductive: to know what an action
appends one must know where the item stands. `LogInv` joins `TypeOK`,
`LogDecidesState`, `LogEndsHere` (the last row of an open item ends at its
stage) and `LogIsAWalk`. `StepEffect` states once what any action does to the
instance and to its log: one row is appended, from the current stage to the
next. Each part of the invariant then follows from that effect without going
through the actions again. `NoStageSkipped` needs `SignOffLasts` (an approval
stands until the item goes back behind it), `ApprovalSignsOff`, and that the
next stage leaves none between (`StageOrder`). `ParkedNotApproved` follows from
`LogDecidesState`: an approval needs the state `in_progress`, which contradicts
a last decision that asked for information. That the queue lists what can be
approved rests on `FinalOrNext`: a stage is the last one or has a next one, for
a set of orders has a least element. `EngineKeeps` and `EngineRests` say what the
modules that call the engine need of it: its step keeps `LogInv` and moves one
item, whatever else the page does in the same transaction.

*The licence register.* `RegisterInv` joins the types, `Drawing` (a number in
hand is the next one, with the lock, for a licence still to be issued),
`UpToValue`, `IssuedNumbered`, `WellShowsLatest`, and three parts for the
deliveries of the daily task, which work on licences as they loaded them:
`TodoIsTrue` (the warnings a loaded licence carries went out), `TodoIsOver` (what
is to expire had run out when the delivery began) and `AlertedIssued`. Without
`TodoIsTrue` the invariant `WarnedMeansAlerted` is not inductive: a delivery
saves the list of warnings it loaded, perhaps days ago, over the present one.
`RenewalsLast` needs that what is on a list was active (`RegisterTypes`); a
warning saves no status, and an approval renews or adds licences only.

*The licence review.* `ReviewInv` joins `LogInv`, the types, `Agree` (what the
instance, the application and the register say of an item) and `InFlightOK`: at
most one final approval of an item is in flight (`OneHolds`), what it checked
when it began still holds (`Due`), and a form that found an assessment, or has
saved one, finds it still (`SavesOn`). `Due` is what lets `FinalCommit` be an
engine step although the checks are two steps back; it lasts because the
approval holds the row of the instance. `AssessedPast` is proved from how an
item may move (`Gated`): ahead only through `workflow_can_advance`.

`RegisterProven` shows the register of the review to be one of `LicenceRegister`
with constants of its own (no deliveries of the task, terms of one day), and its
theorems are then instantiated, not proved again.

*The submissions.* `SubmissionInv` has the same frame, with `Founded` (a
correction in flight is of a row that exists), `PublishedOf` (the rows of a
submission in the database are those marked as promoted and inserted) and
`Counted` (`EveryCorrectionOnRecord`, unless the target is generic).
`OnlyReviewed` needs `Sourced` besides: a published row has the value that was
sent unless it has been corrected. `PublishedAsCounted` takes counts along
(`CountOf`): promoting joins two disjoint sets of rows into one. That promotions
are steps of `ObservationRecords` is proved for `EditsInFlight`; the lemma
`EditKept` says what the other requests have in hand while one commits.

*The records.* `RecordsInv` joins `RecordsTypeOK`, `LatestIsCurrent` (the value
is that of the correction saved last), `InOrder` (saves are in the order of the
clock, each after its stamp), `EditsReadLatest` (an edit stamped after the last
save has read what it gave), `EditsAreRooted` (the copy an edit in flight holds
has a value the row has had) and `HistoryIsRooted`. An edit may save a copy that
is long out of date, so `HistoryIsRooted` is not inductive without the two on
edits. `LastCorrectionIsCurrent` follows (`LatestAccounts`): what is dated later
than the correction saved last was saved before it, so the two overlap. Every
step is `Quiet` (values and history stay, as in re-grading, approving, loading)
or `Corrected` (one row changes with one history entry); the invariants are
proved from these two, once each. `ApprovalIsForGood` uses the type invariant: a
correction in flight was loaded from an approved row. `PeriodsCountOnce` says
that the approved rows can be given to periods (`by`) so that each period has as
many as it counts: no row is counted twice. `ApprovePeriod` gives the rows it
approves to the new period, and the sets of the others stay as they were.

*Numbering.* A number in hand is the next one with the lock (`DrawnUnderLock`),
or already within the committed value (`DrawnWithin`), according to whether its
caller is in a transaction; `GivenOnce` adds that numbers in hand and numbers on
rows are all different, which is not inductive without the two.

*The tasks.* Whether a task is forgotten depends on what its workers have come
to. `HandInv` joins the types, `TasksFindTheirRows`, `NothingForgotten` and
`Settled`: a worker stands at `retry` or `done` only with a task that is
finished, has an error or lost a message (`Marked`), at `add` or `archived` only
with an item, and at the steps of its kind of task. So whichever step
takes a task out of the last hand, a mark is there. `WorkerMoves` says once
what a step of a worker does to the hands, `OtherStep` the same for steps that
move none. For the archive, `ArchiveInv` adds that the item a worker has in hand
is one of its document's application and, once the file was added, holds it
(`ItemsInHand`); `ItemsGrow` says that DSpace loses nothing.

*The versions.* A process between "retire" and "save" must still find the
others retired. `VersionsInv` adds to the types, unless it is `contested`: at
most one process is between the two (`Alone`), nothing is published while one is
(`Cleared`), and one version is published at most (`Single`). Of versions that
are not `edited`: what is being published has fields, the schema in memory is
theirs (`HasFields`, `Built`), and so is the one given out (`Told`). `OnRecord`
says what a step must leave alone, or note in `edited`; `ModestStep` covers the
steps that do so and move no publication.

*The refresh.* `LockInv` says that a guarded pass holds the lock for exactly
the time it has left (`Held`) and is the only one (`Apart`). `TakeLock` succeeds
only when the key is gone, so by `Held` no pass can be running in time; `Tick`
advances both sides alike, or some pass is outrun. `FreshInv` says of a pass that
met no other that nobody else refreshes (`NoOther`) and that the views it has been
through count what was in the tables when it began (`MadeFresh`); the view it
reads next depends on earlier ones only (`DependencyOrder`).

*The accounts.* `SweepInv` joins the types with `Known` (requests and pages
hold rows of accounts that exist) and `ListsAreRight`: whoever is on the list of
a sweep is still away or removed, or has come back since and then is in `late`.
`KeptIsRight` reduces a step to what it does to one listed account. `Blanked`
says that a removed account has no usable password, so that no password change
begins with a removed copy and writes it back later.

*The deployment.* `WalkUp` and `WalkDown` are recursive functions, which mean
something only if a function meets their equation. `WalkDefined` proves that for
any walk whose steps lower a rank, by the least number for which there would be
none, and `WalkEnds` that such a walk stops where it should and does not leave a
set its steps stay in; `Depth` is the rank. So `NextUp` waits while all it
depends on is applied (`NextUpIs`), and `NextDown` is applied while nothing that
depends on it is, and rests on what is undone (`NextDownIs`). `DeployInv` joins
the types, among them that what is applied is closed under dependencies, with
`ColumnsFollow` (the columns are those that the applied migrations add, no more
and no fewer) and `UndoingApplied`. For a reversal this is `DroppedIs`: a table
goes with all its columns, and as every migration that adds to a table rests on
the one that creates it (`ColumnsAssumption`), no column of a migration that
stays is among them. The other properties follow from the invariant: what is
`Behind` an applied migration is applied, and a view of `reports` that reads a
table its migration does not depend on finds it, for the plan completes the apps
in alphabetical order (`EarlierApplied`).

*Assumptions*, all evaluated by TLC in the passing runs: stage orders are
distinct naturals (`uq_stage_order`), functions have the domains their names say,
the placeholder for nothing is not a member of the set it stands beside
(`NoLicenceAssumption`, `ReviewAssumption`, `SubmissionAssumption` and the like), a
view reads views that come before it in the list of the refresh
(`DependencyOrder`). Of the migrations, which are one fixed table, the proofs use
what TLC evaluates once: dependencies exist and go down in depth
(`GraphAssumption`), columns are added once, over tables that the migration
rests on (`ColumnsAssumption`), views read what came before (`ViewsAssumption`).
That all migrations together add up to the declared schema is a hypothesis of
`SchemaStaysDeclared`, a formula without variables: the run finds it true
whenever everything is applied. `ReturnsGoBack` is a hypothesis of theorems and no
assumption, for nothing in the code enforces it.

*Only model-checked:*

* liveness (`Lapses`, `TasksEnd`, `DataShown`, `SweptInTheEnd`), for TLAPS has no
  `ENABLED` and so no fairness; for the same reason `QueueIsApprovable` in its form
  with `ENABLED`, in place of which `QueueMatchesApprove` is proved with the checks
  of approve written out;
* `WipeRemovesAll` and `RefusedOnlyIfProtected`: Django's collector is a recursive
  operator over the foreign keys of `Schema`, which are one fixed table;
* what a sum over the parts of a row is (`DoesNotAddUp` in `RowValidation`): the
  theorems about submissions hold whatever the verdict on a row is.

## 6. What is not modelled

* Anomaly statistics, decimal arithmetic, NaN, regular expressions: the
  screening's result is a free choice instead.
* CSV and Excel parsing, forms, JSON schema wording, templates, maps, the SQL
  of KPIs, exports, profiling: they build documents and keep no state.
* Hand editing on the admin pages, which can break any invariant here; the
  forms of the catalog and of the accounts are the exception. Of these a form
  that gives a version another number, and one that makes a client staff, are
  left out, and a save is one step with the reading of its row.
* Second factors, password history and age, API keys, sessions and roles.
* Visibility, synchronisation, milestones and cleansing issues: planned, next
  section.
* Parties, the WMU balance and licence types of the licence module.
* The choice of the users a notification goes to.

## 7. Plan

Order: what decides and publishes first, then what those rest on. Done: engine,
register, licence review, submissions, records, tasks, catalog, deployment,
demonstration, dashboards, accounts. Left:

1. `Visibility` (`core/models.py`, `core/restrict.py`, `opendata/`): visible_to,
   masking and coarsening as operators against a reference definition, over all
   classes, states and roles.
2. `Synchronisation` (`integrations/`): runs, upserts, a failing station.
3. `Milestones`, `CleansingIssues`: two small state machines.
4. `WellStatusEvent.save` (`ref/models.py`), which copies its status to the well,
   and the bootstrap of workflow templates.
5. Composition of `CategoryVersions` with `SubmissionReview`, which takes the
   version of a submission as given so far.

Proofs to come: those about the modules of the list above as they are written.
Modules stay free of `RECURSIVE` where something is to be proved.
