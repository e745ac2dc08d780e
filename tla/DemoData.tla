------------------------------ MODULE DemoData ------------------------------
(***************************************************************************)
(* The demonstration data set: seed_demo_data.py builds, rebuilds, removes *)
(* and upgrades it, each in one transaction, among the rows that staff and *)
(* clients write while it is shown.                                        *)
(*                                                                         *)
(* One row stands for all the rows of a kind the command makes. A row is   *)
(* deleted as Django does it, by the rules the foreign keys declare        *)
(* (Schema); a generic reference ("object") has none. Lookup tables, units *)
(* and groups are always there and left out.                               *)
(***************************************************************************)
EXTENDS Schema, FiniteSets, Sequences, SequencesExt

CONSTANTS
    Written,    \* the kinds of rows that staff and clients may write
    MaxWritten  \* bound: how many of them at a time

VARIABLES
    rows,    \* the rows there are, by name
    links,   \* their references: <<row, column, row>>
    outcome  \* how the command just ended, none after another step

vars == <<rows, links, outcome>>

\* A row whose own name, code or summary starts with DEMO; refs are <<column, row>>.
Demo(table, refs) == [table |-> table, refs |-> refs, named |-> TRUE]
\* A row that does not say so.
Plain(table, refs) == [table |-> table, refs |-> refs, named |-> FALSE]

-----------------------------------------------------------------------------
(***************************************************************************)
(* What the command builds (_users, _sites, _applications_and_licences,    *)
(* _observations, _field_records, _submissions, _model_output and          *)
(* _anomaly_submission).                                                   *)
(***************************************************************************)
Users == "demo client" :> Demo("User", {<<"party", "client party">>})
      @@ "client party" :> Demo("Party", {})

Sites == "driller" :> Demo("Party", {}) @@ "laboratory" :> Demo("Party", {}) @@ "owner" :> Demo("Party", {})
      @@ "well" :> Demo("Well", {<<"aquifer", "aquifer">>, <<"current_owner", "owner">>, <<"driller", "driller">>})
      @@ "casing" :> Plain("WellCasing", {<<"well", "well">>})
      @@ "pump test" :> Plain("WellPumpTest", {<<"well", "well">>, <<"tested_by", "driller">>})
      @@ "well event" :> Plain("WellStatusEvent", {<<"well", "well">>})
      @@ "datum" :> Plain("ReferencePoint", {<<"well", "well">>})
      @@ "station" :> Demo("StreamflowStation", {}) @@ "spring" :> Demo("Spring", {})

\* What later releases added, which an upgrade also creates
CleansingQueue == "issue" :> Demo("CleansingIssue", {})
Documents == "publication" :> Demo("PublishedDocument", {})
Assessments ==
    "assessment" :> Plain("TechnicalAssessment", {<<"application", "open application">>, <<"aquifer", "aquifer">>})
Additions == "aquifer" :> Demo("Aquifer", {}) @@ CleansingQueue @@ Documents @@ Assessments

Licensing ==
    "applicant" :> Demo("Party", {})
 @@ "application" :> Demo("LicenceApplication", {<<"applicant", "applicant">>, <<"well", "well">>})
 @@ "licence" :> Demo("Licence", {<<"application", "application">>, <<"licensee", "applicant">>, <<"well", "well">>})
 @@ "open application" :> Demo("LicenceApplication", {<<"applicant", "client party">>, <<"applicant_user", "demo client">>, <<"well", "well">>})
 @@ "open review" :> Demo("WorkflowInstance", {<<"object", "open application">>, <<"submitter", "demo client">>})

Series ==
    "level" :> Plain("WellWaterLevel", {<<"well", "well">>})
 @@ "reading" :> Plain("StationReading", {<<"station", "station">>})
 @@ "return" :> Plain("AbstractionRecord", {<<"licence", "licence">>, <<"well", "well">>})
 @@ "well sample" :> Plain("WaterQualitySample", {<<"well", "well">>, <<"laboratory", "laboratory">>})
 @@ "spring sample" :> Plain("WaterQualitySample", {<<"spring", "spring">>, <<"laboratory", "laboratory">>})
 @@ "stream sample" :> Plain("WaterQualitySample", {<<"station", "station">>, <<"laboratory", "laboratory">>})
 @@ "level period" :> Plain("ApprovalPeriod", {<<"well", "well">>})
 @@ "stage period" :> Plain("ApprovalPeriod", {<<"station", "station">>})

FieldRecords == "logger" :> Demo("Instrument", {})
             @@ "installation" :> Plain("InstrumentInstallation", {<<"instrument", "logger">>, <<"well", "well">>})
             @@ "visit" :> Plain("SiteVisit", {<<"station", "station">>})

\* The months of submissions are rows only; the laboratory's goes through the review.
Submissions ==
    "batch" :> Plain("Submission", {<<"submitter", "demo client">>, <<"party", "client party">>})
 @@ "batch rows" :> Plain("SubmissionRecord", {<<"submission", "batch">>})

LabResults ==
    "lab results" :> Plain("Submission", {<<"submitter", "demo client">>, <<"party", "client party">>})
 @@ "lab rows" :> Plain("SubmissionRecord", {<<"submission", "lab results">>})
 @@ "lab review" :> Plain("WorkflowInstance", {<<"object", "lab results">>, <<"submitter", "demo client">>})

ModelOutputs == "run" :> Demo("ModelRun", {<<"calibration_station", "station">>})
             @@ "output" :> Plain("ModelOutput", {<<"run", "run">>, <<"station", "station">>})

DemoSet == Users @@ Sites @@ Additions @@ Licensing @@ Series @@ FieldRecords @@ Submissions @@ LabResults @@ ModelOutputs
Kept == DOMAIN Users

(***************************************************************************)
(* What is there beside it, and what is written on it: through the client  *)
(* pages (apps/lic, apps/submissions), the review of submitted rows        *)
(* (promotion.py) and the admin console.                                   *)
(***************************************************************************)
Register == "real well" :> Plain("Well", {}) @@ "real run" :> Plain("ModelRun", {})

WrittenRows ==
    "own application" :> Plain("LicenceApplication", {<<"well", "well">>})
 @@ "named application" :> Demo("LicenceApplication", {<<"applicant", "client party">>, <<"well", "well">>})
 @@ "named review" :> Plain("WorkflowInstance", {<<"object", "named application">>})
 @@ "named licence" :> Demo("Licence", {<<"application", "named application">>, <<"licensee", "client party">>, <<"well", "well">>})
 @@ "licensed return" :> Plain("AbstractionRecord", {<<"licence", "licence">>})
 @@ "unlicensed return" :> Plain("AbstractionRecord", {<<"well", "well">>})
 @@ "reviewed level" :> Plain("WellWaterLevel", {<<"well", "well">>})
 @@ "other row" :> Plain("GenericRecord", {<<"station", "station">>})
 @@ "uploaded output" :> Plain("ModelOutput", {<<"run", "real run">>, <<"well", "well">>})
 @@ "correction" :> Plain("Submission", {<<"submitter", "demo client">>})
 @@ "history" :> Plain("RecordHistory", {<<"object", "level">>, <<"submission", "correction">>})
 @@ "replacing well" :> Plain("Well", {<<"replaces", "well">>, <<"current_owner", "owner">>})
 @@ "well in aquifer" :> Plain("Well", {<<"aquifer", "aquifer">>})
 @@ "moved logger" :> Plain("InstrumentInstallation", {<<"instrument", "logger">>, <<"well", "real well">>})
 @@ "inspection" :> Plain("SiteVisit", {<<"well", "real well">>, <<"instrument", "logger">>})

ASSUME WrittenAssumption == Written \subseteq DOMAIN WrittenRows /\ MaxWritten \in Nat

Row == DemoSet @@ Register @@ WrittenRows
Refs(S) == UNION {{<<r, ref[1], ref[2]>> : ref \in Row[r].refs} : r \in S}

\* Nothing of the demonstration yet, or what a release before the additions made of it
Init ==
    /\ rows \in {DOMAIN Register, DOMAIN Register \cup (DOMAIN DemoSet \ DOMAIN Additions)}
    /\ links = {l \in Refs(rows) : l[3] \in rows}
    /\ outcome = "none"

TypeOK ==
    /\ rows \subseteq DOMAIN Row
    /\ links \subseteq Refs(DOMAIN Row)
    /\ outcome \in {"none", "wiped", "built", "upgraded", "refused"}

-----------------------------------------------------------------------------
(***************************************************************************)
(* Deletion. A database is [rows, links, ok]; ok is FALSE once a protected *)
(* row was to be deleted, which rolls the transaction back.                *)
(***************************************************************************)
Rules(r, column) == {k.rule : k \in {d \in Declared[Row[r].table] : d.column = column}}

Under(rule) == {l \in Refs(DOMAIN Row) : rule \in Rules(l[1], l[2])}
Cascading == Under("CASCADE")
Protecting == Under("PROTECT")
Clearing == Under("SET_NULL")

\* The links to S among some
Held(db, S, some) == {l \in db.links \cap some : l[3] \in S}

RECURSIVE WithCascade(_, _)
WithCascade(db, S) ==
    LET more == S \cup {l[1] : l \in Held(db, S, Cascading)}
    IN  IF more = S THEN S ELSE WithCascade(db, more)

\* The collector refuses a protected row even if the row that protects it goes too.
Delete(db, S) ==
    LET gone == WithCascade(db, S)
        cleared == Held(db, gone, Clearing)
    IN  [rows |-> db.rows \ gone,
         links |-> {l \in db.links : l[1] \notin gone} \ cleared,
         ok |-> db.ok /\ Held(db, gone, Protecting) = {}]

(***************************************************************************)
(* The rows of a table from which a path of columns leads to a row with a  *)
(* name of the demonstration (the filters of _wipe, all but the last).     *)
(***************************************************************************)
Of(db, table) == {r \in db.rows : Row[r].table = table}
Reaches(db, r, path) ==
    LET ends == FoldLeft(LAMBDA S, c : {l[3] : l \in {k \in db.links : k[1] \in S /\ k[2] = c}}, {r}, path)
    IN  \E e \in ends : Row[e].named

Filtered(db, step) == {r \in Of(db, step[1]) : Reaches(db, r, step[2])} \ Kept

\* Reviews whose subject no longer exists
Orphans(db) == {r \in Of(db, "WorkflowInstance") : \A l \in db.links : l[1] = r /\ l[2] = "object" => l[3] \notin db.rows}

\* _wipe, in the order of its statements
\* Fault: the queue of cleansing issues is forgotten.
FindingsForgotten == <<>>

Findings == << <<"CleansingIssue", <<>> >> >>

BeforePrune == << <<"ModelRun", <<>> >> >> \o Findings \o <<
    <<"PublishedDocument", <<>> >>,
    <<"ApprovalPeriod", <<"well">> >>, <<"ApprovalPeriod", <<"station">> >>,
    <<"WellWaterLevel", <<"well">> >>, <<"StationReading", <<"station">> >>,
    <<"WaterQualitySample", <<"well">> >>, <<"WaterQualitySample", <<"station">> >>, <<"WaterQualitySample", <<"spring">> >>,
    <<"Submission", <<"submitter">> >> >>

\* Fault: the applications go before the licences granted on them.
LicensingStepsSwapped == <<
    <<"AbstractionRecord", <<"licence", "application">> >>, <<"WorkflowInstance", <<>> >>,
    <<"LicenceApplication", <<>> >>, <<"Licence", <<"application">> >> >>

LicensingSteps == <<
    <<"AbstractionRecord", <<"licence", "application">> >>, <<"Licence", <<"application">> >>,
    <<"WorkflowInstance", <<>> >>, <<"LicenceApplication", <<>> >> >>
SiteSteps == <<
    <<"Aquifer", <<>> >>, <<"InstrumentInstallation", <<"instrument">> >>, <<"Instrument", <<>> >>,
    <<"Well", <<>> >>, <<"StreamflowStation", <<>> >>, <<"Spring", <<>> >>, <<"Party", <<>> >> >>

DeleteAll(db, steps) == FoldLeft(LAMBDA d, s : Delete(d, Filtered(d, s)), db, steps)

Prune(db) == Delete(db, Orphans(db))

\* Well...update(aquifer=None), for the demo wells
Unassigned(db) ==
    [db EXCEPT !.links = {l \in @ : ~(l[2] = "aquifer" /\ Row[l[1]].table = "Well" /\ Row[l[1]].named)}]

Database == [rows |-> rows, links |-> links, ok |-> TRUE]
Wiped == DeleteAll(Unassigned(DeleteAll(Prune(DeleteAll(Database, BeforePrune)), LicensingSteps)), SiteSteps)

\* get_or_create of what is missing
WithRows(db, S) == [db EXCEPT !.rows = @ \cup S, !.links = @ \cup Refs(S \ db.rows)]
Built == WithRows(Wiped, DOMAIN DemoSet)

-----------------------------------------------------------------------------
Commit(db, how) ==
    IF db.ok THEN rows' = db.rows /\ links' = db.links /\ outcome' = how
             ELSE UNCHANGED <<rows, links>> /\ outcome' = "refused"

\* seed_demo_data --wipe
Wipe == Commit(Wiped, "wiped")

\* seed_demo_data --force, which an entrypoint with DEMO_DATA=reseed runs
Rebuild == Commit(Built, "built")

(***************************************************************************)
(* seed_demo_data --force --if-missing, at every start with DEMO_DATA=1:   *)
(* the accounts are refreshed, orphaned reviews removed, and what the      *)
(* current release adds is created (_upgrade_existing). The demo wells     *)
(* without an aquifer get theirs; an assessment is recorded on a review    *)
(* that is still open.                                                     *)
(***************************************************************************)
DemoWells == {r \in rows : Row[r].table = "Well" /\ Row[r].named}

Upgraded ==
    LET pruned == Prune(WithRows(Database, DOMAIN Users))
        wanted == (DOMAIN Additions \ {"assessment"})
                  \cup {a \in {"assessment"} : {"open review", "open application"} \subseteq pruned.rows}
        made == WithRows(pruned, wanted)
    IN  IF "aquifer" \in rows THEN made
        ELSE [made EXCEPT !.links = @ \cup {<<w, "aquifer", "aquifer">> : w \in DemoWells}]

UpgradeOrBuild == IF DemoWells # {} THEN Commit(Upgraded, "upgraded") ELSE Commit(Built, "built")

\* Somebody writes a row: its references must exist (foreign keys are checked).
WriteRow(r) ==
    /\ r \in Written \ rows
    /\ Cardinality(rows \cap Written) < MaxWritten
    /\ \A l \in Refs({r}) : l[3] \in rows
    /\ rows' = rows \cup {r} /\ links' = links \cup Refs({r})
    /\ outcome' = "none"

\* Staff delete a row in the admin console, which refuses a protected one.
RemoveRow(r) ==
    /\ r \in rows \cap ((Written \cup DOMAIN Additions) \ DOMAIN Users)
    /\ LET db == Delete(Database, {r}) IN db.ok /\ rows' = db.rows /\ links' = db.links
    /\ outcome' = "none"

Next ==
    \/ Wipe \/ Rebuild \/ UpgradeOrBuild
    \/ \E r \in Written : WriteRow(r)
    \/ \E r \in Written \cup DOMAIN Additions : RemoveRow(r)

Spec == Init /\ [][Next]_vars

-----------------------------------------------------------------------------
NamedRows == {r \in DOMAIN Row : Row[r].named} \ Kept

(***************************************************************************)
(* A removal, and the removal a rebuilding starts with, leave nothing of   *)
(* the demonstration but the accounts it keeps, whatever was written on it *)
(* ("--wipe removes it", docs/hydrology.md; _wipe).                        *)
(***************************************************************************)
WipeRemovesAll ==
    [][/\ outcome' = "wiped" => rows' \cap (NamedRows \cup (DOMAIN DemoSet \ Kept)) = {}
       /\ outcome' = "built" => rows' \cap (NamedRows \cup DOMAIN DemoSet) = DOMAIN DemoSet \cup (rows' \cap Kept)]_vars

(***************************************************************************)
(* It is refused only when somebody wrote a row that protects a row of the *)
(* demonstration and that no statement of _wipe looks for: its own rows    *)
(* are deleted in an order in which none stops another.                    *)
(***************************************************************************)
Steps == BeforePrune \o LicensingSteps \o SiteSteps
LookedFor == UNION {Filtered(Database, Steps[i]) : i \in DOMAIN Steps}
Protectors == {l[1] : l \in Held(Database, NamedRows, Protecting)} \ LookedFor

RefusedOnlyIfProtected == [][outcome' = "refused" => Protectors \cap Written # {}]_vars

(***************************************************************************)
(* No run deletes a well, a model run, a visit or a correction's history   *)
(* that is not the demonstration's own, though a demonstration row it      *)
(* references goes (the foreign keys of ref/models.py and obs/models.py).  *)
(***************************************************************************)
Lasting == {r \in DOMAIN Register \cup DOMAIN WrittenRows :
              Row[r].table \in {"Well", "ModelRun", "SiteVisit", "RecordHistory"}}

OthersStay == [][outcome' # "none" => rows \cap Lasting \subseteq rows']_vars

(***************************************************************************)
(* After an upgrade of a set that an earlier release made, or that staff   *)
(* deleted parts of, everything the release adds is there and no review is *)
(* without its subject (_upgrade_existing, _prune_orphans).                *)
(***************************************************************************)
UpgradeCatchesUp ==
    [][outcome' = "upgraded" =>
         /\ {"aquifer", "issue", "publication"} \subseteq rows'
         /\ \A w \in DemoWells : <<w, "aquifer", "aquifer">> \in links'
         /\ \A l \in links' : Row[l[1]].table = "WorkflowInstance" /\ l[2] = "object" => l[3] \in rows']_vars

(***************************************************************************)
(* seed_demo_data.py:109 "Idempotent: existing DEMO data is wiped first."  *)
(* and docs/deployment.md:30 "Every part is idempotent.": a run, which the *)
(* start of the server waits for, is never refused.                        *)
(***************************************************************************)
NeverRefused == outcome # "refused"
=============================================================================
