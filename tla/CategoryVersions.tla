--------------------------- MODULE CategoryVersions ---------------------------
(***************************************************************************)
(* The versions of one data category (apps/catalog/models.py), as staff    *)
(* work on them in the admin console (apps/catalog/admin.py), as a deploy  *)
(* seeds them (bootstrap_categories.py) and as submitters read them        *)
(* (apps/submissions/views.py, apps/api/views.py).                         *)
(*                                                                         *)
(* publish and clone_as_draft run statement by statement, without a        *)
(* transaction or a lock, so each statement is a step and a worker may be  *)
(* killed between two of them; a form of the console is read in one        *)
(* request and written, in a transaction, by another, whose own reading of *)
(* the row is not told apart from its writing.                             *)
(***************************************************************************)
EXTENDS Naturals, FiniteSets, FiniteSetsExt

CONSTANTS
    Staff,          \* administrators at work in the console
    Deploy,         \* the process of a schema step
    Fields,         \* columns a version may have
    Rules,          \* cross-field rules a version may have
    MaxVersion,     \* bound: version numbers
    MaxKilled,      \* bound: workers killed in the middle of a request
    MaxForms,       \* bound: forms saved
    MaxSubmitted    \* bound: submissions

ASSUME CategoryAssumption ==
    /\ Deploy \notin Staff
    /\ Fields # {} /\ Fields \cap Rules = {}
    /\ {MaxVersion, MaxKilled, MaxForms, MaxSubmitted} \subseteq Nat /\ MaxVersion > 0

VARIABLES
    status,     \* of each version number: none, draft, published or retired
    entries,    \* its fields and rules
    schema,     \* its json_schema: the fields it was built from
    work,       \* what each process is doing, with the rows it holds in memory
    contested,  \* history: since published versions were last retired a form has published
                \* one, or they were retired while another process was publishing
    edited,     \* history: versions a form has published, or whose entries were written while
                \* they were published or another process was publishing them
    submitted,  \* submissions: the version and the fields its rows were checked with
    killed, forms

vars == <<status, entries, schema, work, contested, edited, submitted, killed, forms>>

Numbers == 1 .. MaxVersion
Statuses == {"none", "draft", "published", "retired"}
Process == Staff \cup {Deploy}
Work == {"idle", "retire", "build", "save", "form", "add", "number", "copy", "seed"}
Existing == {v \in Numbers : status[v] # "none"}
Published == {v \in Numbers : status[v] = "published"}
FieldsOf(v) == entries[v] \cap Fields

(***************************************************************************)
(* A process at work: at which statement, on which version, copied from    *)
(* which, with which entries (the schema it built, or the rows it has      *)
(* still to write).                                                        *)
(***************************************************************************)
Idle == [at |-> "idle", v |-> 1, source |-> 1, rows |-> {}]
At(at, v) == [Idle EXCEPT !.at = at, !.v = v]
Holds(p, at) == work[p].at = at
Becomes(p, w) == work' = [work EXCEPT ![p] = w]

Publishing(p) == work[p].at \in {"retire", "build", "save"}

\* p has retired the published versions and not yet saved its own.
Between(p) == work[p].at \in {"build", "save"}

\* Another process than p is publishing v.
Intrudes(p, v) == \E q \in Process \ {p} : Publishing(q) /\ work[q].v = v

TypeOK ==
    /\ status \in [Numbers -> Statuses]
    /\ entries \in [Numbers -> SUBSET (Fields \cup Rules)]
    /\ schema \in [Numbers -> SUBSET Fields]
    /\ work \in [Process -> [at : Work, v : Numbers, source : Numbers,
                                rows : SUBSET (Fields \cup Rules)]]
    /\ contested \in BOOLEAN /\ edited \subseteq Numbers
    /\ submitted \subseteq [version : Numbers, fields : SUBSET Fields]
    /\ killed \in 0 .. MaxKilled /\ forms \in 0 .. MaxForms

Init ==
    /\ status = [v \in Numbers |-> "none"]
    /\ entries = [v \in Numbers |-> {}]
    /\ schema = [v \in Numbers |-> {}]
    /\ work = [p \in Process |-> Idle]
    /\ contested = FALSE /\ edited = {}
    /\ submitted = {}
    /\ killed = 0 /\ forms = 0

-----------------------------------------------------------------------------
(***************************************************************************)
(* CategoryVersion.publish: the status checked is the one the process      *)
(* loaded; the published versions are retired; the schema is built from    *)
(* the fields; the row is saved, which inserts it again if it was deleted. *)
(***************************************************************************)
\* Fault: a draft without fields may be published.
PublishableEmpty(v) == status[v] = "draft"

Publishable(v) == status[v] = "draft" /\ FieldsOf(v) # {}

\* p sets out to publish v, with whatever entries it has by now.
Fresh(p, v) == edited' = IF status[v] = "published" \/ Intrudes(p, v) THEN edited ELSE edited \ {v}

ChoosePublish(s, v) ==
    /\ Holds(s, "idle") /\ Publishable(v)
    /\ Becomes(s, At("retire", v))
    /\ Fresh(s, v)
    /\ UNCHANGED <<status, entries, schema, contested, submitted, killed, forms>>

\* Fault: only earlier versions would be retired, and the first is never one.
RetiredLater == [v \in Numbers |-> IF status[v] = "published" /\ v > 1 THEN "retired" ELSE status[v]]

Retired == [v \in Numbers |-> IF status[v] = "published" THEN "retired" ELSE status[v]]

Retire(p) ==
    /\ Holds(p, "retire")
    /\ status' = Retired
    /\ Becomes(p, [work[p] EXCEPT !.at = "build"])
    /\ contested' = \E q \in Process \ {p} : Between(q)
    /\ UNCHANGED <<entries, schema, edited, submitted, killed, forms>>

SchemaOf(v) == FieldsOf(v)

BuildSchema(p) ==
    /\ Holds(p, "build")
    /\ Becomes(p, [work[p] EXCEPT !.at = "save", !.rows = SchemaOf(work[p].v)])
    /\ UNCHANGED <<status, entries, schema, contested, edited, submitted, killed, forms>>

SavePublished(p) ==
    /\ Holds(p, "save")
    /\ status' = [status EXCEPT ![work[p].v] = "published"]
    /\ schema' = [schema EXCEPT ![work[p].v] = work[p].rows]
    /\ Becomes(p, Idle)
    /\ UNCHANGED <<entries, contested, edited, submitted, killed, forms>>

-----------------------------------------------------------------------------
(***************************************************************************)
(* clone_as_draft: the number is counted, the row created (the number is   *)
(* unique), then each field and, after the fields, each rule is copied;    *)
(* the copy fails if the row is gone or has a field of that name.          *)
(***************************************************************************)
NextNumber == Cardinality(Existing) + 1

ChooseClone(s, v) ==
    /\ Holds(s, "idle") /\ status[v] # "none" /\ NextNumber \in Numbers
    /\ Becomes(s, [At("number", NextNumber) EXCEPT !.source = v])
    /\ UNCHANGED <<status, entries, schema, contested, edited, submitted, killed, forms>>

\* The source is read again by self.fields.all() once the new row is there.
CreateClone(s) ==
    /\ Holds(s, "number")
    /\ LET n == work[s].v IN
         IF status[n] = "none"
         THEN /\ status' = [status EXCEPT ![n] = "draft"]
              /\ Becomes(s, [At("copy", n) EXCEPT !.rows = entries[work[s].source]])
         ELSE UNCHANGED status /\ Becomes(s, Idle)
    /\ UNCHANGED <<entries, schema, contested, edited, submitted, killed, forms>>

\* The fields of the copied rows come before the rules.
NextRows(rows) == IF rows \cap Fields # {} THEN rows \cap Fields ELSE rows

CopyRow(p) ==
    /\ work[p].at \in {"copy", "seed"} /\ work[p].rows # {}
    /\ \E r \in NextRows(work[p].rows) :
         IF status[work[p].v] = "none" \/ r \in entries[work[p].v] \cap Fields
         THEN Becomes(p, Idle) /\ UNCHANGED entries
         ELSE /\ entries' = [entries EXCEPT ![work[p].v] = @ \cup {r}]
              /\ Becomes(p, [work[p] EXCEPT !.rows = @ \ {r}])
    /\ edited' = IF status[work[p].v] = "published" \/ Intrudes(p, work[p].v)
                 THEN edited \cup {work[p].v} ELSE edited
    /\ UNCHANGED <<status, schema, contested, submitted, killed, forms>>

CloneDone(s) ==
    /\ Holds(s, "copy") /\ work[s].rows = {}
    /\ Becomes(s, Idle)
    /\ UNCHANGED <<status, entries, schema, contested, edited, submitted, killed, forms>>

-----------------------------------------------------------------------------
(***************************************************************************)
(* The forms of CategoryVersionAdmin, and those on the page of the         *)
(* category, are there for every version and to add one. They show the     *)
(* status, which may be set to any other, and the fields and rules inline. *)
(* Saving writes the status of the form, whatever the row has become, and  *)
(* the entries that were changed; the schema, which is not on the form,    *)
(* stays. It is refused when the row is gone, or the new number is taken.  *)
(***************************************************************************)
OpenForm(s, v) ==
    /\ Holds(s, "idle")
    /\ Becomes(s, At(IF status[v] = "none" THEN "add" ELSE "form", v))
    /\ UNCHANGED <<status, entries, schema, contested, edited, submitted, killed, forms>>

WriteForm(s, v, chosen, changed) ==
    LET publishes == chosen = "published" /\ status[v] # "published" IN
    /\ status' = [status EXCEPT ![v] = chosen]
    /\ entries' = [entries EXCEPT ![v] = SymDiff(@, changed)]
    /\ contested' = (contested \/ publishes)
    /\ edited' = IF publishes \/ (changed # {} /\ (chosen = "published" \/ Intrudes(s, v)))
                 THEN edited \cup {v} ELSE edited

SaveForm(s) ==
    /\ work[s].at \in {"form", "add"} /\ forms < MaxForms
    /\ LET v == work[s].v IN
         IF Holds(s, "add") = (status[v] = "none")
         THEN \E chosen \in Statuses \ {"none"}, changed \in SUBSET (Fields \cup Rules) :
                WriteForm(s, v, chosen, changed)
         ELSE UNCHANGED <<status, entries, contested, edited>>
    /\ Becomes(s, Idle)
    /\ forms' = forms + 1
    /\ UNCHANGED <<schema, submitted, killed>>

\* A version with submissions is protected; its fields and rules go with it.
DeleteVersion(s, v) ==
    /\ Holds(s, "idle") /\ status[v] # "none"
    /\ \A sub \in submitted : sub.version # v
    /\ status' = [status EXCEPT ![v] = "none"]
    /\ entries' = [entries EXCEPT ![v] = {}]
    /\ schema' = [schema EXCEPT ![v] = {}]
    /\ edited' = IF Intrudes(s, v) THEN edited \cup {v} ELSE edited
    /\ UNCHANGED <<work, contested, submitted, killed, forms>>

-----------------------------------------------------------------------------
(***************************************************************************)
(* bootstrap_categories._seed, at every deploy: nothing when the category  *)
(* has a version; otherwise version 1, its fields, its rules, publish.     *)
(***************************************************************************)
Seed ==
    /\ Holds(Deploy, "idle") /\ Existing = {}
    /\ status' = [status EXCEPT ![1] = "draft"]
    /\ Becomes(Deploy, [At("seed", 1) EXCEPT !.rows = Fields \cup Rules])
    /\ UNCHANGED <<entries, schema, contested, edited, submitted, killed, forms>>

\* The process checks the row it created itself: a draft, in its memory.
SeedPublish ==
    /\ Holds(Deploy, "seed") /\ work[Deploy].rows = {}
    /\ Becomes(Deploy, IF FieldsOf(1) = {} THEN Idle ELSE At("retire", 1))
    /\ IF FieldsOf(1) = {} THEN UNCHANGED edited ELSE Fresh(Deploy, 1)
    /\ UNCHANGED <<status, entries, schema, contested, submitted, killed, forms>>

\* A worker's time limit, a restart of the server or a failed deploy.
Kill(p) ==
    /\ killed < MaxKilled /\ work[p].at \notin {"idle", "form", "add"}
    /\ killed' = killed + 1
    /\ Becomes(p, Idle)
    /\ UNCHANGED <<status, entries, schema, contested, edited, submitted, forms>>

(***************************************************************************)
(* A submitter's request: current_version is the highest published one;    *)
(* its rows are checked with the fields the version has.                   *)
(***************************************************************************)
CurrentVersion == Max(Published)

Submit ==
    /\ Published # {} /\ Cardinality(submitted) < MaxSubmitted
    /\ submitted' = submitted \cup {[version |-> CurrentVersion, fields |-> FieldsOf(CurrentVersion)]}
    /\ UNCHANGED <<status, entries, schema, work, contested, edited, killed, forms>>

Next ==
    \/ \E s \in Staff :
         \/ \E v \in Numbers : \/ ChoosePublish(s, v) \/ ChooseClone(s, v)
                               \/ OpenForm(s, v) \/ DeleteVersion(s, v)
         \/ CreateClone(s) \/ CloneDone(s) \/ SaveForm(s)
    \/ \E p \in Process : Retire(p) \/ BuildSchema(p) \/ SavePublished(p) \/ CopyRow(p) \/ Kill(p)
    \/ Seed \/ SeedPublish
    \/ Submit

Spec == Init /\ [][Next]_vars

-----------------------------------------------------------------------------
(***************************************************************************)
(* Submitters are offered one version: whatever clones, forms, deletions,  *)
(* killed workers and seeding deploys come between, publishing a version   *)
(* has retired the one before (CategoryVersion.publish), unless it met     *)
(* another publication on the way. Only a form that publishes, by setting  *)
(* the status, leaves a second one, until the next publish.                *)
(***************************************************************************)
OnePublished == ~contested => Cardinality(Published) <= 1

(***************************************************************************)
(* models.py:94 "Publish this version and retire the previously published  *)
(* one.": after it there is one. Two that overlap leave two.               *)
(***************************************************************************)
RetiresThePrevious == Cardinality(Published) <= 1

(***************************************************************************)
(* A version on offer has fields, and the schema the API gives out is made *)
(* of the fields its rows are checked with, also after it went back to a   *)
(* draft and was edited (build_json_schema), unless its entries were       *)
(* written after publish had begun, or a form published it.                *)
(***************************************************************************)
SchemaTellsFields == \A v \in Published \ edited : schema[v] = FieldsOf(v) /\ schema[v] # {}

(***************************************************************************)
(* models.py:72 "Immutable-once-published field list and rules for a       *)
(* category": what rows were checked with is what the version still has.   *)
(* It is not: the forms do not stop at a draft.                            *)
(***************************************************************************)
ImmutableOncePublished == \A sub \in submitted : sub.fields = FieldsOf(sub.version)
=============================================================================
