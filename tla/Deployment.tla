----------------------------- MODULE Deployment -----------------------------
(***************************************************************************)
(* The schema step of a deployment and the rollback of one                 *)
(* (src/scripts/entrypoint.sh, src/docs/deployment.md): the migrations run *)
(* in the order of Django's plan, each in a transaction of its own, the    *)
(* bi views are refreshed, and an operator may roll an app back to an      *)
(* earlier migration.  Both may be interrupted between two transactions.   *)
(*                                                                         *)
(* PostgreSQL drops a table or a column with CASCADE, which takes the      *)
(* views that read it along.  The tables of Django's own apps and of axes  *)
(* always exist here (Schema!External).                                    *)
(***************************************************************************)
EXTENDS Schema, Migrations, FiniteSetsExt

CONSTANTS
    RolledBack,   \* bound: the apps that an operator rolls back
    MaxRollbacks  \* bound: rollbacks between two complete runs of migrate

ASSUME RollbacksAssumption == MaxRollbacks \in Nat

VARIABLES
    applied,    \* the migrations on record as applied (django_migrations)
    columns,    \* the columns of the database
    views,      \* the views of the schema bi
    step,       \* what is under way
    undoing,    \* the migration a rollback goes back before
    rollbacks   \* how many rollbacks were begun since everything was applied

vars == <<applied, columns, views, step, undoing, rollbacks>>
db == <<applied, columns, views>>

Named == UNION {{<<Apps[i], n>> : n \in DOMAIN History[Apps[i]]} : i \in DOMAIN Apps}

Nothing == <<"", 0>>

Effect(m) == History[m[1]][m[2]]

\* What a migration depends on: the one before it in its app, and those it names
After(m) == Effect(m).after \cup (IF m[2] > 1 THEN {<<m[1], m[2] - 1>>} ELSE {})

\* The tables that a migration creates
Creates(m) == {c.table : c \in {a \in Effect(m).adds : a.column = "id"}}

\* The longest chain of dependencies below a migration
Depth[m \in Named] == IF After(m) = {} THEN 0 ELSE 1 + Max({Depth[d] : d \in After(m)})

\* A migration with everything it rests on
Behind[m \in Named] == {m} \cup UNION {Behind[d] : d \in After(m)}

AppIndex(a) == CHOOSE i \in DOMAIN Apps : Apps[i] = a

\* Django refuses a graph in which a dependency is missing or a chain of them comes back
ASSUME GraphAssumption ==
    \A m \in Named : Depth[m] \in 0..99 /\ \A d \in After(m) : d \in Named /\ Depth[d] < Depth[m]

\* A column is added once.  The migrations that create its table and the table it references
\* are among those its own rests on
ASSUME ColumnsAssumption ==
    \A m \in Named : \A c \in Effect(m).adds :
        /\ \E d \in Behind[m] : c.table \in Creates(d)
        /\ c.target \in {""} \cup External \/ \E d \in Behind[m] : c.target \in Creates(d)
        /\ \A n \in Named : c.table \in Creates(n) => n \in Behind[m]
        /\ \A n \in Named \ {m} : c \notin Effect(n).adds

\* What a view reads comes from its own migration, from one that its own rests on, or from an
\* app that the plan takes before: core and catalog before reports.  No other app rests on one
\* that creates views
ASSUME ViewsAssumption ==
    \A m \in Named :
        /\ \A v \in Effect(m).views : \A r \in v.reads :
               \/ r \in {<<t, "id">> : t \in External} \cup {<<w.name, "view">> : w \in Effect(m).views}
               \/ \E n \in Named : /\ n \in Behind[m] \/ AppIndex(n[1]) < AppIndex(m[1])
                                  /\ \E c \in Effect(n).adds : r = <<c.table, c.column>>
        /\ Effect(m).views # {} => \A n \in Named : m \in Behind[n] => n[1] = m[1]

Precedes(m, n) == AppIndex(m[1]) < AppIndex(n[1]) \/ (m[1] = n[1] /\ m[2] <= n[2])
\* The last of some migrations by app and number
LastOf(S) == CHOOSE m \in S : \A n \in S : Precedes(n, m)

TypeOK ==
    /\ applied \subseteq Named
    /\ \A m \in applied : After(m) \subseteq applied
    /\ columns \subseteq UNION {Effect(m).adds : m \in Named}
    /\ views \subseteq UNION {Effect(m).views \cup Effect(m).restores : m \in Named}
    /\ step \in {"idle", "migrate", "rollback", "refresh", "served", "stopped"}
    /\ undoing \in Named \cup {Nothing}
    /\ (step = "rollback") = (undoing # Nothing)
    /\ rollbacks \in 0..MaxRollbacks

---------------------------------------------------------------------------

Exists(cs) == {<<c.table, c.column>> : c \in cs} \cup {<<t, "id">> : t \in External}
ViewNames(vs) == {<<v.name, "view">> : v \in vs}

\* What is left of vs when only the columns cs remain: views that read a view come last
Standing(cs, vs) ==
    LET there == Exists(cs)
        overTables == {v \in vs : \A r \in v.reads : r[2] = "view" \/ r \in there}
        plain == {v \in overTables : \A r \in v.reads : r[2] # "view"}
    IN  {v \in overTables : \A r \in v.reads : r[2] = "view" => r \in ViewNames(plain)}

\* The database has everything that m names
Finds(m) ==
    LET e == Effect(m)
        there == Exists(columns \cup e.adds)
        shown == ViewNames(views \cup e.views)
    IN  /\ \A c \in e.adds : <<c.table, "id">> \in there /\ (c.target = "" \/ <<c.target, "id">> \in there)
        /\ \A v \in e.views : \A r \in v.reads : r \in there \/ r \in shown

\* DROP VIEW IF EXISTS and CREATE, or CREATE IF NOT EXISTS of views that do not exist
Replace(vs, new) == {v \in vs : \A w \in new : v.name # w.name} \cup new

Waiting == Named \ applied

\* The apps whose last migration is not applied, as indexes of Apps
OpenApps == {i \in DOMAIN Apps : <<Apps[i], Len(History[Apps[i]])>> \in Waiting}

\* The plan goes through the apps in alphabetical order
FirstOpen == CHOOSE i \in OpenApps : \A j \in OpenApps : i <= j

\* A depth-first walk into the dependencies that wait, the last one first
WalkUp[m \in Named] == IF After(m) \subseteq applied THEN m ELSE WalkUp[LastOf(After(m) \cap Waiting)]

\* What migrate --noinput applies next: the walk from the last migration of the first app that
\* is behind
NextUp == WalkUp[<<Apps[FirstOpen], Len(History[Apps[FirstOpen]])>>]

Apply ==
    /\ step = "migrate"
    /\ Waiting # {}
    /\ LET m == NextUp
       IN  /\ Finds(m)
           /\ applied' = applied \cup {m}
           /\ columns' = columns \cup Effect(m).adds
           /\ views' = Replace(views, Effect(m).views)
    /\ UNCHANGED <<step, undoing, rollbacks>>

\* The columns that remain when m is reversed: tables go with all their columns
Dropped(m) == {c \in columns \ Effect(m).adds : c.table \notin Creates(m)}

\* migrate <app> <earlier>: everything that rests on what is undone goes first
MigrateBack(m) ==
    /\ step \in {"idle", "served", "stopped"}
    /\ rollbacks < MaxRollbacks
    /\ m \in applied
    /\ m[1] \in RolledBack
    /\ undoing' = m
    /\ step' = "rollback"
    /\ rollbacks' = rollbacks + 1
    /\ UNCHANGED db

\* Fault: a rollback keeps to its app
NextDownAlone == <<undoing[1], CHOOSE n \in 1..9 : <<undoing[1], n>> \in applied /\ <<undoing[1], n + 1>> \notin applied>>

\* The applied migrations that depend on m
Dependents(m) == {d \in applied : m \in After(d)}

\* The same walk the other way, into what is applied and depends on m
WalkDown[m \in Named] == IF Dependents(m) = {} THEN m ELSE WalkDown[LastOf(Dependents(m))]

\* What a rollback reverses next
NextDown == WalkDown[undoing]

\* The views of a migration are dropped by name, and those it replaced come back; when the SQL
\* that brings one back finds a table missing, the transaction fails and the rollback ends
Reverse ==
    /\ step = "rollback"
    /\ LET m == NextDown
           left == Dropped(m)
           kept == {v \in Standing(left, views) : \A w \in Effect(m).views : v.name # w.name}
           fails == \E v \in Effect(m).restores : ~(v.reads \subseteq Exists(left))
       IN  /\ IF fails THEN UNCHANGED db
              ELSE /\ applied' = applied \ {m}
                   /\ columns' = left
                   /\ views' = Replace(kept, Effect(m).restores)
           /\ IF fails \/ m = undoing
              THEN step' = "idle" /\ undoing' = Nothing
              ELSE UNCHANGED <<step, undoing>>
    /\ UNCHANGED rollbacks

---------------------------------------------------------------------------

\* entrypoint.sh begins; the steps between migrate and the refresh only fill tables
Begin == step \in {"idle", "served", "stopped"} /\ step' = "migrate" /\ UNCHANGED <<db, undoing, rollbacks>>

Migrated ==
    /\ step = "migrate"
    /\ Waiting = {}
    /\ step' = "refresh"
    /\ rollbacks' = 0
    /\ UNCHANGED <<db, undoing>>

\* REFRESH MATERIALIZED VIEW of one that is missing fails, and set -e ends the step
Refresh ==
    /\ step = "refresh"
    /\ step' = IF \A i \in DOMAIN BIViews : <<BIViews[i], "view">> \in ViewNames(views) THEN "served" ELSE "stopped"
    /\ UNCHANGED <<db, undoing, rollbacks>>

Interrupt ==
    /\ step \in {"migrate", "refresh", "rollback"}
    /\ step' = "idle"
    /\ undoing' = Nothing
    /\ UNCHANGED <<db, rollbacks>>

Init == applied = {} /\ columns = {} /\ views = {} /\ step = "idle" /\ undoing = Nothing /\ rollbacks = 0

Next ==
    \/ \E m \in Named : MigrateBack(m)
    \/ Reverse
    \/ Begin
    \/ Apply
    \/ Migrated
    \/ Refresh
    \/ Interrupt

Spec == Init /\ [][Next]_vars

---------------------------------------------------------------------------

\* Every column that an applied migration added is there, and so is the table it references: a
\* rollback of some apps never takes a table from under the others, in whatever order it goes
TablesStand ==
    LET there == Exists(columns)
    IN  \A m \in applied : \A c \in Effect(m).adds :
            c \in columns /\ (c.target # "" => <<c.target, "id">> \in there)

\* Whatever a rollback or an interruption left, the next migration of the plan finds the tables,
\* the columns and the views it names, those it declares no dependency on included
PlanFindsItsTables == step = "migrate" /\ Waiting # {} => Finds(NextUp)

\* Only a rollback takes a migration off the record, and only one that rests on what it undoes:
\* the walk down never strays to a migration that could have stayed
ReversesOnlyWhatRests == [][\A m \in applied \ applied' : step = "rollback" /\ undoing \in Behind[m]]_vars

\* These columns are the tables and the foreign keys that the model classes declare
Declares(cs) ==
    /\ {c.table : c \in cs} = DOMAIN Declared
    /\ \A t \in DOMAIN Declared :
           {<<c.column, c.target>> : c \in {d \in cs : d.table = t /\ d.target # ""}}
           = {<<k.column, k.target>> : k \in Declared[t]}

\* When nothing is left to migrate, the tables and their foreign keys are those the model classes
\* declare, on a fresh database as after a rollback
SchemaIsDeclared == applied = Named => Declares(columns)

\* "Roll back = previous tag" and "every step is idempotent": the deployment that follows a
\* rollback gets through its refresh (violated: a view dropped by CASCADE is not created again
\* while the migration that made it stays applied)
DeployGetsThrough == step # "stopped"
=============================================================================
