----------------------------- MODULE Dashboards -----------------------------
(***************************************************************************)
(* The materialised views the dashboards read, and what keeps them fresh   *)
(* (apps/reports/services.py, tasks.py, views.py, refresh_bi_views.py).    *)
(*                                                                         *)
(* A dashboard request and the task that beat sends every minute both run  *)
(* refresh_if_stale, under a lock in the cache that lapses after LockTime; *)
(* refresh_bi_views, on a deploy or by hand, refreshes without asking for  *)
(* the lock. A REFRESH reads the tables, and the views its view is made    *)
(* from, when it starts, and replaces the view when it ends; nothing else  *)
(* is read here, so the contents of a view are the oldest state of the     *)
(* tables that it counts.                                                  *)
(***************************************************************************)
EXTENDS Integers, Sequences, FiniteSets, FiniteSetsExt

CONSTANTS
    Watchers,   \* threads and workers that run refresh_if_stale
    Commands,   \* processes that run refresh_bi_views
    BIViews,    \* the views, in the order they are refreshed
    Reads,      \* the views that each view is computed from
    MaxAge,     \* data_refresh_minutes
    LockTime,   \* how long cache.add keeps the lock
    MaxData,    \* bound: how often the tables change
    MaxFaults   \* bound: failed refreshes and killed processes

Refreshers == Watchers \cup Commands
Views == {BIViews[i] : i \in DOMAIN BIViews}

ASSUME RefreshersAssumption == Watchers \cap Commands = {}
ASSUME TimesAssumption == MaxAge \in Nat \ {0} /\ LockTime \in Nat \ {0}
ASSUME BoundsAssumption == MaxData \in Nat /\ MaxFaults \in Nat
ASSUME ViewsAssumption == BIViews \in Seq(STRING) /\ BIViews # <<>> /\ Reads \in [Views -> SUBSET Views]
\* "Every materialised view, in dependency order": a view comes after those it is made from.
ASSUME DependencyOrder ==
    \A i \in DOMAIN BIViews : Reads[BIViews[i]] \subseteq {BIViews[j] : j \in 1 .. i - 1}

VARIABLES
    data,      \* how often the tables have changed
    shows,     \* the oldest state of the tables that a view counts
    stamp,     \* the age of "bi:refreshed_at"; MaxAge or more is stale, as is no stamp at all
    lock,      \* how long "bi:refresh_lock" still stands; 0 when there is none
    pc,        \* idle, checked, between two views, reading one, done, unlocking or orphan
    at,        \* the view of BIViews a pass is at
    snapshot,  \* the state of the tables its REFRESH has read
    since,     \* history: the state of the tables when the pass began
    ran,       \* history: how long it has run, LockTime at most
    alone,     \* history: no other pass ran at any time during this one
    outrun,    \* history: a pass has outlasted its lock since no guarded pass ran
    faults

cache == <<stamp, lock>>
pass == <<at, snapshot, since, ran, alone>>
vars == <<data, shows, cache, pc, pass, outrun, faults>>

Running == {"between", "reading", "done", "unlocking"}
InPass(p) == pc[p] \in Running
\* A statement whose process was killed goes on in the database.
Refreshes(p) == InPass(p) \/ pc[p] = "orphan"
\* The guarded passes under way.
Guarded == {p \in Watchers : InPass(p)}

TypeOK ==
    /\ data \in 0..MaxData /\ shows \in [Views -> 0..MaxData]
    /\ stamp \in 0..MaxAge /\ lock \in 0..LockTime
    /\ pc \in [Refreshers -> {"idle", "checked", "orphan"} \cup Running]
    /\ at \in [Refreshers -> 1..Len(BIViews)] /\ snapshot \in [Refreshers -> 0..MaxData]
    /\ since \in [Refreshers -> 0..MaxData] /\ ran \in [Refreshers -> 0..LockTime]
    /\ alone \in [Refreshers -> BOOLEAN] /\ outrun \in BOOLEAN
    /\ faults \in 0..MaxFaults

\* The views are created WITH NO DATA or computed by the migration, and never stamped.
Init ==
    /\ data = 0 /\ shows = [v \in Views |-> 0]
    /\ stamp = MaxAge /\ lock = 0
    /\ pc = [p \in Refreshers |-> "idle"]
    /\ at = [p \in Refreshers |-> 1] /\ snapshot = [p \in Refreshers |-> 0]
    /\ since = [p \in Refreshers |-> 0] /\ ran = [p \in Refreshers |-> 0]
    /\ alone = [p \in Refreshers |-> FALSE] /\ outrun = FALSE
    /\ faults = 0

-----------------------------------------------------------------------------
(***************************************************************************)
(* A pass                                                                  *)
(***************************************************************************)
\* p enters refresh_all.
Begin(p) ==
    /\ pc' = [pc EXCEPT ![p] = "between"]
    /\ at' = [at EXCEPT ![p] = 1]
    /\ since' = [since EXCEPT ![p] = data]
    /\ ran' = [ran EXCEPT ![p] = 0]
    /\ alone' = [q \in Refreshers |->
                    IF q = p THEN \A r \in Refreshers \ {p} : ~Refreshes(r) ELSE alone[q] /\ ~InPass(q)]
    /\ UNCHANGED snapshot

\* p leaves it, for state s; the history forgets when the last guarded pass is over.
Leave(p, s) ==
    /\ pc' = [pc EXCEPT ![p] = s]
    /\ at' = [at EXCEPT ![p] = IF s = "orphan" THEN @ ELSE 1]
    /\ since' = [since EXCEPT ![p] = 0]
    /\ ran' = [ran EXCEPT ![p] = 0]
    /\ alone' = [alone EXCEPT ![p] = FALSE]
    /\ outrun' = (outrun /\ ~(Guarded \subseteq {p}))

\* refresh_if_stale: the stamp is read, and the lock is asked for afterwards.
FindStale(p) ==
    /\ pc[p] = "idle" /\ stamp = MaxAge
    /\ pc' = [pc EXCEPT ![p] = "checked"]
    /\ UNCHANGED <<data, shows, cache, pass, outrun, faults>>

\* cache.add(..., 60): taken only when nobody has it.
\* Fault: the lock is set whether or not it stands.
LockIgnored == TRUE
LockFree == lock = 0

TakeLock(p) ==
    /\ pc[p] = "checked" /\ LockFree
    /\ lock' = LockTime
    /\ Begin(p)
    /\ UNCHANGED <<data, shows, stamp, outrun, faults>>

\* cache.add answers False: somebody else refreshes.
LockTaken(p) ==
    /\ pc[p] = "checked" /\ ~LockFree
    /\ pc' = [pc EXCEPT ![p] = "idle"]
    /\ UNCHANGED <<data, shows, cache, pass, outrun, faults>>

\* manage.py refresh_bi_views, in the schema step of a deploy.
RunCommand(p) ==
    /\ pc[p] = "idle"
    /\ Begin(p)
    /\ UNCHANGED <<data, shows, cache, outrun, faults>>

\* The order in which refresh_all goes through the views.
\* Fault: the views that others are made from come last.
OrderReversed == [i \in DOMAIN BIViews |-> BIViews[Len(BIViews) + 1 - i]]
Order == BIViews

\* What a view computed now would count.
Computed(v) == Min({data} \cup {shows[w] : w \in Reads[v]})

\* REFRESH MATERIALIZED VIEW CONCURRENTLY begins: its snapshot is taken.
ReadTables(p) ==
    /\ pc[p] = "between"
    /\ snapshot' = [snapshot EXCEPT ![p] = Computed(Order[at[p]])]
    /\ pc' = [pc EXCEPT ![p] = "reading"]
    /\ UNCHANGED <<data, shows, cache, at, since, ran, alone, outrun, faults>>

(* It ends. The snapshot is older than the view's lock, so of two refreshes *)
(* of a view either may be the last.                                        *)
ReplaceView(p) ==
    /\ pc[p] = "reading" \/ pc[p] = "orphan"
    /\ shows' = [shows EXCEPT ![Order[at[p]]] = snapshot[p]]
    /\ pc' = [pc EXCEPT ![p] = IF @ = "orphan" THEN "idle" ELSE IF at[p] < Len(BIViews) THEN "between" ELSE "done"]
    /\ at' = [at EXCEPT ![p] = IF pc'[p] = "between" THEN @ + 1 ELSE 1]
    /\ snapshot' = [snapshot EXCEPT ![p] = 0]
    /\ UNCHANGED <<data, cache, since, ran, alone, outrun, faults>>

\* A command is over with refresh_all; a watcher has the lock to delete.
Finish(p) ==
    IF p \in Commands THEN Leave(p, "idle")
    ELSE pc' = [pc EXCEPT ![p] = "unlocking"] /\ UNCHANGED <<at, since, ran, alone, outrun>>

\* cache.set("bi:refreshed_at", now): the time at which the pass ends.
Stamp(p) ==
    /\ pc[p] = "done"
    /\ stamp' = 0
    /\ Finish(p)
    /\ UNCHANGED <<data, shows, lock, snapshot, faults>>

\* finally: cache.delete, whoever has the lock by now.
Unlock(p) ==
    /\ p \in Watchers /\ pc[p] = "unlocking"
    /\ lock' = 0
    /\ Leave(p, "idle")
    /\ UNCHANGED <<data, shows, stamp, snapshot, faults>>

\* A REFRESH raises (a view that a roll-back dropped, a lost connection): no stamp.
Fail(p) ==
    /\ pc[p] \in {"between", "reading"} /\ faults < MaxFaults
    /\ faults' = faults + 1
    /\ snapshot' = [snapshot EXCEPT ![p] = 0]
    /\ Finish(p)
    /\ UNCHANGED <<data, shows, cache>>

(* The process is killed: the lock stays until it lapses, and the REFRESH  *)
(* that is under way ends without it.                                      *)
Kill(p) ==
    /\ InPass(p) /\ faults < MaxFaults
    /\ faults' = faults + 1
    /\ Leave(p, IF pc[p] = "reading" THEN "orphan" ELSE "idle")
    /\ UNCHANGED <<data, shows, cache, snapshot>>

-----------------------------------------------------------------------------
(***************************************************************************)
(* The world                                                               *)
(***************************************************************************)
Change ==
    /\ data < MaxData
    /\ data' = data + 1
    /\ UNCHANGED <<shows, cache, pc, pass, outrun, faults>>

\* Fault: the lock is added without a time-out.
LockStays == lock
\* The key lapses LockTime after it was added.
LockLapses == IF lock > 0 THEN lock - 1 ELSE 0

\* One more unit of time, counted up to most.
Older(age, most) == IF age < most THEN age + 1 ELSE most

Tick ==
    /\ stamp' = Older(stamp, MaxAge)
    /\ lock' = LockLapses
    /\ ran' = [p \in Refreshers |-> IF InPass(p) THEN Older(ran[p], LockTime) ELSE ran[p]]
    /\ outrun' = (outrun \/ \E p \in Guarded : ran'[p] = LockTime)
    /\ UNCHANGED <<data, shows, pc, at, snapshot, since, alone, faults>>

Watch(p) == FindStale(p) \/ TakeLock(p) \/ LockTaken(p)
Proceed(p) == ReadTables(p) \/ ReplaceView(p) \/ Stamp(p) \/ Unlock(p)

Next ==
    \/ \E p \in Watchers : Watch(p)
    \/ \E p \in Commands : RunCommand(p)
    \/ \E p \in Refreshers : Proceed(p) \/ Fail(p) \/ Kill(p)
    \/ Change
    \/ Tick

(* Beat sends its task every minute, whatever became of the last one; time *)
(* passes; a process that is not killed goes on.                           *)
Fairness ==
    /\ WF_vars(Tick)
    /\ \A p \in Watchers : WF_vars(Watch(p))
    /\ \A p \in Refreshers : WF_vars(Proceed(p))

Spec == Init /\ [][Next]_vars /\ Fairness

-----------------------------------------------------------------------------
(***************************************************************************)
(* Properties                                                              *)
(***************************************************************************)
(* BI_VIEWS is in dependency order: a pass that no other pass met leaves    *)
(* every view, the KPI views that read other views included, counting all  *)
(* that was in the tables when it began, also when processes were killed    *)
(* halfway before.                                                         *)
PassIsFresh == \A p \in Refreshers : pc[p] = "done" /\ alone[p] => \A v \in Views : shows[v] >= since[p]

(* The lock keeps guarded passes apart unless a pass outlasts it, and then  *)
(* until that has died down: the late pass also deletes the lock of the one *)
(* after it (services.py, refresh_if_stale).                               *)
GuardedAlone == ~outrun => Cardinality(Guarded) <= 1

(* What is written is shown in the end, whoever is killed: a lock that is   *)
(* left behind lapses, a stamp that is too new for what it stamps gets old. *)
DataShown == \A d \in 1..MaxData : data >= d ~> \A v \in Views : shows[v] >= d

=============================================================================
