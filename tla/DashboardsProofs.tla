-------------------------- MODULE DashboardsProofs --------------------------
(***************************************************************************)
(* Proofs about Dashboards, for any number of watchers, commands and       *)
(* views, and any times. The lock of refresh_if_stale keeps guarded passes *)
(* apart: as long as no pass has outlasted its lock there is one at most,  *)
(* and the lock stands for exactly the time that pass has left. A pass     *)
(* that met no other one leaves every view fresh, because the views are    *)
(* refreshed in the order in which they are made from each other.          *)
(***************************************************************************)
EXTENDS Dashboards, FiniteSetTheorems, WellFoundedInduction, TLAPS

\* The part of the types that the argument needs.
LockTypes ==
    /\ lock \in Nat /\ outrun \in BOOLEAN
    /\ pc \in [Refreshers -> {"idle", "checked", "orphan"} \cup Running]
    /\ ran \in [Refreshers -> Nat]

\* A guarded pass that no pass has outrun holds the lock for the time it has left.
Held == ~outrun => \A p \in Guarded : ran[p] < LockTime /\ lock = LockTime - ran[p]

\* And it is the only one.
Apart == ~outrun => \A p, q \in Guarded : p = q

LockInv == LockTypes /\ Held /\ Apart

-----------------------------------------------------------------------------
\* No watcher is guarded before it has begun.
LEMMA InitLock == Init => LockInv
<1> SUFFICES ASSUME Init PROVE LockInv
  OBVIOUS
<1>1. LockTypes
  BY DEF Init, LockTypes
<1>2. Guarded = {}
  BY DEF Init, Guarded, InPass, Running, Refreshers
<1> QED BY <1>1, <1>2 DEF LockInv, Held, Apart

(* TakeLock finds the key gone; had another pass been running in time the  *)
(* key would still be there.                                               *)
LEMMA TakeLockKeeps ==
    ASSUME LockInv, NEW p \in Watchers, TakeLock(p)
    PROVE LockInv'
<1> USE DEF LockInv, Guarded, InPass, Running, Refreshers
<1>1. LockTypes'
  BY TimesAssumption DEF TakeLock, Begin, LockTypes
<1>2. /\ pc' = [pc EXCEPT ![p] = "between"] /\ ran' = [ran EXCEPT ![p] = 0]
      /\ lock = 0 /\ lock' = LockTime /\ outrun' = outrun
  BY DEF TakeLock, Begin, LockFree
<1>3. ASSUME ~outrun PROVE Guarded = {}
  BY <1>2, <1>3, TimesAssumption DEF Held, LockTypes
<1>4. ASSUME ~outrun PROVE Guarded' = {p}
  BY <1>2, <1>3, <1>4 DEF LockTypes
<1>5. Held'
  BY <1>2, <1>4, TimesAssumption DEF Held, LockTypes
<1>6. Apart'
  BY <1>2, <1>4 DEF Apart
<1> QED BY <1>1, <1>5, <1>6

(* The last guarded pass to leave clears the history; another one leaves   *)
(* its lock to whoever is still running.                                   *)
LEMMA LeaveKeeps ==
    ASSUME LockInv, NEW p \in Refreshers, NEW s \in {"idle", "orphan"}, Leave(p, s),
           lock' = lock \/ (lock' = 0 /\ p \in Guarded)
    PROVE LockInv'
<1> USE DEF LockInv, Guarded, InPass, Running
<1>1. LockTypes'
  BY DEF Leave, LockTypes
<1>2. Guarded' = Guarded \ {p} /\ \A q \in Guarded' : ran'[q] = ran[q]
  BY DEF Leave, LockTypes, Refreshers
<1>3. outrun' = (outrun /\ ~(Guarded \subseteq {p}))
  BY DEF Leave
<1>4. CASE Guarded \subseteq {p}
  <2>1. Guarded' = {}
    BY <1>2, <1>4
  <2> QED BY <1>1, <2>1 DEF Held, Apart
<1>5. CASE ~(Guarded \subseteq {p})
  <2>1. outrun' = outrun
    BY <1>3, <1>5 DEF LockTypes
  <2>2. ASSUME ~outrun PROVE p \notin Guarded
    BY <1>5, <2>2 DEF Apart
  <2>3. Held'
    BY <1>2, <2>1, <2>2 DEF Held
  <2>4. Apart'
    BY <1>2, <2>1 DEF Apart
  <2> QED BY <1>1, <2>3, <2>4
<1> QED BY <1>4, <1>5

\* The lock and the passes under way age together, until a pass has outrun its lock.
LEMMA TickKeeps == ASSUME LockInv, Tick PROVE LockInv'
<1> USE DEF LockInv, Guarded, InPass, Running
<1>1. LockTypes'
  BY TimesAssumption DEF Tick, LockTypes, Older, LockLapses
<1>2. Guarded' = Guarded
  BY DEF Tick
<1>3. ASSUME NEW p \in Guarded, ~outrun'
      PROVE ran'[p] = ran[p] + 1 /\ ran'[p] < LockTime /\ lock' = lock - 1 /\ ~outrun
  <2>1. ~outrun /\ ran'[p] # LockTime
    BY <1>3 DEF Tick
  <2>2. ran[p] < LockTime /\ lock = LockTime - ran[p]
    BY <2>1 DEF Held
  <2>3. ran'[p] = ran[p] + 1
    BY <2>2 DEF Tick, LockTypes, Older, Refreshers
  <2>4. lock > 0 /\ lock' = lock - 1
    BY <2>2, TimesAssumption DEF Tick, LockTypes, LockLapses, Refreshers
  <2> QED BY <2>1, <2>2, <2>3, <2>4, TimesAssumption DEF LockTypes, Refreshers
<1>4. Held'
  BY <1>2, <1>3, TimesAssumption DEF Held, LockTypes, Refreshers
<1>5. Apart'
  BY <1>2, <1>3 DEF Apart
<1> QED BY <1>1, <1>4, <1>5

\* A step that starts and ends no pass of a watcher leaves the invariant alone.
LEMMA RestKeeps ==
    ASSUME LockInv, LockTypes', lock' = lock, outrun' = outrun, Guarded' = Guarded,
           \A p \in Guarded : ran'[p] = ran[p]
    PROVE LockInv'
BY DEF LockInv, Held, Apart

\* A refresh that ends, or raises, is over for a command, and has the lock to delete for a watcher.
LEMMA FinishKeeps ==
    ASSUME LockInv, NEW p \in Refreshers, InPass(p), Finish(p), lock' = lock
    PROVE LockInv'
<1>1. CASE p \in Commands
  BY <1>1, LeaveKeeps DEF Finish
<1>2. CASE p \notin Commands
  BY <1>2, RestKeeps DEF Finish, LockInv, LockTypes, Guarded, InPass, Running, Refreshers
<1> QED BY <1>1, <1>2

\* Every step keeps the invariant.
LEMMA NextLock == LockInv /\ [Next]_vars => LockInv'
<1> SUFFICES ASSUME LockInv, [Next]_vars PROVE LockInv'
  OBVIOUS
<1>1. ASSUME NEW p \in Watchers, Watch(p) PROVE LockInv'
  <2>1. CASE TakeLock(p)
    BY <2>1, TakeLockKeeps
  <2>2. CASE FindStale(p) \/ LockTaken(p)
    BY <2>2, RestKeeps
    DEF FindStale, LockTaken, LockInv, LockTypes, Guarded, InPass, Running, Refreshers, cache, pass
  <2> QED BY <1>1, <2>1, <2>2 DEF Watch
<1>2. ASSUME NEW p \in Commands, RunCommand(p) PROVE LockInv'
  BY <1>2, RestKeeps, RefreshersAssumption
  DEF RunCommand, Begin, LockInv, LockTypes, Guarded, InPass, Running, Refreshers, cache
<1>3. ASSUME NEW p \in Refreshers, Proceed(p) PROVE LockInv'
  <2>1. CASE ReadTables(p)
    BY <2>1, RestKeeps DEF ReadTables, LockInv, LockTypes, Guarded, InPass, Running, Refreshers, cache
  <2>2. CASE ReplaceView(p)
    <3>1. /\ pc[p] \in {"reading", "orphan"}
          /\ pc' = [pc EXCEPT ![p] = IF pc[p] = "orphan" THEN "idle"
                                     ELSE IF at[p] < Len(BIViews) THEN "between" ELSE "done"]
          /\ UNCHANGED <<lock, outrun, ran>>
      BY <2>2 DEF ReplaceView, cache
    <3>2. LockTypes'
      BY <3>1 DEF LockInv, LockTypes, Running
    <3>3. \A q \in Refreshers : InPass(q)' <=> InPass(q)
      BY <3>1 DEF LockInv, LockTypes, InPass, Running
    <3>4. Guarded' = Guarded
      BY <3>3 DEF Guarded, Refreshers
    <3> QED BY <3>1, <3>2, <3>4, RestKeeps
  <2>3. CASE Stamp(p)
    BY <2>3, FinishKeeps DEF Stamp, InPass, Running
  <2>4. CASE Unlock(p)
    <3>1. p \in Guarded
      BY <2>4 DEF Unlock, Guarded, InPass, Running, Refreshers
    <3> QED BY <2>4, <3>1, LeaveKeeps DEF Unlock
  <2> QED BY <1>3, <2>1, <2>2, <2>3, <2>4 DEF Proceed
<1>4. ASSUME NEW p \in Refreshers, Fail(p) PROVE LockInv'
  BY <1>4, FinishKeeps DEF Fail, InPass, Running, cache
<1>5. ASSUME NEW p \in Refreshers, Kill(p) PROVE LockInv'
  BY <1>5, LeaveKeeps DEF Kill, cache
<1>6. CASE Change
  BY <1>6, RestKeeps DEF Change, LockInv, LockTypes, Guarded, InPass, cache, pass
<1>7. CASE Tick
  BY <1>7, TickKeeps
<1>8. CASE UNCHANGED vars
  BY <1>8, RestKeeps DEF vars, LockInv, LockTypes, Guarded, InPass, cache, pass
<1> QED BY <1>1, <1>2, <1>3, <1>4, <1>5, <1>6, <1>7, <1>8 DEF Next

\* A set whose elements are all equal has one at most.
LEMMA AtMostOne == LockInv => GuardedAlone
<1> SUFFICES ASSUME LockInv, ~outrun PROVE Cardinality(Guarded) <= 1
  BY DEF GuardedAlone
<1>1. CASE Guarded = {}
  BY <1>1, FS_EmptySet
<1>2. CASE Guarded # {}
  <2>1. PICK p \in Guarded : TRUE
    BY <1>2
  <2>2. Guarded = {p}
    BY <2>1 DEF LockInv, Apart
  <2> QED BY <2>2, FS_Singleton
<1> QED BY <1>1, <1>2

(* Two guarded passes run at once only when one of them, or one before     *)
(* them, has outlasted the lock (refresh_if_stale, services.py).           *)
THEOREM PassesApart == Spec => []GuardedAlone
<1>1. Spec => []LockInv
  BY InitLock, NextLock, PTL DEF Spec
<1> QED BY <1>1, AtMostOne, PTL

-----------------------------------------------------------------------------
(***************************************************************************)
(* What a pass leaves                                                      *)
(***************************************************************************)
\* A set of numbers has a smallest one.
LEMMA HasMin ==
    ASSUME NEW S, S \subseteq Nat, S # {}
    PROVE Min(S) \in S /\ \A y \in S : Min(S) <= y
<1> DEFINE Less == OpToRel(<, Nat)
<1>1. IsWellFoundedOn(Less, Nat)
  BY NatLessThanWellFounded
<1>2. \A x, y \in Nat : y < x => <<y, x>> \in Less
  BY DEF OpToRel
<1> HIDE DEF Less
<1>3. PICK x \in S : \A y \in S : ~(<<y, x>> \in Less)
  BY <1>1, WFMin
<1>4. ASSUME NEW y \in S PROVE ~(y < x)
  BY <1>2, <1>3
<1>5. \A y \in S : x <= y
  BY <1>4
<1> QED BY <1>5 DEF Min

\* A view computed now counts everything that the tables and the views it is made from count.
LEMMA ComputedCounts ==
    ASSUME TypeOK, NEW v \in Views
    PROVE /\ Computed(v) \in 0 .. MaxData
          /\ \A n \in Nat : data >= n /\ (\A w \in Reads[v] : shows[w] >= n) => Computed(v) >= n
<1> DEFINE S == {data} \cup {shows[w] : w \in Reads[v]}
<1>1. S \subseteq 0 .. MaxData
  BY ViewsAssumption DEF TypeOK
<1>2. S # {} /\ S \subseteq Nat
  BY <1>1, BoundsAssumption
<1>3. Min(S) \in S
  BY <1>2, HasMin
<1>4. ASSUME NEW n \in Nat, data >= n, \A w \in Reads[v] : shows[w] >= n PROVE \A s \in S : s >= n
  BY <1>4
<1> QED BY <1>1, <1>3, <1>4 DEF Computed

LEMMA ViewsThere == /\ Len(BIViews) \in Nat \ {0} /\ DOMAIN BIViews = 1 .. Len(BIViews)
                    /\ \A i \in 1 .. Len(BIViews) : BIViews[i] \in Views
BY ViewsAssumption DEF Views

\* Whoever runs a pass that met no other is the only one to refresh.
NoOther == \A p \in Refreshers : alone[p] /\ InPass(p) => \A q \in Refreshers \ {p} : ~Refreshes(q)

\* The views that such a pass has been through count what was in the tables when it began.
MadeFresh(p) ==
    alone[p] /\ InPass(p) =>
        /\ since[p] <= data
        /\ pc[p] \in {"between", "reading"} => \A j \in 1 .. at[p] - 1 : shows[BIViews[j]] >= since[p]
        /\ pc[p] = "reading" => snapshot[p] >= since[p]
        /\ pc[p] = "done" => \A v \in Views : shows[v] >= since[p]

FreshInv == TypeOK /\ NoOther /\ \A p \in Refreshers : MadeFresh(p)

LEMMA Bounds ==
    /\ 0 \in 0 .. MaxData /\ 0 \in 0 .. MaxAge /\ MaxAge \in 0 .. MaxAge
    /\ 0 \in 0 .. LockTime /\ LockTime \in 0 .. LockTime /\ 0 \in 0 .. MaxFaults
    /\ 1 \in 1 .. Len(BIViews)
BY TimesAssumption, BoundsAssumption, ViewsThere

LEMMA InitFresh == Init => FreshInv
<1> SUFFICES ASSUME Init PROVE FreshInv
  OBVIOUS
<1>1. TypeOK
  BY Bounds DEF Init, TypeOK
<1>2. \A p \in Refreshers : ~alone[p]
  BY DEF Init
<1> QED BY <1>1, <1>2 DEF FreshInv, NoOther, MadeFresh

\* Nothing that p relies on has changed.
LEMMA StaysFresh ==
    ASSUME NEW p \in Refreshers, MadeFresh(p), TypeOK, data' \in {data, data + 1},
           UNCHANGED <<shows, pc[p], at[p], snapshot[p], since[p], alone[p]>>
    PROVE MadeFresh(p)'
BY DEF MadeFresh, InPass, Running, TypeOK

\* p enters a pass: the others are no longer alone.
LEMMA BeginFresh ==
    ASSUME FreshInv, NEW p \in Refreshers, pc[p] \in {"idle", "checked"}, Begin(p),
           UNCHANGED <<data, shows, stamp, outrun, faults>>, lock' \in 0 .. LockTime
    PROVE FreshInv'
<1>1. TypeOK'
  <2>1. alone' \in [Refreshers -> BOOLEAN]
    BY DEF FreshInv, TypeOK, Begin
  <2> QED BY <2>1, Bounds DEF FreshInv, TypeOK, Begin, Running
<1>2. /\ pc' = [pc EXCEPT ![p] = "between"] /\ at' = [at EXCEPT ![p] = 1]
      /\ since' = [since EXCEPT ![p] = data] /\ UNCHANGED <<data, shows, snapshot>>
      /\ alone'[p] = (\A r \in Refreshers \ {p} : ~Refreshes(r))
      /\ \A q \in Refreshers \ {p} : alone'[q] = (alone[q] /\ ~InPass(q))
  BY DEF Begin
<1>3. ASSUME NEW q \in Refreshers \ {p} PROVE (Refreshes(q)' <=> Refreshes(q)) /\ (InPass(q)' <=> InPass(q))
  BY <1>2 DEF FreshInv, TypeOK, Refreshes, InPass
<1>4. \A q \in Refreshers \ {p} : ~(alone'[q] /\ InPass(q)')
  BY <1>2, <1>3
<1>5. NoOther'
  BY <1>2, <1>3, <1>4 DEF NoOther
<1>6. MadeFresh(p)'
  BY <1>2, BoundsAssumption DEF FreshInv, TypeOK, MadeFresh, InPass, Running
<1>7. \A q \in Refreshers \ {p} : MadeFresh(q)'
  BY <1>4 DEF MadeFresh
<1> QED BY <1>1, <1>5, <1>6, <1>7 DEF FreshInv

\* p's step leaves the others, and what they rely on, as they were.
LEMMA OthersFresh ==
    ASSUME FreshInv, NEW p \in Refreshers, TypeOK', data' = data, shows' = shows,
           \A q \in Refreshers \ {p} : UNCHANGED <<pc[q], at[q], snapshot[q], since[q], alone[q]>>,
           Refreshes(p)' => Refreshes(p), alone'[p] => alone[p], InPass(p)' => InPass(p),
           MadeFresh(p)'
    PROVE FreshInv'
<1>1. ASSUME NEW q \in Refreshers \ {p} PROVE MadeFresh(q)'
  BY StaysFresh DEF FreshInv
<1>2. ASSUME NEW q \in Refreshers \ {p} PROVE (Refreshes(q)' <=> Refreshes(q)) /\ (InPass(q)' <=> InPass(q))
  BY DEF Refreshes, InPass
<1>3. NoOther'
  BY <1>2 DEF NoOther, FreshInv
<1> QED BY <1>1, <1>3 DEF FreshInv

\* p leaves its pass, or begins none.
LEMMA LeaveFresh ==
    ASSUME FreshInv, NEW p \in Refreshers, NEW s \in {"idle", "orphan"}, Leave(p, s),
           s = "orphan" => pc[p] = "reading", InPass(p), snapshot' \in [Refreshers -> 0 .. MaxData],
           \A q \in Refreshers \ {p} : snapshot'[q] = snapshot[q],
           UNCHANGED <<data, shows>>, lock' \in {0, lock}, stamp' \in {0, stamp}, faults' \in 0 .. MaxFaults
    PROVE FreshInv'
<1>0. TypeOK
  BY DEF FreshInv
<1>1. TypeOK'
  <2>1. outrun' \in BOOLEAN
    BY DEF Leave
  <2>2. at' \in [Refreshers -> 1 .. Len(BIViews)]
    BY <1>0, Bounds DEF Leave, TypeOK
  <2> QED BY <1>0, <2>1, <2>2, Bounds DEF TypeOK, Leave, Running
<1>2. pc'[p] = s /\ ~alone'[p] /\ ~InPass(p)'
  BY <1>0 DEF TypeOK, Leave, InPass, Running
<1>3. \A q \in Refreshers \ {p} : UNCHANGED <<pc[q], at[q], snapshot[q], since[q], alone[q]>>
  BY <1>0 DEF TypeOK, Leave
<1>4. MadeFresh(p)'
  BY <1>2 DEF MadeFresh
<1> QED BY <1>1, <1>2, <1>3, <1>4, OthersFresh DEF Refreshes

LEMMA FinishFresh ==
    ASSUME FreshInv, NEW p \in Refreshers, Finish(p), InPass(p),
           snapshot' \in [Refreshers -> 0 .. MaxData],
           \A q \in Refreshers \ {p} : snapshot'[q] = snapshot[q],
           UNCHANGED <<data, shows, lock>>, stamp' \in {0, stamp}, faults' \in 0 .. MaxFaults
    PROVE FreshInv'
<1>1. CASE p \in Commands
  BY <1>1, LeaveFresh DEF Finish
<1>2. CASE p \notin Commands
  <2>0. TypeOK
    BY DEF FreshInv
  <2>1. pc' = [pc EXCEPT ![p] = "unlocking"] /\ UNCHANGED <<at, since, ran, alone, outrun>>
    BY <1>2 DEF Finish
  <2>2. TypeOK'
    BY <2>0, <2>1, Bounds DEF TypeOK, Running
  <2>3. pc'[p] = "unlocking"
    BY <2>0, <2>1 DEF TypeOK
  <2>4. MadeFresh(p)'
    BY <2>0, <2>1, <2>3 DEF MadeFresh, FreshInv, TypeOK
  <2> QED BY <2>0, <2>1, <2>2, <2>3, <2>4, OthersFresh DEF TypeOK, Refreshes, InPass
<1> QED BY <1>1, <1>2

\* The views that the one at hand is made from have been through the pass.
LEMMA ReadFresh ==
    ASSUME FreshInv, NEW p \in Refreshers, ReadTables(p)
    PROVE FreshInv'
<1>0. TypeOK /\ MadeFresh(p) /\ at[p] \in 1 .. Len(BIViews) /\ since[p] \in Nat
  BY DEF FreshInv, TypeOK
<1>1. PICK v \in Views : v = BIViews[at[p]]
  BY <1>0, ViewsThere
<1>2. /\ snapshot' = [snapshot EXCEPT ![p] = Computed(v)] /\ pc[p] = "between"
      /\ pc' = [pc EXCEPT ![p] = "reading"]
      /\ UNCHANGED <<data, shows, stamp, lock, at, since, ran, alone, outrun, faults>>
  BY <1>1 DEF ReadTables, Order, cache
<1>3. Computed(v) \in 0 .. MaxData
  BY <1>0, ComputedCounts
<1>4. TypeOK'
  BY <1>0, <1>2, <1>3 DEF TypeOK, Running
<1>5. ASSUME alone[p] PROVE Computed(v) >= since[p] /\ \A j \in 1 .. at[p] - 1 : shows[BIViews[j]] >= since[p]
  <2>1. since[p] <= data /\ \A j \in 1 .. at[p] - 1 : shows[BIViews[j]] >= since[p]
    BY <1>0, <1>2, <1>5 DEF MadeFresh, InPass, Running
  <2>2. Reads[v] \subseteq {BIViews[j] : j \in 1 .. at[p] - 1}
    BY <1>0, <1>1, DependencyOrder, ViewsThere
  <2>3. \A w \in Reads[v] : shows[w] >= since[p]
    BY <2>1, <2>2
  <2>4. data >= since[p]
    BY <1>0, <2>1 DEF TypeOK
  <2> QED BY <1>0, <2>1, <2>3, <2>4, ComputedCounts
<1>6. /\ snapshot'[p] = Computed(v) /\ pc'[p] = "reading"
      /\ \A q \in Refreshers \ {p} : UNCHANGED <<pc[q], at[q], snapshot[q], since[q], alone[q]>>
  BY <1>0, <1>2 DEF TypeOK
<1>7. MadeFresh(p)'
  <2>1. since[p] <= data \/ ~alone[p]
    BY <1>0, <1>2 DEF MadeFresh, InPass, Running
  <2> QED BY <1>2, <1>5, <1>6, <2>1 DEF MadeFresh
<1> QED BY <1>2, <1>4, <1>6, <1>7, OthersFresh DEF Refreshes, InPass, Running

\* Only a pass that others have met, or a statement without one, can put an older state in a view.
LEMMA ReplaceFresh ==
    ASSUME FreshInv, NEW p \in Refreshers, ReplaceView(p)
    PROVE FreshInv'
<1>0. /\ TypeOK /\ MadeFresh(p) /\ at[p] \in 1 .. Len(BIViews) /\ since[p] \in Nat
      /\ snapshot[p] \in 0 .. MaxData /\ pc[p] \in {"reading", "orphan"}
  BY DEF FreshInv, TypeOK, ReplaceView
<1>1. PICK v \in Views : v = BIViews[at[p]]
  BY <1>0, ViewsThere
<1>2. PICK s \in {"idle", "between", "done"} :
        s = IF pc[p] = "orphan" THEN "idle" ELSE IF at[p] < Len(BIViews) THEN "between" ELSE "done"
  OBVIOUS
<1>3. PICK n \in 1 .. Len(BIViews) : n = IF s = "between" THEN at[p] + 1 ELSE 1
  BY <1>0, <1>2, ViewsThere
<1>4. /\ shows' = [shows EXCEPT ![v] = snapshot[p]]
      /\ pc' = [pc EXCEPT ![p] = s]
      /\ snapshot' = [snapshot EXCEPT ![p] = 0]
      /\ UNCHANGED <<data, stamp, lock, since, ran, alone, outrun, faults>>
  BY <1>1, <1>2 DEF ReplaceView, Order, cache
<1>5. pc'[p] = s
  BY <1>0, <1>4 DEF TypeOK
<1>6. at' = [at EXCEPT ![p] = n]
  BY <1>3, <1>5 DEF ReplaceView
<1>7. TypeOK'
  BY <1>0, <1>4, <1>6, Bounds DEF TypeOK, Running
<1>8. \A q \in Refreshers \ {p} : ~(alone[q] /\ InPass(q))
  BY <1>0 DEF FreshInv, NoOther, Refreshes, InPass, Running
<1>9. \A q \in Refreshers \ {p} : /\ Refreshes(q)' <=> Refreshes(q)
                                  /\ InPass(q)' <=> InPass(q)
                                  /\ alone'[q] = alone[q]
  BY <1>0, <1>4 DEF TypeOK, Refreshes, InPass
<1>10. ASSUME NEW q \in Refreshers \ {p} PROVE MadeFresh(q)'
  BY <1>8, <1>9 DEF MadeFresh
<1>11. NoOther'
  <2>1. InPass(p)' => InPass(p)
    BY <1>0, <1>2, <1>5 DEF InPass, Running
  <2> QED BY <1>4, <1>8, <1>9, <2>1 DEF FreshInv, NoOther
<1>12. MadeFresh(p)'
  <2>1. CASE ~alone[p] \/ s = "idle"
    BY <1>4, <1>5, <2>1 DEF MadeFresh, InPass, Running
  <2>2. CASE alone[p] /\ s # "idle"
    <3>1. pc[p] = "reading" /\ InPass(p)
      BY <1>0, <1>2, <2>2 DEF InPass, Running
    <3>2. /\ since[p] <= data /\ snapshot[p] >= since[p]
          /\ \A j \in 1 .. at[p] - 1 : shows[BIViews[j]] >= since[p]
      BY <1>0, <2>2, <3>1 DEF MadeFresh
    <3>3. ASSUME NEW j \in 1 .. at[p] PROVE shows'[BIViews[j]] >= since[p]
      <4>1. BIViews[j] \in Views
        BY <1>0, ViewsThere
      <4>2. CASE BIViews[j] = v
        BY <1>0, <1>4, <3>2, <4>1, <4>2 DEF TypeOK
      <4>3. CASE BIViews[j] # v
        <5>1. j \in 1 .. at[p] - 1
          BY <1>0, <1>1, <4>3, ViewsThere
        <5>2. shows'[BIViews[j]] = shows[BIViews[j]]
          BY <1>0, <1>4, <4>1, <4>3 DEF TypeOK
        <5> QED BY <3>2, <5>1, <5>2
      <4> QED BY <4>2, <4>3
    <3>4. CASE s = "between"
      <4>1. at'[p] = at[p] + 1
        BY <1>0, <1>3, <1>6, <3>4 DEF TypeOK
      <4>2. \A j \in 1 .. at'[p] - 1 : shows'[BIViews[j]] >= since[p]
        BY <1>0, <3>3, <4>1
      <4> QED BY <1>4, <1>5, <3>2, <3>4, <4>2 DEF MadeFresh
    <3>5. CASE s = "done"
      <4>1. at[p] = Len(BIViews)
        BY <1>0, <1>2, <3>1, <3>5, ViewsThere
      <4>2. \A w \in Views : shows'[w] >= since[p]
        BY <3>3, <4>1, ViewsThere DEF Views
      <4> QED BY <1>4, <1>5, <3>2, <3>5, <4>2 DEF MadeFresh
    <3> QED BY <2>2, <3>4, <3>5
  <2> QED BY <2>1, <2>2
<1> QED BY <1>7, <1>10, <1>11, <1>12 DEF FreshInv

\* A step that no pass takes.
LEMMA RestFresh ==
    ASSUME FreshInv, TypeOK', data' \in {data, data + 1}, UNCHANGED <<shows, pc, at, snapshot, since, alone>>
    PROVE FreshInv'
<1>1. \A p \in Refreshers : MadeFresh(p)'
  BY StaysFresh DEF FreshInv
<1>2. NoOther'
  BY DEF FreshInv, NoOther, Refreshes, InPass
<1> QED BY <1>1, <1>2 DEF FreshInv

\* Every step keeps the invariant.
LEMMA NextFresh == FreshInv /\ [Next]_vars => FreshInv'
<1> SUFFICES ASSUME FreshInv, [Next]_vars PROVE FreshInv'
  OBVIOUS
<1>0. TypeOK
  BY DEF FreshInv
<1>1. ASSUME NEW p \in Watchers, Watch(p) PROVE FreshInv'
  <2>0. p \in Refreshers
    BY DEF Refreshers
  <2>1. CASE TakeLock(p)
    BY <2>0, <2>1, BeginFresh, Bounds DEF TakeLock
  <2>2. CASE FindStale(p) \/ LockTaken(p)
    <3>1. PICK s \in {"checked", "idle"} : pc' = [pc EXCEPT ![p] = s]
      BY <2>2 DEF FindStale, LockTaken
    <3>2. pc[p] \in {"idle", "checked"} /\ UNCHANGED <<data, shows, cache, pass, outrun, faults>>
      BY <2>2 DEF FindStale, LockTaken
    <3>3. TypeOK'
      BY <1>0, <3>1, <3>2 DEF TypeOK, cache, pass
    <3>4. MadeFresh(p)'
      BY <1>0, <2>0, <3>1 DEF TypeOK, MadeFresh, InPass, Running
    <3>5. \A q \in Refreshers \ {p} : UNCHANGED <<pc[q], at[q], snapshot[q], since[q], alone[q]>>
      BY <1>0, <3>1, <3>2 DEF TypeOK, pass
    <3>6. ~Refreshes(p)' /\ ~InPass(p)' /\ alone'[p] = alone[p]
      BY <1>0, <2>0, <3>1, <3>2 DEF TypeOK, Refreshes, InPass, Running, pass
    <3> QED BY <2>0, <3>2, <3>3, <3>4, <3>5, <3>6, OthersFresh DEF cache, pass
  <2> QED BY <1>1, <2>1, <2>2 DEF Watch
<1>2. ASSUME NEW p \in Commands, RunCommand(p) PROVE FreshInv'
  BY <1>0, <1>2, BeginFresh DEF RunCommand, Refreshers, cache, TypeOK
<1>3. ASSUME NEW p \in Refreshers, Proceed(p) PROVE FreshInv'
  <2>1. CASE Stamp(p)
    BY <1>0, <2>1, FinishFresh DEF Stamp, InPass, Running, TypeOK
  <2>2. CASE Unlock(p)
    BY <1>0, <2>2, LeaveFresh DEF Unlock, InPass, Running, TypeOK
  <2> QED BY <1>3, <2>1, <2>2, ReadFresh, ReplaceFresh DEF Proceed
<1>4. ASSUME NEW p \in Refreshers, faults < MaxFaults PROVE faults + 1 \in 0 .. MaxFaults
  BY <1>0, <1>4, BoundsAssumption DEF TypeOK
<1>5. ASSUME NEW p \in Refreshers, Fail(p) PROVE FreshInv'
  <2>1. snapshot' \in [Refreshers -> 0 .. MaxData] /\ \A q \in Refreshers \ {p} : snapshot'[q] = snapshot[q]
    BY <1>0, <1>5, Bounds DEF Fail, TypeOK
  <2>2. faults' \in 0 .. MaxFaults /\ InPass(p) /\ Finish(p) /\ UNCHANGED <<data, shows, stamp, lock>>
    BY <1>4, <1>5 DEF Fail, InPass, Running, cache
  <2> QED BY <2>1, <2>2, FinishFresh
<1>6. ASSUME NEW p \in Refreshers, Kill(p) PROVE FreshInv'
  <2>1. PICK s \in {"idle", "orphan"} : s = IF pc[p] = "reading" THEN "orphan" ELSE "idle"
    OBVIOUS
  <2>2. faults' \in 0 .. MaxFaults /\ InPass(p) /\ Leave(p, s) /\ UNCHANGED <<data, shows, stamp, lock, snapshot>>
    BY <1>4, <1>6, <2>1 DEF Kill, cache
  <2>3. s = "orphan" => pc[p] = "reading"
    BY <2>1
  <2> QED BY <1>0, <2>2, <2>3, LeaveFresh DEF TypeOK
<1>7. CASE Change
  <2>1. data' = data + 1 /\ UNCHANGED <<shows, cache, pc, pass, outrun, faults>>
    BY <1>7 DEF Change
  <2>2. data' \in 0 .. MaxData
    BY <1>0, <1>7, BoundsAssumption DEF Change, TypeOK
  <2>3. TypeOK'
    BY <1>0, <2>1, <2>2 DEF TypeOK, cache, pass
  <2> QED BY <2>1, <2>3, RestFresh DEF pass
<1>8. CASE Tick
  <2>1. stamp' \in 0 .. MaxAge /\ lock' \in 0 .. LockTime
    BY <1>0, <1>8, TimesAssumption DEF Tick, TypeOK, Older, LockLapses
  <2>2. ran' \in [Refreshers -> 0 .. LockTime] /\ outrun' \in BOOLEAN
    BY <1>0, <1>8, TimesAssumption DEF Tick, TypeOK, Older
  <2>3. UNCHANGED <<data, shows, pc, at, snapshot, since, alone, faults>>
    BY <1>8 DEF Tick
  <2>4. TypeOK'
    BY <1>0, <2>1, <2>2, <2>3 DEF TypeOK
  <2> QED BY <2>3, <2>4, RestFresh
<1>9. CASE UNCHANGED vars
  <2>1. UNCHANGED <<data, shows, cache, pc, pass, outrun, faults>>
    BY <1>9 DEF vars
  <2>2. TypeOK'
    BY <1>0, <2>1 DEF TypeOK, cache, pass
  <2> QED BY <2>1, <2>2, RestFresh DEF pass
<1> QED BY <1>1, <1>2, <1>3, <1>5, <1>6, <1>7, <1>8, <1>9 DEF Next

(* A pass of refresh_all that no other one met leaves every view counting  *)
(* what was in the tables when it began, also the views made from views    *)
(* and whatever killed statements did before.                              *)
THEOREM PassesFresh == Spec => []PassIsFresh
<1>1. FreshInv => PassIsFresh
  BY DEF FreshInv, PassIsFresh, MadeFresh, InPass, Running
<1> QED BY <1>1, InitFresh, NextFresh, PTL DEF Spec
=============================================================================
