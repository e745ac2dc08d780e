--------------------------- MODULE AccountsProofs ---------------------------
(***************************************************************************)
(* Proofs about Accounts, for any number of clients, web workers and       *)
(* sweeps, whatever each of them has read and writes later.                *)
(***************************************************************************)
EXTENDS Accounts, TLAPS

Pending == [doing : {"login", "verify", "password"}, user : Users, copy : Account]

-----------------------------------------------------------------------------
(***************************************************************************)
(* Rows                                                                    *)
(***************************************************************************)
\* Time changes nothing but the age of a row, and that not beyond the window.
LEMMA OlderRow ==
    ASSUME NEW row \in Account
    PROVE  /\ Older(row) \in Account
           /\ Older(row).email = row.email /\ Older(row).anonymised = row.anonymised
           /\ row.away = Window => Older(row).away = Window
BY TimesAssumption DEF Older, Account

\* Only a password change writes an address; a verification link leaves the age alone.
LEMMA SavedRow ==
    ASSUME NEW now \in Account, NEW q \in Pending
    PROVE  /\ Saved(now, q) \in Account
           /\ q.doing # "password" =>
                Saved(now, q).email = now.email /\ Saved(now, q).anonymised = now.anonymised
           /\ q.doing = "verify" => Saved(now, q).away = now.away
<1>1. CASE q.doing = "login"
  <2>1. Saved(now, q) = [now EXCEPT !.seen = TRUE, !.away = 0]
    BY <1>1 DEF Saved
  <2>2. 0 \in 0..Window
    BY TimesAssumption
  <2> QED BY <1>1, <2>1, <2>2 DEF Account
<1>2. CASE q.doing = "verify"
  BY <1>2 DEF Saved, Account, Pending
<1>3. CASE q.doing = "password"
  BY <1>3 DEF Saved, Account, Pending
<1> QED BY <1>1, <1>2, <1>3 DEF Pending

Posted(row, e, a, v) == [row EXCEPT !.email = e, !.active = a, !.verified = v]

\* The admin page has neither the age nor anonymised_at.
LEMMA PostedRow ==
    ASSUME NEW row \in Account, NEW e \in Emails \cup {Removed}, NEW a \in BOOLEAN, NEW v \in BOOLEAN
    PROVE  /\ Posted(row, e, a, v) \in Account
           /\ Posted(row, e, a, v).away = row.away /\ Posted(row, e, a, v).anonymised = row.anonymised
BY DEF Account, Posted

\* Rows that the sweep has blanked.
Removals == {row \in Account : row.anonymised /\ row.email = Removed /\ ~row.usable}

LEMMA AnonymisedRow ==
    ASSUME NEW w \in Sweepers, NEW u \in Users
    PROVE  Anonymised(w, u) \in Removals
BY TimesAssumption DEF Anonymised, Account, Removals

LEMMA NoCopyRow == NoCopy \in Account
BY TimesAssumption DEF NoCopy, Account

LEMMA NewRow ==
    ASSUME NEW e \in Emails
    PROVE  [email |-> e, verified |-> FALSE, active |-> TRUE, usable |-> TRUE,
            anonymised |-> FALSE, seen |-> FALSE, away |-> 0] \in Account
BY TimesAssumption DEF Account

LEMMA NoAccountOutside == NoAccount \notin Account
BY EmailsAssumption DEF NoAccount, Account

LEMMA RegisteredRow == ASSUME TypeOK, NEW u \in Registered PROVE account[u] \in Account
BY DEF TypeOK, Registered

-----------------------------------------------------------------------------
(***************************************************************************)
(* What is on a list                                                       *)
(***************************************************************************)
\* Whoever is on a list was away when it was read, and still is unless the history tells otherwise.
ListsAreRight ==
    \A u \in Users : Listed(u) => u \in Registered /\ (account[u].anonymised \/ Away(u) \/ u \in late)

\* Requests, pages and links are of accounts that there are.
Known ==
    /\ links \subseteq Registered
    /\ \A r \in Requests : request[r] # Idle => request[r].user \in Registered
    /\ form # NoForm => form.user \in Registered

SweepInv == TypeOK /\ Known /\ ListsAreRight

\* What a step does to one listed account.
Kept(u) ==
    /\ u \in Registered /\ u \in Registered'
    /\ \/ account'[u] \in Removals
       \/ u \in late'
       \/ /\ account[u].anonymised => account'[u].anonymised
          /\ account[u].away = Window => account'[u].away = Window
          /\ licence'[u] = "live" => licence[u] = "live"
          /\ late \subseteq late'

\* A step that puts nobody on a list keeps the lists right when it keeps every listed account.
LEMMA KeptIsRight ==
    ASSUME SweepInv, TypeOK', Known',
           \A u \in Users : Listed(u)' => Listed(u) /\ (u \in Registered => Kept(u))
    PROVE  SweepInv'
<1> SUFFICES ASSUME NEW u \in Users, Listed(u)'
             PROVE  (u \in Registered /\ (account[u].anonymised \/ Away(u) \/ u \in late))'
  BY DEF SweepInv, ListsAreRight
<1>1. Listed(u) /\ u \in Registered /\ (account[u].anonymised \/ Away(u) \/ u \in late)
  BY DEF SweepInv, ListsAreRight
<1>2. Kept(u)
  BY <1>1
<1>3. CASE account'[u] \in Removals
  BY <1>2, <1>3 DEF Kept, Removals
<1>4. CASE account'[u] \notin Removals
  BY <1>1, <1>2, <1>4 DEF Kept, Away
<1> QED BY <1>3, <1>4
-----------------------------------------------------------------------------
(***************************************************************************)
(* Clients                                                                 *)
(***************************************************************************)
LEMMA RegisterKeeps == ASSUME SweepInv, NEW e \in Emails, Register(e) PROVE SweepInv'
<1>1. PICK u \in Users \ Registered :
        /\ account' = [account EXCEPT ![u] = [email |-> e, verified |-> FALSE, active |-> TRUE, usable |-> TRUE,
                                              anonymised |-> FALSE, seen |-> FALSE, away |-> 0]]
        /\ links' = links \cup {u}
        /\ UNCHANGED <<licence, request, form, sweep, late, kills>>
  BY DEF Register
<1>2. TypeOK'
  BY <1>1, NewRow DEF SweepInv, TypeOK
<1>3. ASSUME NEW v \in Users, v \in Registered PROVE Kept(v)
  <2>1. v # u /\ account'[v] = account[v] /\ licence' = licence /\ late' = late
    BY <1>1, <1>3 DEF SweepInv, TypeOK
  <2> QED BY <1>3, <2>1 DEF Kept, Registered
<1>4. Registered \subseteq Registered' /\ u \in Registered'
  BY <1>1, NewRow DEF SweepInv, TypeOK, Registered, NoAccount, Account
<1>5. Known'
  BY <1>1, <1>4 DEF SweepInv, Known
<1> QED BY <1>1, <1>2, <1>3, <1>5, KeptIsRight DEF Listed

\* Reading an account changes no row and no list.
LEMMA AnswerKeeps ==
    ASSUME SweepInv, NEW r \in Requests, NEW u \in Registered,
           NEW what \in {"login", "verify", "password"}, NEW copy \in Account,
           request' = request \/ Answer(r, u, what, copy),
           links' \subseteq links, UNCHANGED <<account, licence, form, sweep, late, kills>>
    PROVE  SweepInv'
<1>1. [doing |-> what, user |-> u, copy |-> copy] \in [doing : {"login", "verify", "password"}, user : Users, copy : Account]
  BY DEF Registered
<1>2. TypeOK'
  BY <1>1 DEF SweepInv, TypeOK, Answer
<1>3. Known'
  BY DEF SweepInv, Known, Answer, TypeOK, Registered
<1> QED BY <1>2, <1>3, KeptIsRight DEF Listed, Kept, Registered

LEMMA RequestBegins ==
    ASSUME SweepInv, NEW r \in Requests, NEW u \in Users, SignIn(r, u) \/ OpenLink(r, u) \/ NewPassword(r, u)
    PROVE  SweepInv'
<1>1. u \in Registered => account[u] \in Account
  BY RegisteredRow DEF SweepInv
<1>2. CASE SignIn(r, u)
  BY <1>2, NoCopyRow, AnswerKeeps DEF SignIn, Registered
<1>3. CASE OpenLink(r, u)
  <2>1. u \in Registered /\ account[u] \in Account /\ links' \subseteq links
    BY <1>1, <1>3 DEF OpenLink, SweepInv, Known
  <2>2. request' = request \/ Answer(r, u, "verify", account[u])
    BY <1>3 DEF OpenLink
  <2> QED BY <1>3, <2>1, <2>2, AnswerKeeps DEF OpenLink
<1>4. CASE NewPassword(r, u)
  BY <1>1, <1>4, AnswerKeeps DEF NewPassword
<1> QED BY <1>2, <1>3, <1>4

\* A stale copy is written over the row: it may bring the account back, but then it is in the history.
LEMMA WriteKeeps == ASSUME SweepInv, NEW r \in Requests, Write(r) PROVE SweepInv'
<1> DEFINE u == request[r].user
           row == Saved(account[u], request[r])
<1>1. request[r] \in Pending /\ u \in Registered /\ u \in Users /\ account[u] \in Account
  BY RegisteredRow DEF Write, SweepInv, TypeOK, Known, Pending, Registered
<1>2. /\ row \in Account
      /\ request[r].doing # "password" => row.email = account[u].email /\ row.anonymised = account[u].anonymised
      /\ request[r].doing = "verify" => row.away = account[u].away
  BY <1>1, SavedRow
<1>3. /\ account' = [account EXCEPT ![u] = row] \/ account' = account
      /\ late' = IF request[r].doing # "verify" /\ Listed(u) THEN late \cup {u} ELSE late
      /\ request' = [request EXCEPT ![r] = Idle]
      /\ UNCHANGED <<links, licence, form, sweep, kills>>
  BY DEF Write
<1> HIDE DEF u, row
<1>4. TypeOK'
  BY <1>1, <1>2, <1>3 DEF SweepInv, TypeOK
<1>5. Registered' = Registered
  BY <1>1, <1>2, <1>3, NoAccountOutside DEF SweepInv, TypeOK, Registered
<1>6. Known'
  BY <1>3, <1>5 DEF SweepInv, Known, TypeOK
<1>7. ASSUME NEW v \in Users, v \in Registered, Listed(v) PROVE Kept(v)
  <2>1. CASE account'[v] = account[v]
    BY <1>3, <1>5, <1>7, <2>1 DEF Kept
  <2>2. CASE account'[v] # account[v]
    <3>1. v = u /\ account'[v] = row
      BY <1>1, <1>3, <2>2 DEF SweepInv, TypeOK
    <3>2. CASE request[r].doing = "verify"
      BY <1>2, <1>3, <1>5, <1>7, <3>1, <3>2 DEF Kept
    <3>3. CASE request[r].doing # "verify"
      BY <1>3, <1>5, <1>7, <3>1, <3>3 DEF Kept
    <3> QED BY <3>2, <3>3
  <2> QED BY <2>1, <2>2
<1> QED BY <1>3, <1>4, <1>6, <1>7, KeptIsRight DEF Listed

-----------------------------------------------------------------------------
(***************************************************************************)
(* Staff                                                                   *)
(***************************************************************************)
LEMMA LicenceKeeps ==
    ASSUME SweepInv, NEW u \in Users, Apply(u) \/ Grant(u) \/ Lapse(u)
    PROVE  SweepInv'
<1>1. /\ UNCHANGED <<account, links, request, form, sweep, kills>>
      /\ \/ licence' = [licence EXCEPT ![u] = "pending"] /\ late' = late
         \/ licence' = [licence EXCEPT ![u] = "none"] /\ late' = late
         \/ /\ licence' = [licence EXCEPT ![u] = "live"]
            /\ late' = IF Listed(u) THEN late \cup {u} ELSE late
  BY DEF Apply, Grant, Lapse
<1>2. TypeOK' /\ Known'
  BY <1>1 DEF SweepInv, TypeOK, Known, Registered
<1>3. ASSUME NEW v \in Users, v \in Registered, Listed(v) PROVE Kept(v)
  BY <1>1, <1>3 DEF Kept, Registered, SweepInv, TypeOK
<1>4. \A v \in Users : Listed(v)' => Listed(v)
  BY <1>1 DEF Listed
<1> QED BY <1>2, <1>3, <1>4, KeptIsRight

LEMMA OpenFormKeeps == ASSUME SweepInv, NEW u \in Users, OpenForm(u) PROVE SweepInv'
<1>1. account[u] \in Account /\ u \in Registered
  BY RegisteredRow DEF OpenForm, SweepInv
<1>2. form' \in [user : Users, email : Emails \cup {Removed}] /\ form'.user = u
  BY <1>1 DEF OpenForm, Account
<1>3. TypeOK' /\ Known'
  BY <1>1, <1>2 DEF OpenForm, SweepInv, TypeOK, Known, Registered
<1> QED BY <1>3, KeptIsRight DEF OpenForm, Listed, Kept, Registered

LEMMA PostFormKeeps == ASSUME SweepInv, PostForm PROVE SweepInv'
<1> DEFINE u == form.user
           Row(e, a, v) == Posted(account[u], e, a, v)
<1>1. /\ form \in [user : Users, email : Emails \cup {Removed}]
      /\ u \in Users /\ u \in Registered /\ account[u] \in Account
  BY RegisteredRow DEF PostForm, SweepInv, TypeOK, Known
<1>2. PICK e \in Emails \cup {form.email}, a \in BOOLEAN, v \in BOOLEAN :
        account' = [account EXCEPT ![u] = Row(e, a, v)] \/ account' = account
  BY DEF PostForm, Posted
<1>3. /\ Row(e, a, v) \in Account
      /\ Row(e, a, v).away = account[u].away /\ Row(e, a, v).anonymised = account[u].anonymised
  <2>1. e \in Emails \cup {Removed}
    BY <1>1
  <2> QED BY <1>1, <2>1, PostedRow
<1>4. form' = NoForm /\ UNCHANGED <<links, licence, request, sweep, late, kills>>
  BY DEF PostForm
<1> HIDE DEF u, Row
<1>5. TypeOK'
  BY <1>1, <1>2, <1>3, <1>4 DEF SweepInv, TypeOK
<1>6. Registered' = Registered
  BY <1>1, <1>2, <1>3, NoAccountOutside DEF SweepInv, TypeOK, Registered
<1>7. Known'
  BY <1>4, <1>6 DEF SweepInv, Known
<1>8. ASSUME NEW w \in Users, w \in Registered PROVE Kept(w)
  BY <1>1, <1>2, <1>3, <1>4, <1>6, <1>8 DEF Kept, SweepInv, TypeOK
<1> QED BY <1>4, <1>5, <1>7, <1>8, KeptIsRight DEF Listed

-----------------------------------------------------------------------------
(***************************************************************************)
(* The sweep                                                               *)
(***************************************************************************)
\* A new list holds accounts that are away at this moment.
LEMMA ListKeeps == ASSUME SweepInv, NEW w \in Sweepers, List(w) PROVE SweepInv'
<1> DEFINE Read == [doing |-> "listed", list |-> Candidates,
                    verified |-> {u \in Candidates : account[u].verified},
                    seen |-> {u \in Candidates : account[u].seen}]
<1>1. /\ sweep' = [sweep EXCEPT ![w] = Read]
      /\ UNCHANGED <<account, links, licence, request, form, late, kills>>
  BY DEF List
<1>2. Candidates \subseteq Users /\ \A u \in Candidates : u \in Registered /\ Away(u)
  BY DEF Candidates, Live, Away
<1>3. Read \in Listing /\ Read.list = Candidates
  BY <1>2 DEF Listing
<1> HIDE DEF Candidates, Read
<1>4. TypeOK' /\ Known'
  BY <1>1, <1>3 DEF SweepInv, TypeOK, Known, Registered
<1>5. ASSUME NEW u \in Users, Listed(u)'
      PROVE  (u \in Registered /\ (account[u].anonymised \/ Away(u) \/ u \in late))'
  <2>1. Listed(u) \/ u \in Candidates
    BY <1>1, <1>3, <1>5 DEF Listed, SweepInv, TypeOK
  <2>2. u \in Registered /\ (account[u].anonymised \/ Away(u) \/ u \in late)
    BY <1>2, <2>1 DEF SweepInv, ListsAreRight
  <2> QED BY <1>1, <2>2 DEF Registered, Away
<1> QED BY <1>4, <1>5 DEF SweepInv, ListsAreRight

\* A sweep that takes an account, or is killed, shortens its list; the history keeps who is listed still.
LEMMA ShorterListKeeps ==
    ASSUME SweepInv, TypeOK', Known', licence' = licence,
           late' = {v \in late : Listed(v)'},
           \A v \in Users : Listed(v)' => Listed(v),
           Registered' = Registered,
           \A v \in Users : account'[v] = account[v] \/ account'[v] \in Removals
    PROVE  SweepInv'
<1> SUFFICES ASSUME NEW u \in Users, Listed(u)'
             PROVE  (u \in Registered /\ (account[u].anonymised \/ Away(u) \/ u \in late))'
  BY DEF SweepInv, ListsAreRight
<1>1. Listed(u) /\ u \in Registered /\ (account[u].anonymised \/ Away(u) \/ u \in late)
  BY DEF SweepInv, ListsAreRight
<1>2. u \in late => u \in late'
  OBVIOUS
<1>3. CASE account'[u] = account[u]
  BY <1>1, <1>2, <1>3 DEF Away
<1>4. CASE account'[u] \in Removals
  BY <1>1, <1>4 DEF Removals
<1> QED BY <1>3, <1>4

LEMMA AnonymiseKeeps == ASSUME SweepInv, NEW w \in Sweepers, NEW u \in Users, Anonymise(w, u) PROVE SweepInv'
<1>1. /\ u \in sweep[w].list /\ sweep[w] \in Listing
      /\ account' = [account EXCEPT ![u] = Anonymised(w, u)]
      /\ Anonymised(w, u) \in Removals
      /\ sweep' = [sweep EXCEPT ![w] = Rest(w, u)]
      /\ late' = {v \in late : Listed(v)'}
      /\ UNCHANGED <<links, licence, request, form, kills>>
  BY AnonymisedRow DEF Anonymise, SweepInv, TypeOK
<1>2. /\ Rest(w, u) \in {Idle} \cup Listing
      /\ Rest(w, u) # Idle => Rest(w, u).list \subseteq sweep[w].list
  BY <1>1 DEF Rest, Listing
<1> HIDE DEF Rest, Anonymised
<1>3. TypeOK'
  BY <1>1, <1>2 DEF SweepInv, TypeOK, Removals
<1>4. \A v \in Users : Listed(v)' => Listed(v)
  <2> SUFFICES ASSUME NEW v \in Users, NEW x \in Sweepers, sweep'[x] # Idle, v \in sweep'[x].list
               PROVE  sweep[x] # Idle /\ v \in sweep[x].list
    BY DEF Listed
  <2>1. CASE x = w
    BY <1>1, <1>2, <2>1 DEF SweepInv, TypeOK, Anonymise
  <2>2. CASE x # w
    BY <1>1, <2>2 DEF SweepInv, TypeOK
  <2> QED BY <2>1, <2>2
<1>5. Registered' = Registered
  <2>1. u \in Registered
    BY <1>1 DEF SweepInv, ListsAreRight, Listed, Anonymise
  <2> QED BY <1>1, <2>1, NoAccountOutside DEF SweepInv, TypeOK, Registered, Removals
<1>6. Known'
  BY <1>1, <1>5 DEF SweepInv, Known
<1>7. \A v \in Users : account'[v] = account[v] \/ account'[v] \in Removals
  BY <1>1 DEF SweepInv, TypeOK
<1> QED BY <1>1, <1>3, <1>4, <1>5, <1>6, <1>7, ShorterListKeeps

LEMMA KillKeeps ==
    ASSUME SweepInv, (\E w \in Sweepers : KillSweep(w)) \/ (\E r \in Requests : KillRequest(r))
    PROVE  SweepInv'
<1>1. CASE \E w \in Sweepers : KillSweep(w)
  <2>1. PICK w \in Sweepers : KillSweep(w)
    BY <1>1
  <2>2. /\ sweep' = [sweep EXCEPT ![w] = Idle]
        /\ late' = {v \in late : Listed(v)'}
        /\ kills' = kills + 1 /\ kills < MaxKills
        /\ UNCHANGED <<account, links, licence, request, form>>
    BY <2>1 DEF KillSweep
  <2>3. TypeOK'
    BY <2>2, BoundsAssumption DEF SweepInv, TypeOK
  <2>4. Known' /\ Registered' = Registered
    BY <2>2 DEF SweepInv, Known, Registered
  <2>5. \A v \in Users : Listed(v)' => Listed(v)
    BY <2>2 DEF Listed, SweepInv, TypeOK
  <2> QED BY <2>2, <2>3, <2>4, <2>5, ShorterListKeeps
<1>2. CASE \E r \in Requests : KillRequest(r)
  <2>1. PICK r \in Requests : KillRequest(r)
    BY <1>2
  <2>2. TypeOK' /\ Known'
    BY <2>1, BoundsAssumption DEF SweepInv, TypeOK, Known, KillRequest, Registered
  <2>3. \A v \in Users : Listed(v)' => Listed(v)
    BY <2>1 DEF KillRequest, Listed
  <2> QED BY <2>1, <2>2, <2>3, KeptIsRight DEF KillRequest, Kept, Registered
<1> QED BY <1>1, <1>2

\* Time makes nobody less away, and frees nothing but links.
LEMMA TickKeeps == ASSUME SweepInv, Tick PROVE SweepInv'
<1>1. /\ account' = [u \in Users |-> IF u \in Registered THEN Older(account[u]) ELSE account[u]]
      /\ request' = [r \in Requests |-> IF request[r] = Idle THEN Idle ELSE [request[r] EXCEPT !.copy = Older(@)]]
      /\ links' \subseteq links
      /\ UNCHANGED <<licence, form, sweep, late, kills>>
  BY DEF Tick
<1>2. \A u \in Registered : u \in Users /\ account[u] \in Account
  BY RegisteredRow DEF SweepInv, Registered
<1>3. \A row \in Account : /\ Older(row) \in Account
                           /\ Older(row).email = row.email /\ Older(row).anonymised = row.anonymised
                           /\ row.away = Window => Older(row).away = Window
  BY OlderRow
<1> HIDE DEF Older
<1>4. account' \in [Users -> Account \cup {NoAccount}]
  BY <1>1, <1>2, <1>3 DEF SweepInv, TypeOK
<1>5. request' \in [Requests -> {Idle} \cup Pending]
  <2> SUFFICES ASSUME NEW r \in Requests, request[r] # Idle PROVE request'[r] \in Pending
    BY <1>1
  <2>1. request[r] \in Pending
    BY DEF SweepInv, TypeOK, Pending
  <2> QED BY <1>1, <1>3, <2>1 DEF Pending
<1>6. TypeOK'
  BY <1>1, <1>4, <1>5 DEF SweepInv, TypeOK, Pending
<1>7. Registered' = Registered
  BY <1>1, <1>2, <1>3, NoAccountOutside DEF Registered
<1>8. Known'
  <2>1. \A r \in Requests : request'[r] # Idle => request'[r].user \in Registered
    <3> SUFFICES ASSUME NEW r \in Requests, request[r] # Idle PROVE request'[r].user \in Registered
      BY <1>1
    <3>1. request[r] \in Pending /\ request[r].user \in Registered
      BY DEF SweepInv, TypeOK, Known, Pending
    <3> QED BY <1>1, <3>1 DEF Pending
  <2> QED BY <1>1, <1>7, <2>1 DEF SweepInv, Known
<1>9. ASSUME NEW u \in Users, u \in Registered PROVE Kept(u)
  BY <1>1, <1>2, <1>3, <1>7, <1>9 DEF Kept
<1>10. \A v \in Users : Listed(v)' => Listed(v)
  BY <1>1 DEF Listed
<1> QED BY <1>6, <1>8, <1>9, <1>10, KeptIsRight

LEMMA NextKeeps == ASSUME SweepInv, [Next]_vars PROVE SweepInv'
<1>1. CASE Clients
  BY <1>1, RegisterKeeps, RequestBegins, WriteKeeps DEF Clients
<1>2. CASE Staff
  BY <1>2, LicenceKeeps, OpenFormKeeps, PostFormKeeps DEF Staff
<1>3. CASE \E w \in Sweepers : Sweep(w)
  BY <1>3, ListKeeps, AnonymiseKeeps DEF Sweep
<1>4. CASE (\E w \in Sweepers : KillSweep(w)) \/ (\E r \in Requests : KillRequest(r))
  BY <1>4, KillKeeps
<1>5. CASE Tick
  BY <1>5, TickKeeps
<1>6. CASE UNCHANGED vars
  BY <1>6 DEF vars, SweepInv, TypeOK, Known, ListsAreRight, Listed, Registered, Away
<1> QED BY <1>1, <1>2, <1>3, <1>4, <1>5, <1>6 DEF Next

LEMMA InitKeeps == Init => SweepInv
<1> SUFFICES ASSUME Init PROVE SweepInv
  OBVIOUS
<1>1. Registered = {}
  BY DEF Init, Registered
<1>2. TypeOK
  BY BoundsAssumption DEF Init, TypeOK
<1>3. Known
  BY <1>1 DEF Init, Known
<1>4. \A u \in Users : ~Listed(u)
  BY DEF Init, Listed
<1> QED BY <1>2, <1>3, <1>4 DEF SweepInv, ListsAreRight

-----------------------------------------------------------------------------
(***************************************************************************)
(* Only the sweep removes                                                  *)
(***************************************************************************)
\* A removed account has no usable password, so no password change has a removed copy to write back.
Blanked ==
    /\ \A u \in Registered : account[u].anonymised => ~account[u].usable
    /\ \A r \in Requests : request[r] # Idle /\ request[r].doing = "password" => ~request[r].copy.anonymised

LEMMA WriteBlanked == ASSUME SweepInv, Blanked, NEW r \in Requests, Write(r) PROVE Blanked'
<1> DEFINE u == request[r].user
           row == Saved(account[u], request[r])
<1>1. request[r] \in Pending /\ u \in Registered /\ u \in Users /\ account[u] \in Account
  BY RegisteredRow DEF Write, SweepInv, TypeOK, Known, Pending, Registered
<1>2. row \in Account /\ (row.anonymised => ~row.usable)
  <2>1. row \in Account
    BY <1>1, SavedRow
  <2>2. CASE request[r].doing = "password"
    <3>1. row = request[r].copy /\ request[r] # Idle
      BY <2>2 DEF Saved, Write
    <3> QED BY <2>1, <2>2, <3>1 DEF Blanked
  <2>3. CASE request[r].doing # "password"
    <3>1. \/ row = [account[u] EXCEPT !.seen = TRUE, !.away = 0]
          \/ row = [account[u] EXCEPT !.verified = TRUE]
      BY <1>1, <2>3 DEF Saved, Pending
    <3>2. row.usable = account[u].usable /\ row.anonymised = account[u].anonymised
      BY <1>1, <3>1 DEF Account
    <3> QED BY <1>1, <2>1, <3>2 DEF Blanked
  <2> QED BY <2>1, <2>2, <2>3
<1>3. /\ account' = [account EXCEPT ![u] = row] \/ account' = account
      /\ request' = [request EXCEPT ![r] = Idle]
  BY DEF Write
<1> HIDE DEF u, row
<1>4. \A v \in Registered' : v \in Registered
  BY <1>1, <1>3 DEF Registered, SweepInv, TypeOK
<1>5. ASSUME NEW v \in Registered', account'[v].anonymised PROVE ~account'[v].usable
  BY <1>1, <1>2, <1>3, <1>4, <1>5 DEF Blanked, SweepInv, TypeOK, Registered
<1>6. ASSUME NEW x \in Requests, request'[x] # Idle, request'[x].doing = "password"
      PROVE  ~request'[x].copy.anonymised
  BY <1>3, <1>6 DEF Blanked, SweepInv, TypeOK
<1> QED BY <1>5, <1>6 DEF Blanked

\* A request that begins has a copy of a live account, if it is to change the password.
LEMMA RequestBlanked ==
    ASSUME SweepInv, Blanked, NEW r \in Requests, NEW u \in Users, SignIn(r, u) \/ OpenLink(r, u) \/ NewPassword(r, u)
    PROVE  Blanked'
<1>1. account' = account /\ Registered' = Registered
  BY DEF SignIn, OpenLink, NewPassword, Registered
<1>2. ASSUME NEW x \in Requests, request'[x] # Idle, request'[x].doing = "password"
      PROVE  ~request'[x].copy.anonymised
  <2>1. CASE request'[x] = request[x]
    BY <1>2, <2>1 DEF Blanked
  <2>2. CASE request'[x] # request[x]
    <3>1. x = r /\ NewPassword(r, u)
      BY <1>2, <2>2 DEF SignIn, OpenLink, NewPassword, Answer, SweepInv, TypeOK
    <3> QED BY <3>1 DEF NewPassword, Answer, Blanked, SweepInv, TypeOK
  <2> QED BY <2>1, <2>2
<1> QED BY <1>1, <1>2 DEF Blanked

LEMMA NextBlanked == ASSUME SweepInv, Blanked, [Next]_vars PROVE Blanked'
<1>1. ASSUME NEW e \in Emails, Register(e) PROVE Blanked'
  <2>1. PICK u \in Users \ Registered :
          account' = [account EXCEPT ![u] = [email |-> e, verified |-> FALSE, active |-> TRUE, usable |-> TRUE,
                                             anonymised |-> FALSE, seen |-> FALSE, away |-> 0]]
    BY <1>1 DEF Register
  <2>2. request' = request
    BY <1>1 DEF Register
  <2> QED BY <2>1, <2>2 DEF Blanked, SweepInv, TypeOK, Registered
<1>2. ASSUME NEW r \in Requests, NEW u \in Users, SignIn(r, u) \/ OpenLink(r, u) \/ NewPassword(r, u) PROVE Blanked'
  BY <1>2, RequestBlanked
<1>3. ASSUME NEW r \in Requests, Write(r) PROVE Blanked'
  BY <1>3, WriteBlanked
<1>4. ASSUME NEW u \in Users, Apply(u) \/ Grant(u) \/ Lapse(u) \/ OpenForm(u) PROVE Blanked'
  BY <1>4 DEF Apply, Grant, Lapse, OpenForm, Blanked, Registered
<1>5. ASSUME PostForm PROVE Blanked'
  <2>1. PICK e \in Emails \cup {form.email}, a \in BOOLEAN, v \in BOOLEAN :
          \/ account' = account
          \/ account' = [account EXCEPT ![form.user] = Posted(account[form.user], e, a, v)]
    BY <1>5 DEF PostForm, Posted
  <2>2. request' = request /\ form.user \in Registered /\ form.user \in Users
    BY <1>5 DEF PostForm, SweepInv, Known, Registered
  <2>3. account[form.user] \in Account
    BY <2>2, RegisteredRow DEF SweepInv
  <2>4. ASSUME NEW u \in Registered' PROVE account'[u].anonymised => ~account'[u].usable
    <3>1. CASE u = form.user
      <4>1. account'[u].usable = account[u].usable /\ account'[u].anonymised = account[u].anonymised
        <5>1. account'[u] = account[u] \/ account'[u] = Posted(account[u], e, a, v)
          BY <2>1, <2>2, <3>1 DEF SweepInv, TypeOK
        <5> QED BY <2>3, <3>1, <5>1 DEF Posted, Account
      <4> QED BY <2>2, <3>1, <4>1 DEF Blanked
    <3>2. CASE u # form.user
      BY <2>1, <2>2, <3>2 DEF Blanked, SweepInv, TypeOK, Registered
    <3> QED BY <3>1, <3>2
  <2> QED BY <2>2, <2>4 DEF Blanked
<1>6. ASSUME NEW w \in Sweepers, List(w) \/ KillSweep(w) PROVE Blanked'
  BY <1>6 DEF List, KillSweep, Blanked, Registered
<1>7. ASSUME NEW w \in Sweepers, NEW u \in Users, Anonymise(w, u) PROVE Blanked'
  <2>1. account' = [account EXCEPT ![u] = Anonymised(w, u)] /\ request' = request /\ ~Anonymised(w, u).usable
    BY <1>7, AnonymisedRow DEF Anonymise, Removals
  <2> QED BY <2>1 DEF Blanked, SweepInv, TypeOK, Registered
<1>8. ASSUME NEW r \in Requests, KillRequest(r) PROVE Blanked'
  BY <1>8 DEF KillRequest, Blanked, Registered, SweepInv, TypeOK
<1>9. ASSUME Tick PROVE Blanked'
  <2>1. /\ account' = [u \in Users |-> IF u \in Registered THEN Older(account[u]) ELSE account[u]]
        /\ request' = [r \in Requests |-> IF request[r] = Idle THEN Idle ELSE [request[r] EXCEPT !.copy = Older(@)]]
    BY <1>9 DEF Tick
  <2>2. \A row \in Account : Older(row).anonymised = row.anonymised /\ Older(row).usable = row.usable
    BY DEF Older, Account
  <2> HIDE DEF Older
  <2>3. ASSUME NEW u \in Registered' PROVE account'[u].anonymised => ~account'[u].usable
    <3>1. u \in Registered /\ account[u] \in Account /\ account'[u] = Older(account[u])
      BY <2>1, RegisteredRow DEF Registered, SweepInv
    <3> QED BY <2>1, <2>2, <3>1 DEF Blanked
  <2>4. ASSUME NEW r \in Requests, request'[r] # Idle, request'[r].doing = "password"
        PROVE  ~request'[r].copy.anonymised
    <3>1. request[r] # Idle /\ request[r] \in Pending
      BY <2>1, <2>4 DEF SweepInv, TypeOK, Pending
    <3>2. request[r].doing = "password" /\ request'[r].copy = Older(request[r].copy) /\ request[r].copy \in Account
      BY <2>1, <2>4, <3>1 DEF Pending
    <3> QED BY <2>2, <3>1, <3>2 DEF Blanked
  <2> QED BY <2>3, <2>4 DEF Blanked
<1>10. CASE UNCHANGED vars
  BY <1>10 DEF vars, Blanked, Registered
<1> QED BY <1>1, <1>2, <1>3, <1>4, <1>5, <1>6, <1>7, <1>8, <1>9, <1>10 DEF Next, Clients, Staff, Sweep

\* Every step but the sweep's leaves a live account live.
LEMMA NobodyElseRemoves ==
    ASSUME SweepInv, Blanked, Blanked', [Next]_vars, NEW u \in Registered,
           ~account[u].anonymised, account'[u].anonymised
    PROVE  \E w \in Sweepers : Anonymise(w, u)
<1>1. account[u] \in Account /\ u \in Users
  BY RegisteredRow DEF SweepInv, Registered
<1>2. ASSUME NEW e \in Emails, Register(e) PROVE FALSE
  BY <1>1, <1>2 DEF Register, SweepInv, TypeOK
<1>3. ASSUME NEW r \in Requests, Write(r) PROVE FALSE
  <2>1. /\ request[r] \in Pending /\ request[r].user \in Registered
        /\ \/ account' = account
           \/ account' = [account EXCEPT ![request[r].user] = Saved(account[request[r].user], request[r])]
    BY <1>3 DEF Write, SweepInv, TypeOK, Known, Pending
  <2>2. u = request[r].user /\ account'[u] = Saved(account[u], request[r])
    BY <1>1, <2>1 DEF SweepInv, TypeOK
  <2>3. request[r].doing = "password"
    BY <1>1, <2>1, <2>2, SavedRow
  <2>4. account'[u] = request[r].copy
    BY <2>2, <2>3 DEF Saved
  <2> QED BY <1>3, <2>3, <2>4 DEF Blanked, Write
<1>4. ASSUME PostForm PROVE FALSE
  <2>1. PICK e \in Emails \cup {form.email}, a \in BOOLEAN, v \in BOOLEAN :
          \/ account' = account
          \/ account' = [account EXCEPT ![form.user] = Posted(account[form.user], e, a, v)]
    BY <1>4 DEF PostForm, Posted
  <2>2. account'[u] = account[u] \/ account'[u] = Posted(account[u], e, a, v)
    BY <1>1, <2>1 DEF SweepInv, TypeOK
  <2>3. Posted(account[u], e, a, v).anonymised = account[u].anonymised
    BY <1>1 DEF Posted, Account
  <2> QED BY <2>2, <2>3
<1>5. ASSUME Tick PROVE FALSE
  BY <1>1, <1>5, OlderRow DEF Tick
<1>6. ASSUME NEW w \in Sweepers, NEW v \in Users, Anonymise(w, v), v # u PROVE FALSE
  BY <1>1, <1>6 DEF Anonymise, SweepInv, TypeOK
<1>7. ASSUME account' = account PROVE FALSE
  BY <1>7
<1> QED BY <1>1, <1>2, <1>3, <1>4, <1>5, <1>6, <1>7
       DEF Next, Clients, Staff, Sweep, SignIn, OpenLink, NewPassword, Apply, Grant, Lapse, OpenForm, List,
           KillSweep, KillRequest, vars

(***************************************************************************)
(* Only accounts that are away, or became otherwise after the list was     *)
(* read, are removed (retention_candidates, anonymise_user): for any       *)
(* number of clients, requests and deliveries of the sweep.                *)
(***************************************************************************)
THEOREM OnlyAwaySwept == Spec => OnlyAwayIsSwept
<1>1. Init => SweepInv /\ Blanked
  <2>1. Init => Blanked
    BY DEF Init, Blanked, Registered
  <2> QED BY <2>1, InitKeeps
<1>2. SweepInv /\ Blanked /\ [Next]_vars => SweepInv' /\ Blanked'
  BY NextKeeps, NextBlanked
<1>3. SweepInv /\ Blanked /\ Blanked' /\ [Next]_vars
      => [\A u \in Registered : ~account[u].anonymised /\ account'[u].anonymised => Away(u) \/ u \in late]_vars
  <2> SUFFICES ASSUME SweepInv, Blanked, Blanked', [Next]_vars, NEW u \in Registered,
                      ~account[u].anonymised, account'[u].anonymised
               PROVE  Away(u) \/ u \in late
    OBVIOUS
  <2>1. PICK w \in Sweepers : Anonymise(w, u)
    BY NobodyElseRemoves
  <2>2. u \in Users /\ Listed(u)
    BY <2>1 DEF Anonymise, Listed, Registered
  <2> QED BY <2>2 DEF SweepInv, ListsAreRight
<1> QED BY <1>1, <1>2, <1>3, PTL DEF Spec, OnlyAwayIsSwept

\* Of the steps that write an address, only an admin page and a password change write one over a removed row.
LEMMA OnlyPagesRestore ==
    ASSUME SweepInv, [Next]_vars, NEW u \in Registered,
           account[u].email = Removed, account'[u].email # Removed
    PROVE  \/ form # NoForm /\ form.user = u
           \/ \E r \in Requests : request[r] # Idle /\ request[r].doing = "password" /\ request[r].user = u
<1>1. account[u] \in Account /\ u \in Users
  BY RegisteredRow DEF SweepInv, Registered
<1>2. ASSUME NEW e \in Emails, Register(e) PROVE FALSE
  BY <1>1, <1>2 DEF Register, SweepInv, TypeOK
<1>3. ASSUME NEW r \in Requests, Write(r)
      PROVE  request[r] # Idle /\ request[r].doing = "password" /\ request[r].user = u
  <2>1. /\ request[r] \in Pending /\ request[r].user \in Registered /\ request[r] # Idle
        /\ \/ account' = account
           \/ account' = [account EXCEPT ![request[r].user] = Saved(account[request[r].user], request[r])]
    BY <1>3 DEF Write, SweepInv, TypeOK, Known, Pending
  <2>2. u = request[r].user /\ account'[u] = Saved(account[u], request[r])
    BY <1>1, <2>1 DEF SweepInv, TypeOK
  <2> QED BY <1>1, <2>1, <2>2, SavedRow
<1>4. ASSUME PostForm PROVE form # NoForm /\ form.user = u
  BY <1>1, <1>4 DEF PostForm, SweepInv, TypeOK
<1>5. ASSUME Tick PROVE FALSE
  BY <1>1, <1>5, OlderRow DEF Tick
<1>6. ASSUME NEW w \in Sweepers, NEW v \in Users, Anonymise(w, v) PROVE FALSE
  BY <1>1, <1>6, AnonymisedRow DEF Anonymise, SweepInv, TypeOK, Removals
<1>7. ASSUME account' = account PROVE FALSE
  BY <1>7
<1> QED BY <1>2, <1>3, <1>4, <1>5, <1>6, <1>7
       DEF Next, Clients, Staff, Sweep, SignIn, OpenLink, NewPassword, Apply, Grant, Lapse, OpenForm, List,
           KillSweep, KillRequest, vars

(***************************************************************************)
(* A removed account gets an address back only from an admin page or a     *)
(* password change that is under way (UserAdmin, SetPasswordForm.save),    *)
(* whatever links are opened and whoever signs in.                         *)
(***************************************************************************)
THEOREM RemovedStays == Spec => RemovedStaysRemoved
<1>1. SweepInv /\ [Next]_vars => SweepInv'
  BY NextKeeps
<1>2. SweepInv /\ [Next]_vars
      => [\A u \in Registered :
            account[u].email = Removed /\ account'[u].email # Removed
            => \/ form # NoForm /\ form.user = u
               \/ \E r \in Requests : request[r] # Idle /\ request[r].doing = "password" /\ request[r].user = u]_vars
  BY OnlyPagesRestore
<1> QED BY <1>1, <1>2, InitKeeps, PTL DEF Spec, RemovedStaysRemoved
=============================================================================
