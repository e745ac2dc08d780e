------------------------------ MODULE Accounts ------------------------------
(***************************************************************************)
(* Client accounts from registration to removal (apps/accounts: forms.py,  *)
(* views.py, models.py, services.py, tasks.py, admin.py).                  *)
(*                                                                         *)
(* A client registers, confirms the address, signs in and changes the      *)
(* password; staff correct accounts on the admin page; the retention sweep *)
(* anonymises the accounts that were not used for the retention window and *)
(* hold no live licence (WATERSOURCE_RETENTION_ENFORCE=1). Nothing here    *)
(* runs in a transaction: a request or a sweep that has read an account    *)
(* writes it later, whole or only some columns.                            *)
(***************************************************************************)
EXTENDS Integers, FiniteSets

CONSTANTS
    Emails,     \* the addresses of clients
    MaxUsers,   \* bound: accounts ever registered, User ids 1 to MaxUsers
    Requests,   \* web workers that answer clients
    Sweepers,   \* workers that run retention_sweep; it may be delivered twice
    LinkTime,   \* how long a verification link is good
    Window,     \* INACTIVE_CLIENT_ACCOUNT_MONTHS
    MaxKills    \* bound: killed processes

Users == 1..MaxUsers
Removed == "removed@anonymised.invalid"
None == "none"

ASSUME EmailsAssumption == Removed \notin Emails /\ None \notin Emails
ASSUME BoundsAssumption == MaxUsers \in Nat /\ MaxKills \in Nat
ASSUME TimesAssumption == LinkTime \in Nat /\ Window \in Nat /\ LinkTime <= Window

VARIABLES
    account,  \* the User rows
    links,    \* the accounts whose EmailToken is unused and in time
    licence,  \* the application of an account: none, pending, or with a live licence
    request,  \* what a web worker is doing
    form,     \* the account on an administrator's page
    sweep,    \* what a sweep is doing
    late,     \* history: accounts used, or granted a licence, while a sweep has them on its list
    kills

vars == <<account, links, licence, request, form, sweep, late, kills>>

\* "away" is the time since last_login, or since created_at when there was no login ("seen").
Account == [email : Emails \cup {Removed}, verified : BOOLEAN, active : BOOLEAN, usable : BOOLEAN,
            anonymised : BOOLEAN, seen : BOOLEAN, away : 0..Window]
NoAccount == [email |-> None]
Idle == [doing |-> None]
NoForm == [user |-> 0]

(* anonymise_user saves the whole row as sweep w has it on its list, with  *)
(* the dates of verification and of the last login, and blanks the rest;   *)
(* the pk makes the address unique. Notifications and keys are left out.   *)
Anonymised(w, u) ==
    [email |-> Removed, verified |-> u \in sweep[w].verified, active |-> FALSE, usable |-> FALSE,
     anonymised |-> TRUE, seen |-> u \in sweep[w].seen, away |-> Window]

\* The rows on a list: all are away, and some were verified, or signed in to.
Listing == [doing : {"listed"}, list : SUBSET Users, verified : SUBSET Users, seen : SUBSET Users]

Registered == {u \in Users : account[u] # NoAccount}
Live(u) == u \in Registered /\ ~account[u].anonymised
Listed(u) == \E w \in Sweepers : sweep[w] # Idle /\ u \in sweep[w].list
Taken(e) == \E u \in Registered : account[u].email = e

TypeOK ==
    /\ account \in [Users -> Account \cup {NoAccount}]
    /\ links \subseteq Users
    /\ licence \in [Users -> {"none", "pending", "live"}]
    /\ request \in [Requests -> {Idle} \cup [doing : {"login", "verify", "password"}, user : Users, copy : Account]]
    /\ form \in {NoForm} \cup [user : Users, email : Emails \cup {Removed}]
    /\ sweep \in [Sweepers -> {Idle} \cup Listing]
    /\ late \subseteq Users /\ kills \in 0..MaxKills

Init ==
    /\ account = [u \in Users |-> NoAccount]
    /\ links = {} /\ licence = [u \in Users |-> "none"]
    /\ request = [r \in Requests |-> Idle] /\ form = NoForm
    /\ sweep = [w \in Sweepers |-> Idle]
    /\ late = {} /\ kills = 0

-----------------------------------------------------------------------------
(***************************************************************************)
(* Clients                                                                 *)
(***************************************************************************)
\* register: an address is refused while an account has it.
Register(e) ==
    /\ ~Taken(e)
    /\ \E u \in Users \ Registered :
        /\ \A v \in Users : v < u => v \in Registered
        /\ account' = [account EXCEPT ![u] = [email |-> e, verified |-> FALSE, active |-> TRUE, usable |-> TRUE,
                                              anonymised |-> FALSE, seen |-> FALSE, away |-> 0]]
        /\ links' = links \cup {u}
    /\ UNCHANGED <<licence, request, form, sweep, late, kills>>

\* Worker r reads account u, to write it in a later step.
Answer(r, u, what, copy) == request' = [request EXCEPT ![r] = [doing |-> what, user |-> u, copy |-> copy]]

\* What a request that needs no copy has for one.
NoCopy == [email |-> Removed, verified |-> FALSE, active |-> FALSE, usable |-> FALSE,
           anonymised |-> FALSE, seen |-> FALSE, away |-> Window]

\* confirm_login_allowed
MaySignIn(u) == account[u].active /\ account[u].usable /\ account[u].verified

SignIn(r, u) ==
    /\ request[r] = Idle /\ u \in Registered /\ MaySignIn(u)
    /\ Answer(r, u, "login", NoCopy) \* of the row only last_login is written
    /\ UNCHANGED <<account, links, licence, form, sweep, late, kills>>

\* verify_email: used_at is saved first. There is no second link.
OpenLink(r, u) ==
    /\ request[r] = Idle /\ u \in links
    /\ links' = links \ {u}
    /\ IF account[u].verified THEN UNCHANGED request ELSE Answer(r, u, "verify", account[u])
    /\ UNCHANGED <<account, licence, form, sweep, late, kills>>

\* PasswordChangeView, PasswordResetConfirmView; a reset is not sent when no password is usable.
NewPassword(r, u) ==
    /\ request[r] = Idle /\ u \in Registered /\ account[u].active /\ account[u].usable
    /\ Answer(r, u, "password", account[u])
    /\ UNCHANGED <<account, links, licence, form, sweep, late, kills>>

\* save(update_fields=["last_login"]), save(update_fields=["email_verified_at"])
\* Fault: verify_email saves the whole row.
SavedWhole(now, q) ==
    CASE q.doing = "login" -> [now EXCEPT !.seen = TRUE, !.away = 0]
      [] q.doing = "verify" -> [q.copy EXCEPT !.verified = TRUE]
      [] q.doing = "password" -> q.copy
Saved(now, q) ==
    CASE q.doing = "login" -> [now EXCEPT !.seen = TRUE, !.away = 0]
      [] q.doing = "verify" -> [now EXCEPT !.verified = TRUE]
      [] q.doing = "password" -> q.copy \* SetPasswordForm.save: the whole row

Fits(u, row) == row.email = Removed \/ \A v \in Registered \ {u} : account[v].email # row.email

\* The request ends with its write, or with an error when another account has the address by now.
Write(r) ==
    /\ request[r] # Idle
    /\ LET u == request[r].user
           row == Saved(account[u], request[r])
       IN  /\ account' = IF Fits(u, row) THEN [account EXCEPT ![u] = row] ELSE account
           /\ late' = IF request[r].doing # "verify" /\ Listed(u) THEN late \cup {u} ELSE late
    /\ request' = [request EXCEPT ![r] = Idle]
    /\ UNCHANGED <<links, licence, form, sweep, kills>>

-----------------------------------------------------------------------------
(***************************************************************************)
(* Staff                                                                   *)
(***************************************************************************)
\* An application of the client is decided, or its licence ends (LicenceReview, LicenceRegister).
Apply(u) ==
    /\ u \in Registered /\ account[u].seen /\ account[u].active /\ licence[u] = "none"
    /\ licence' = [licence EXCEPT ![u] = "pending"]
    /\ UNCHANGED <<account, links, request, form, sweep, late, kills>>

Grant(u) ==
    /\ licence[u] = "pending"
    /\ licence' = [licence EXCEPT ![u] = "live"]
    /\ late' = IF Listed(u) THEN late \cup {u} ELSE late
    /\ UNCHANGED <<account, links, request, form, sweep, kills>>

Lapse(u) ==
    /\ licence[u] = "live"
    /\ licence' = [licence EXCEPT ![u] = "none"]
    /\ UNCHANGED <<account, links, request, form, sweep, late, kills>>

\* UserAdmin: the page shows the account, and is posted whenever.
OpenForm(u) ==
    /\ form = NoForm /\ u \in Registered
    /\ form' = [user |-> u, email |-> account[u].email]
    /\ UNCHANGED <<account, links, licence, request, sweep, late, kills>>

\* Posting writes what the page has, changed or not: the address, the two flags and the kind of
\* user, which is left out (staff are not swept). Of the rest of the row, last_login and
\* anonymised_at among it, the request that saves writes back what it has just read.
PostForm ==
    /\ form # NoForm
    /\ \E email \in Emails \cup {form.email}, active, verified \in BOOLEAN :
        LET u == form.user
            row == [account[u] EXCEPT !.email = email, !.active = active, !.verified = verified]
        IN  account' = IF Fits(u, row) THEN [account EXCEPT ![u] = row] ELSE account
    /\ form' = NoForm
    /\ UNCHANGED <<links, licence, request, sweep, late, kills>>

-----------------------------------------------------------------------------
(***************************************************************************)
(* The retention sweep                                                     *)
(***************************************************************************)
\* Fault: only accounts that were signed in to once.
CandidatesSeen == {u \in Users : Live(u) /\ account[u].seen /\ account[u].away = Window /\ licence[u] # "live"}
\* Fault: the licence is not asked for.
CandidatesLicensed == {u \in Users : Live(u) /\ account[u].away = Window}
\* retention_candidates
Candidates == {u \in Users : Live(u) /\ account[u].away = Window /\ licence[u] # "live"}

\* The sweep reads its list once.
List(w) ==
    /\ sweep[w] = Idle /\ Candidates # {}
    /\ sweep' = [sweep EXCEPT ![w] =
         [doing |-> "listed", list |-> Candidates,
          verified |-> {u \in Candidates : account[u].verified}, seen |-> {u \in Candidates : account[u].seen}]]
    /\ UNCHANGED <<account, links, licence, request, form, late, kills>>

\* What is left of a list without u.
Rest(w, u) == IF sweep[w].list = {u} THEN Idle ELSE [sweep[w] EXCEPT !.list = @ \ {u}]

Anonymise(w, u) ==
    /\ sweep[w] # Idle /\ u \in sweep[w].list
    /\ account' = [account EXCEPT ![u] = Anonymised(w, u)]
    /\ sweep' = [sweep EXCEPT ![w] = Rest(w, u)]
    /\ late' = {v \in late : Listed(v)'}
    /\ UNCHANGED <<links, licence, request, form, kills>>

\* A worker or a process is killed between two statements.
KillSweep(w) ==
    /\ sweep[w] # Idle /\ kills < MaxKills
    /\ kills' = kills + 1
    /\ sweep' = [sweep EXCEPT ![w] = Idle]
    /\ late' = {v \in late : Listed(v)'}
    /\ UNCHANGED <<account, links, licence, request, form>>

KillRequest(r) ==
    /\ request[r] # Idle /\ kills < MaxKills
    /\ kills' = kills + 1
    /\ request' = [request EXCEPT ![r] = Idle]
    /\ UNCHANGED <<account, links, licence, form, sweep, late>>

(* Rows, and copies of them, keep the date of the last login while time    *)
(* passes; a link is as old as an account that was never signed in to.     *)
Older(row) == IF row.away < Window THEN [row EXCEPT !.away = @ + 1] ELSE row

Tick ==
    /\ account' = [u \in Users |-> IF u \in Registered THEN Older(account[u]) ELSE account[u]]
    /\ request' = [r \in Requests |-> IF request[r] = Idle THEN Idle ELSE [request[r] EXCEPT !.copy = Older(@)]]
    /\ links' = {u \in links : account'[u].away < LinkTime}
    /\ UNCHANGED <<licence, form, sweep, late, kills>>

-----------------------------------------------------------------------------
Clients ==
    \/ \E e \in Emails : Register(e)
    \/ \E r \in Requests, u \in Users : SignIn(r, u) \/ OpenLink(r, u) \/ NewPassword(r, u)
    \/ \E r \in Requests : Write(r)

Staff ==
    \/ \E u \in Users : Apply(u) \/ Grant(u) \/ Lapse(u) \/ OpenForm(u)
    \/ PostForm

Sweep(w) == List(w) \/ \E u \in Users : Anonymise(w, u)

Next ==
    \/ Clients
    \/ Staff
    \/ \E w \in Sweepers : Sweep(w) \/ KillSweep(w)
    \/ \E r \in Requests : KillRequest(r)
    \/ Tick

\* Beat sends the sweep every day, and a worker that is not killed finishes it.
Spec == Init /\ [][Next]_vars /\ \A w \in Sweepers : WF_vars(Sweep(w))

-----------------------------------------------------------------------------
(***************************************************************************)
(* Properties                                                              *)
(***************************************************************************)
Away(u) == account[u].away = Window /\ licence[u] # "live"

(* "Inactive client accounts past the retention window with no live        *)
(* licence" (retention_candidates): the sweep takes nobody else, but who   *)
(* signed in, changed the password or was granted a licence after the list *)
(* was read is taken all the same.                                         *)
OnlyAwayIsSwept ==
    [][\A u \in Registered : ~account[u].anonymised /\ account'[u].anonymised => Away(u) \/ u \in late]_vars

(* "Irreversibly anonymise" (anonymise_user): a removed account gets its   *)
(* data back only from a page opened, or a password change begun, before   *)
(* it was removed; not by signing in nor by a verification link.           *)
RemovedStaysRemoved ==
    [][\A u \in Registered :
          account[u].email = Removed /\ account'[u].email # Removed
          => \/ form # NoForm /\ form.user = u
             \/ \E r \in Requests : request[r] # Idle /\ request[r].doing = "password" /\ request[r].user = u]_vars

(* retention_sweep: "anonymise client accounts past the retention window". *)
(* It takes them from a list, and does not look again: who came back, or   *)
(* was granted a licence, since the list was read goes as well.            *)
SweptOnlyWhenAway ==
    [][\A u \in Registered : ~account[u].anonymised /\ account'[u].anonymised => Away(u)]_vars

(* "Irreversibly" (anonymise_user): no later save takes it back. A         *)
(* password change that was under way does, it saves the whole row.        *)
Irreversible ==
    [][\A u \in Registered : account[u].anonymised => account'[u].anonymised]_vars

(* Nobody past the window is kept, also who never got to sign in: a link   *)
(* that ran out, or was used by a request that died, locks an account until*)
(* the sweep frees its address.                                            *)
SweptInTheEnd == \A u \in Users : u \in Registered /\ Live(u) /\ Away(u) ~> ~(Live(u) /\ Away(u))
=============================================================================
