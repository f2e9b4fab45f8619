------------------------------ MODULE Sessions ------------------------------
(***************************************************************************)
(* One account of the dashboard: its password, the reset links mailed to   *)
(* it, the sign-ins in progress and the web sessions they open             *)
(* (crates/metrune-api/src/app.rs and identity.rs).                        *)
(*                                                                         *)
(* PostgreSQL runs at READ COMMITTED: each statement sees the rows that    *)
(* were committed when it began, an UPDATE or SELECT ... FOR UPDATE waits  *)
(* for the rows it found and looks at them again, and what a transaction   *)
(* wrote appears at its commit.  Every handler below is split at these     *)
(* points.  Passwords are counted: the n-th completed reset sets password  *)
(* n, and history lists the links that set them.                           *)
(***************************************************************************)
EXTENDS Naturals, Sequences, FiniteSets

CONSTANTS
  Links,        \* reset links that may be issued, one per issuing request
  WebSessions,  \* rows of web_sessions, one per sign-in
  Logins,       \* concurrent requests to sign in
  Resets,       \* concurrent requests to complete a reset
  AccountOrgs,         \* organizations of the deployment
  NoneSelected,        \* no organization is selected
  MaxIssuing,   \* bound: requests that issue a link at the same time
  MaxChanges    \* bound: changes of the authentication mode

ASSUME SessionsAssumption ==
  /\ Links # {} /\ IsFiniteSet(Links)
  /\ NoneSelected \notin AccountOrgs
  /\ MaxIssuing \in Nat /\ MaxChanges \in Nat

VARIABLES
  mode,      \* "local" or "oidc": how the running server authenticates
  changes,   \* how often the mode was changed
  members,   \* the account's active memberships
  history,   \* the links that set the password, oldest first
  links,     \* password_reset_tokens
  sessions,  \* web_sessions
  logins,    \* handlers of login
  resets     \* handlers of complete_password_reset

sessionVars == <<mode, changes, members, history, links, sessions, logins, resets>>

Password == Len(history)

\* A link: its row, or how far the transaction is that will insert it; seen
\* are the rows the UPDATE of that transaction found and revokes.
NoLink == [status |-> "none", seen |-> {}]
LinkStates == {"none", "revoking", "inserting", "live", "used", "revoked", "expired"}

NoSession == [status |-> "none", method |-> "local", org |-> NoneSelected,
              password |-> 0, changes |-> 0, late |-> FALSE]

IdleLogin == [pc |-> "idle", password |-> 0]
IdleReset == [pc |-> "idle", link |-> CHOOSE l \in Links : TRUE, seen |-> {}, swept |-> {}]

SessionsInit ==
  /\ mode = "local"
  /\ changes = 0
  /\ members \in SUBSET AccountOrgs
  /\ history = <<>>
  /\ links = [l \in Links |-> NoLink]
  /\ sessions = [s \in WebSessions |-> NoSession]
  /\ logins = [p \in Logins |-> IdleLogin]
  /\ resets = [r \in Resets |-> IdleReset]

LiveLinks == {l \in Links : links[l].status = "live"}
LiveSessions == {s \in WebSessions : sessions[s].status = "live"}

\* The rows of links that completing requests, or issuing ones, have locked.
HeldByResets(rs) ==
  UNION {{resets[r].link} \cup IF resets[r].pc = "waiting" THEN {} ELSE resets[r].seen
         : r \in {r \in rs : resets[r].pc # "idle"}}
HeldByIssuers == UNION {links[l].seen : l \in {l \in Links : links[l].status = "inserting"}}
Issuing == {l \in Links : links[l].status \in {"revoking", "inserting"}}

-----------------------------------------------------------------------------
(* Issuing a link: request_password_reset, reset_member_password.          *)

\* The UPDATE that revokes the older links begins; it waits for rows in use.
RevokeOlder(l) ==
  /\ mode = "local"
  /\ links[l].status = "none"
  /\ Cardinality(Issuing) < MaxIssuing
  /\ links' = [links EXCEPT ![l] = [status |-> "revoking", seen |-> LiveLinks]]
  /\ UNCHANGED <<mode, changes, members, history, sessions, logins, resets>>

LockOlder(l) ==
  /\ links[l].status = "revoking"
  /\ links[l].seen \cap (HeldByIssuers \cup HeldByResets(Resets)) = {}
  /\ links' = [links EXCEPT ![l] = [status |-> "inserting", seen |-> @.seen \cap LiveLinks]]
  /\ UNCHANGED <<mode, changes, members, history, sessions, logins, resets>>

\* INSERT, commit, and delivery by mail.
IssueLink(l) ==
  /\ links[l].status = "inserting"
  /\ links' = [k \in Links |->
                 IF k = l THEN [status |-> "live", seen |-> {}]
                 ELSE IF k \in links[l].seen THEN [links[k] EXCEPT !.status = "revoked"]
                 ELSE links[k]]
  /\ UNCHANGED <<mode, changes, members, history, sessions, logins, resets>>

AbortIssue(l) ==
  /\ l \in Issuing
  /\ links' = [links EXCEPT ![l] = NoLink]
  /\ UNCHANGED <<mode, changes, members, history, sessions, logins, resets>>

ExpireLink(l) ==
  /\ links[l].status = "live"
  /\ links' = [links EXCEPT ![l].status = "expired"]
  /\ UNCHANGED <<mode, changes, members, history, sessions, logins, resets>>

-----------------------------------------------------------------------------
(* complete_password_reset                                                 *)

\* Mutant of LockLink: the link is read without FOR UPDATE.
ReadLink(r, l) ==
  /\ mode = "local"
  /\ resets[r].pc = "idle"
  /\ l \in LiveLinks
  /\ resets' = [resets EXCEPT ![r] = [IdleReset EXCEPT !.pc = "found", !.link = l]]
  /\ UNCHANGED <<mode, changes, members, history, links, sessions, logins>>

\* SELECT ... FOR UPDATE of a link that is neither used, revoked nor expired.
LockLink(r, l) ==
  /\ l \notin HeldByResets(Resets \ {r}) \cup HeldByIssuers
  /\ ReadLink(r, l)

\* UPDATE users: the row of the account is the transaction's until its end.
WritePassword(r) ==
  /\ resets[r].pc = "found"
  /\ \A q \in Resets : resets[q].pc \in {"idle", "found"}
  /\ resets' = [resets EXCEPT ![r].pc = "waiting", ![r].seen = LiveLinks]
  /\ UNCHANGED <<mode, changes, members, history, links, sessions, logins>>

\* The UPDATE of the account's links has the rows it found.
LockLinks(r) ==
  /\ resets[r].pc = "waiting"
  /\ resets[r].seen \cap (HeldByResets(Resets \ {r}) \cup HeldByIssuers) = {}
  /\ resets' = [resets EXCEPT ![r].pc = "locked", ![r].seen = @ \cap LiveLinks]
  /\ UNCHANGED <<mode, changes, members, history, links, sessions, logins>>

\* Mutant of SweepSessions: the sessions are left open.
SweepNothing(r) ==
  /\ resets[r].pc = "locked"
  /\ resets' = [resets EXCEPT ![r].pc = "swept"]
  /\ UNCHANGED <<mode, changes, members, history, links, sessions, logins>>

\* UPDATE web_sessions: finds the sessions that are committed by now.
SweepSessions(r) ==
  /\ resets[r].pc = "locked"
  /\ resets' = [resets EXCEPT ![r].pc = "swept", ![r].swept = LiveSessions]
  /\ UNCHANGED <<mode, changes, members, history, links, sessions, logins>>

CommitReset(r) ==
  /\ resets[r].pc = "swept"
  /\ history' = Append(history, resets[r].link)
  /\ links' = [l \in Links |->
                 IF l = resets[r].link THEN [links[l] EXCEPT !.status = "used"]
                 ELSE IF l \in resets[r].seen THEN [links[l] EXCEPT !.status = "revoked"]
                 ELSE links[l]]
  /\ sessions' = [s \in WebSessions |->
                    IF s \in resets[r].swept /\ sessions[s].status = "live"
                    THEN [sessions[s] EXCEPT !.status = "dead"] ELSE sessions[s]]
  /\ resets' = [resets EXCEPT ![r] = IdleReset]
  /\ UNCHANGED <<mode, changes, members, logins>>

\* A failing statement, or PostgreSQL's choice when two resets wait for
\* each other: the transaction is rolled back.
AbortReset(r) ==
  /\ resets[r].pc # "idle"
  /\ resets' = [resets EXCEPT ![r] = IdleReset]
  /\ UNCHANGED <<mode, changes, members, history, links, sessions, logins>>

-----------------------------------------------------------------------------
(* login, logout, switch_organization                                      *)

\* The hash is read and Argon2 compares it on a blocking thread; the
\* request presents the password that is right at this moment.
VerifyPassword(p) ==
  /\ mode = "local"
  /\ logins[p].pc = "idle"
  /\ logins' = [logins EXCEPT ![p] = [pc |-> "verified", password |-> Password]]
  /\ UNCHANGED <<mode, changes, members, history, links, sessions, resets>>

\* The row a sign-in inserts; the organization is chosen when there is one.
\* late records that a reset took place, or swept, since the hash was read.
NewSession(method, password) ==
  [status |-> "live", method |-> method,
   org |-> IF Cardinality(members) = 1 THEN CHOOSE o \in members : TRUE ELSE NoneSelected,
   password |-> password, changes |-> changes,
   late |-> password # Password \/ \E r \in Resets : resets[r].pc = "swept"]

OpenSession(p, s) ==
  /\ logins[p].pc = "verified"
  /\ sessions[s].status = "none"
  /\ members # {}
  /\ sessions' = [sessions EXCEPT ![s] = NewSession("local", logins[p].password)]
  /\ logins' = [logins EXCEPT ![p] = IdleLogin]
  /\ UNCHANGED <<mode, changes, members, history, links, resets>>

\* No membership is left, or a statement fails.
RefuseLogin(p) ==
  /\ logins[p].pc = "verified"
  /\ logins' = [logins EXCEPT ![p] = IdleLogin]
  /\ UNCHANGED <<mode, changes, members, history, links, sessions, resets>>

\* The transaction of issue_oidc_session (module Oidc), as one step.
OpenOidcSession(s) ==
  /\ mode = "oidc"
  /\ sessions[s].status = "none"
  /\ members # {}
  /\ sessions' = [sessions EXCEPT ![s] = NewSession("oidc", Password)]
  /\ UNCHANGED <<mode, changes, members, history, links, logins, resets>>

\* user_session_auth
Authorizes(s) == sessions[s].status = "live" /\ sessions[s].method = mode

\* logout, and the end of the session's lifetime.
EndSession(s) ==
  /\ sessions[s].status = "live"
  /\ sessions' = [sessions EXCEPT ![s].status = "dead"]
  /\ UNCHANGED <<mode, changes, members, history, links, logins, resets>>

SwitchOrganization(s, o) ==
  /\ Authorizes(s)
  /\ o \in members
  /\ sessions' = [sessions EXCEPT ![s].org = o]
  /\ UNCHANGED <<mode, changes, members, history, links, logins, resets>>

\* add_member or remove_member (module Membership), for this account.
ChangeMembership(o) ==
  /\ members' = IF o \in members THEN members \ {o} ELSE members \cup {o}
  /\ UNCHANGED <<mode, changes, history, links, sessions, logins, resets>>

\* reap_expired_identity_records: rows long dead are deleted.
Reap ==
  /\ \E s \in WebSessions : sessions[s].status = "dead"
  /\ sessions' = [s \in WebSessions |->
                    IF sessions[s].status = "dead" THEN [NoSession EXCEPT !.status = "gone"] ELSE sessions[s]]
  /\ UNCHANGED <<mode, changes, members, history, links, logins, resets>>

\* Mutant of Reconciled: only the mode changes.
ReconciledNothing(method) == sessions

\* reconcile_authentication_mode
Reconciled(method) ==
  [s \in WebSessions |-> IF sessions[s].status = "live" /\ sessions[s].method # method
                         THEN [sessions[s] EXCEPT !.status = "dead"] ELSE sessions[s]]

\* The server starts again with OIDC configured or removed; what it was
\* doing is rolled back.
ChangeMode(method) ==
  /\ method # mode
  /\ changes < MaxChanges
  /\ mode' = method
  /\ changes' = changes + 1
  /\ sessions' = Reconciled(method)
  /\ logins' = [p \in Logins |-> IdleLogin]
  /\ resets' = [r \in Resets |-> IdleReset]
  /\ links' = [l \in Links |-> IF l \in Issuing THEN NoLink ELSE links[l]]
  /\ UNCHANGED <<members, history>>

SessionsNext ==
  \/ \E l \in Links : RevokeOlder(l) \/ LockOlder(l) \/ IssueLink(l) \/ AbortIssue(l) \/ ExpireLink(l)
  \/ \E r \in Resets :
       \/ \E l \in Links : LockLink(r, l)
       \/ WritePassword(r) \/ LockLinks(r) \/ SweepSessions(r) \/ CommitReset(r) \/ AbortReset(r)
  \/ \E p \in Logins : VerifyPassword(p) \/ RefuseLogin(p) \/ \E s \in WebSessions : OpenSession(p, s)
  \/ \E s \in WebSessions :
       OpenOidcSession(s) \/ EndSession(s) \/ \E o \in AccountOrgs : SwitchOrganization(s, o)
  \/ \E o \in AccountOrgs : ChangeMembership(o)
  \/ Reap
  \/ \E method \in {"local", "oidc"} : ChangeMode(method)

SessionsSpec == SessionsInit /\ [][SessionsNext]_sessionVars

-----------------------------------------------------------------------------
\* The variables' types; one reset at a time has the account's row.
SessionsTypeOK ==
  /\ mode \in {"local", "oidc"}
  /\ changes \in 0..MaxChanges
  /\ members \subseteq AccountOrgs
  /\ history \in Seq(Links) /\ Len(history) <= Cardinality(Links)
  /\ links \in [Links -> [status : LinkStates, seen : SUBSET Links]]
  /\ sessions \in [WebSessions -> [status : {"none", "live", "dead", "gone"}, method : {"local", "oidc"},
                                   org : AccountOrgs \cup {NoneSelected}, password : 0..Cardinality(Links),
                                   changes : 0..MaxChanges, late : BOOLEAN]]
  /\ logins \in [Logins -> [pc : {"idle", "verified"}, password : 0..Cardinality(Links)]]
  /\ resets \in [Resets -> [pc : {"idle", "found", "waiting", "locked", "swept"}, link : Links,
                            seen : SUBSET Links, swept : SUBSET WebSessions]]
  /\ Cardinality({r \in Resets : resets[r].pc \in {"waiting", "locked", "swept"}}) <= 1

\* complete_password_reset: a link sets the password at most once, however
\* many requests present it at the same time and whatever aborts.
LinkSetsOnce == \A i, j \in 1..Len(history) : history[i] = history[j] => i = j

\* A live session that was opened with an earlier password belongs to a
\* sign-in that read the hash before the reset ended, or inserted its row
\* after the reset had swept: a session that was there is always closed.
OlderSessionsOverlapped ==
  \A s \in LiveSessions :
    sessions[s].method = "local" /\ sessions[s].password # Password => sessions[s].late

\* reconcile_authentication_mode and the check on every request together: a
\* session never authorizes after the authentication mode was changed, not
\* even once the mode it was opened in is back.
SessionsEndWithMode == \A s \in WebSessions : Authorizes(s) => sessions[s].changes = changes

=============================================================================
