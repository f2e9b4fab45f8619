-------------------------------- MODULE Oidc --------------------------------
(***************************************************************************)
(* Browser sign-in through the deployment's OpenID Connect provider        *)
(* (crates/metrune-api/src/oidc.rs), together with the other operation     *)
(* that creates accounts, accept_invitation (identity.rs).                 *)
(*                                                                         *)
(* A callback consumes its attempt, exchanges the code, verifies the token *)
(* against the cached signing key and, once, against a freshly discovered  *)
(* one, and then resolves the account and opens the session in a single    *)
(* transaction.  Transactions are split at their statements; what they     *)
(* write appears at the commit, rows they locked or unique keys they wrote *)
(* make others wait.  There is one issuer, so that a subject stands for    *)
(* the pair (issuer, subject).                                             *)
(***************************************************************************)
EXTENDS Naturals, FiniteSets

CONSTANTS
  Attempts,      \* rows of oidc_authorization_attempts
  Callbacks,     \* concurrent requests to the callback
  Invites,       \* invitations, each with an organization and an email
  InviteOrg, InviteEmail,
  Users,         \* rows of users that may come to exist
  Orgs,          \* organizations; the deployment begins with DefaultOrg
  DefaultOrg,
  Identities,    \* what the provider asserts: records of a subject and an email
  NoSubject,     \* the account is not bound to the provider yet
  MaxRotations   \* bound: rotations of the provider's signing key

ASSUME OidcAssumption ==
  /\ Attempts # {} /\ Users # {} /\ Identities # {}
  /\ DefaultOrg \in Orgs
  /\ InviteOrg \in [Invites -> Orgs]
  /\ MaxRotations \in Nat

VARIABLES
  provisioning,  \* METRUNE_OIDC_PROVISIONING: "none", "personal" or "default"
  attempts,    \* "none", "open" or "closed" (consumed or expired)
  callbacks,   \* the callbacks' progress
  invites,     \* the progress of accept_invitation on each invitation
  users,       \* committed rows of users
  orgs,        \* committed rows of organizations
  memberships,     \* active memberships: pairs of organization and user
  signedIn,    \* the sessions opened: attempt, callback, subject and user
  key,         \* the key the provider signs with and publishes
  cached       \* the key in the server's provider metadata

oidcVars == <<provisioning, attempts, callbacks, invites, users, orgs, memberships, signedIn, key, cached>>

Emails == {i.email : i \in Identities} \cup {InviteEmail[i] : i \in Invites}
Subjects == {i.subject : i \in Identities}

ASSUME SubjectsAssumption == NoSubject \notin Subjects

NoUser == [present |-> FALSE, org |-> DefaultOrg, email |-> CHOOSE e \in Emails : TRUE,
           subject |-> NoSubject]
SomeUser == CHOOSE u \in Users : TRUE
IdleCallback ==
  [pc |-> "idle", attempt |-> CHOOSE a \in Attempts : TRUE, keys |-> 0, signed |-> 0,
   who |-> CHOOSE i \in Identities : TRUE, user |-> SomeUser, row |-> NoUser]
OpenInvite == [pc |-> "open", user |-> SomeUser]

OidcInit ==
  /\ provisioning \in {"none", "personal", "default"}
  /\ attempts = [a \in Attempts |-> "none"]
  /\ callbacks = [c \in Callbacks |-> IdleCallback]
  /\ invites = [i \in Invites |-> OpenInvite]
  /\ users = [u \in Users |-> NoUser]
  /\ orgs = {DefaultOrg} \cup {InviteOrg[i] : i \in Invites}
  /\ memberships = {}
  /\ signedIn = {}
  /\ key = 0
  /\ cached = 0

Present == {u \in Users : users[u].present}
WithEmail(e) == {u \in Present : users[u].email = e}
Bound(s) == {u \in Present : users[u].subject = s}

\* Rows that transactions in progress have written and not committed yet.
Writing == {callbacks[c].row : c \in {c \in Callbacks : callbacks[c].pc = "session"}}
           \cup {[present |-> TRUE, org |-> InviteOrg[i], email |-> InviteEmail[i], subject |-> NoSubject]
                 : i \in {i \in Invites : invites[i].pc = "written"}}

\* UNIQUE (issuer, subject) and UNIQUE (organization_id, email).
Clash(row, other) ==
  /\ other.present
  /\ \/ row.subject # NoSubject /\ row.subject = other.subject
     \/ row.org = other.org /\ row.email = other.email

Held(u) == \E c \in Callbacks : callbacks[c].pc \in {"bind", "session"} /\ callbacks[c].user = u
Fresh(u) ==
  u \notin Present /\ ~Held(u) /\ \A i \in Invites : invites[i].pc = "written" => invites[i].user # u

-----------------------------------------------------------------------------
(* The provider and the browser                                            *)

\* start
Start(a) ==
  /\ attempts[a] = "none"
  /\ attempts' = [attempts EXCEPT ![a] = "open"]
  /\ UNCHANGED <<callbacks, invites, users, orgs, memberships, signedIn, key, cached>>

ExpireAttempt(a) ==
  /\ attempts[a] = "open"
  /\ attempts' = [attempts EXCEPT ![a] = "closed"]
  /\ UNCHANGED <<callbacks, invites, users, orgs, memberships, signedIn, key, cached>>

RotateKey ==
  /\ key < MaxRotations
  /\ key' = key + 1
  /\ UNCHANGED <<attempts, callbacks, invites, users, orgs, memberships, signedIn, cached>>

-----------------------------------------------------------------------------
(* callback_inner, up to the verified identity                             *)

\* Mutant of Consume: the attempt is read here and closed with the session.
ConsumeLate(c, a) ==
  /\ callbacks[c].pc = "idle"
  /\ attempts[a] = "open"
  /\ callbacks' = [callbacks EXCEPT ![c] = [IdleCallback EXCEPT !.pc = "exchange", !.attempt = a, !.keys = cached]]
  /\ UNCHANGED <<attempts, invites, users, orgs, memberships, signedIn, key, cached>>

\* One UPDATE ... RETURNING takes the attempt; the metadata is copied.
Consume(c, a) ==
  /\ callbacks[c].pc = "idle"
  /\ attempts[a] = "open"
  /\ attempts' = [attempts EXCEPT ![a] = "closed"]
  /\ callbacks' = [callbacks EXCEPT ![c] = [IdleCallback EXCEPT !.pc = "exchange", !.attempt = a, !.keys = cached]]
  /\ UNCHANGED <<invites, users, orgs, memberships, signedIn, key, cached>>

\* The provider answers with a token for one of its identities.
Exchange(c) ==
  /\ callbacks[c].pc = "exchange"
  /\ \E who \in Identities :
       callbacks' = [callbacks EXCEPT ![c].pc = "verify", ![c].signed = key, ![c].who = who]
  /\ UNCHANGED <<attempts, invites, users, orgs, memberships, signedIn, key, cached>>

Verify(c) ==
  /\ callbacks[c].pc = "verify"
  /\ callbacks' = [callbacks EXCEPT ![c].pc =
                     IF callbacks[c].signed = callbacks[c].keys THEN "resolve" ELSE "refresh"]
  /\ UNCHANGED <<attempts, invites, users, orgs, memberships, signedIn, key, cached>>

\* refresh_metadata, and the second and last verification.
Refresh(c) ==
  /\ callbacks[c].pc = "refresh"
  /\ cached' = key
  /\ callbacks' = [callbacks EXCEPT ![c].pc = IF callbacks[c].signed = key THEN "resolve" ELSE "refused"]
  /\ UNCHANGED <<attempts, invites, users, orgs, memberships, signedIn, key>>

\* The provider reports an error, sends no token or cannot be reached, or a
\* statement of the transaction fails, which is rolled back.
CallbackFails(c) ==
  /\ callbacks[c].pc \notin {"idle", "refused", "unavailable", "conflict"}
  /\ callbacks' = [callbacks EXCEPT ![c] = IdleCallback]
  /\ UNCHANGED <<attempts, invites, users, orgs, memberships, signedIn, key, cached>>

-----------------------------------------------------------------------------
(* resolve_user and issue_oidc_session                                     *)

\* Mutant of BySubject: the account is looked up by email first.
BySubjectLast(c) ==
  /\ callbacks[c].pc = "resolve"
  /\ LET found == IF WithEmail(callbacks[c].who.email) # {} THEN WithEmail(callbacks[c].who.email)
                  ELSE Bound(callbacks[c].who.subject)
     IN \/ /\ found = {}
           /\ callbacks' = [callbacks EXCEPT ![c].pc = "email"]
        \/ \E u \in found : /\ ~Held(u)
                            /\ callbacks' = [callbacks EXCEPT ![c].pc = "session", ![c].user = u,
                                                              ![c].row = users[u]]
  /\ UNCHANGED <<attempts, invites, users, orgs, memberships, signedIn, key, cached>>

BySubject(c) ==
  /\ callbacks[c].pc = "resolve"
  /\ LET found == Bound(callbacks[c].who.subject)
     IN \/ /\ found = {}
           /\ callbacks' = [callbacks EXCEPT ![c].pc = "email"]
        \/ \E u \in found : /\ ~Held(u)
                            /\ callbacks' = [callbacks EXCEPT ![c].pc = "session", ![c].user = u,
                                                              ![c].row = users[u]]
  /\ UNCHANGED <<attempts, invites, users, orgs, memberships, signedIn, key, cached>>

\* Several accounts, or one that is bound already, are a conflict; a single
\* unbound one is locked.
ByEmail(c) ==
  /\ callbacks[c].pc = "email"
  /\ LET found == WithEmail(callbacks[c].who.email)
     IN /\ \A u \in found : ~Held(u)
        /\ callbacks' =
             [callbacks EXCEPT ![c] =
                IF found = {} THEN [@ EXCEPT !.pc = IF provisioning = "none" THEN "unavailable" ELSE "provision"]
                ELSE IF Cardinality(found) = 1 /\ \A u \in found : users[u].subject = NoSubject
                THEN [@ EXCEPT !.pc = "bind", !.user = CHOOSE u \in found : TRUE]
                ELSE [@ EXCEPT !.pc = "conflict"]]
  /\ UNCHANGED <<attempts, invites, users, orgs, memberships, signedIn, key, cached>>

\* Writes the row, or meets a committed one with the same unique key; waits
\* as long as a transaction in progress has written such a row.
WriteUser(c, u, row) ==
  /\ \A other \in Writing : ~Clash(row, other)
  /\ callbacks' = [callbacks EXCEPT ![c] =
                     IF \E v \in Present \ {u} : Clash(row, users[v]) THEN [@ EXCEPT !.pc = "conflict"]
                     ELSE [@ EXCEPT !.pc = "session", !.user = u, !.row = row]]

Bind(c) ==
  /\ callbacks[c].pc = "bind"
  /\ WriteUser(c, callbacks[c].user,
               [users[callbacks[c].user] EXCEPT !.subject = callbacks[c].who.subject])
  /\ UNCHANGED <<attempts, invites, users, orgs, memberships, signedIn, key, cached>>

NewOrg(o) ==
  IF provisioning = "default" THEN o = DefaultOrg
  ELSE o \notin orgs /\ \A c \in Callbacks : callbacks[c].pc = "session" => callbacks[c].row.org # o

\* insert_oidc_user and insert_membership, in the default organization or in
\* a personal one inserted by the same transaction.
Provision(c) ==
  /\ callbacks[c].pc = "provision"
  /\ \E u \in Users, o \in Orgs :
       /\ Fresh(u) /\ NewOrg(o)
       /\ WriteUser(c, u, [present |-> TRUE, org |-> o, email |-> callbacks[c].who.email,
                           subject |-> callbacks[c].who.subject])
  /\ UNCHANGED <<attempts, invites, users, orgs, memberships, signedIn, key, cached>>

\* The memberships are read, the session inserted, and all is committed; an
\* account without a membership is refused and nothing stays.
IssueSession(c) ==
  /\ callbacks[c].pc = "session"
  /\ LET call == callbacks[c]
         joined == IF call.user \in Present THEN memberships ELSE memberships \cup {<<call.row.org, call.user>>}
     IN IF \E o \in Orgs : <<o, call.user>> \in joined
        THEN /\ users' = [users EXCEPT ![call.user] = call.row]
             /\ orgs' = orgs \cup {call.row.org}
             /\ memberships' = joined
             /\ signedIn' = signedIn \cup {[attempt |-> call.attempt, callback |-> c,
                                            subject |-> call.who.subject, user |-> call.user]}
             /\ callbacks' = [callbacks EXCEPT ![c] = IdleCallback]
        ELSE /\ callbacks' = [callbacks EXCEPT ![c].pc = "unavailable"]
             /\ UNCHANGED <<users, orgs, memberships, signedIn>>
  /\ UNCHANGED <<attempts, invites, key, cached>>

-----------------------------------------------------------------------------
(* accept_invitation, as far as it creates accounts, and removals          *)

\* The accounts with the invited email: none, or the caller's own.
ReadInvite(i) ==
  /\ invites[i].pc = "open"
  /\ LET found == WithEmail(InviteEmail[i])
     IN \/ /\ found = {}
           /\ invites' = [invites EXCEPT ![i].pc = "insert"]
        \/ /\ Cardinality(found) = 1
           /\ \E s \in signedIn : s.user \in found
           /\ invites' = [invites EXCEPT ![i] = [pc |-> "join", user |-> CHOOSE u \in found : TRUE]]
  /\ UNCHANGED <<attempts, callbacks, users, orgs, memberships, signedIn, key, cached>>

\* INSERT INTO users; a clash with a committed row fails the request, and
\* the invitation can be tried again.
InsertInvited(i) ==
  /\ invites[i].pc = "insert"
  /\ LET row == [present |-> TRUE, org |-> InviteOrg[i], email |-> InviteEmail[i], subject |-> NoSubject]
     IN /\ \A other \in Writing : ~Clash(row, other)
        /\ IF \E v \in Present : Clash(row, users[v])
           THEN invites' = [invites EXCEPT ![i] = OpenInvite]
           ELSE \E u \in Users : Fresh(u) /\ invites' = [invites EXCEPT ![i] = [pc |-> "written", user |-> u]]
  /\ UNCHANGED <<attempts, callbacks, users, orgs, memberships, signedIn, key, cached>>

AcceptInvitation(i) ==
  /\ invites[i].pc \in {"written", "join"}
  /\ users' = IF invites[i].pc = "join" THEN users
              ELSE [users EXCEPT ![invites[i].user] =
                      [present |-> TRUE, org |-> InviteOrg[i], email |-> InviteEmail[i], subject |-> NoSubject]]
  /\ memberships' = memberships \cup {<<InviteOrg[i], invites[i].user>>}
  /\ invites' = [invites EXCEPT ![i].pc = "accepted"]
  /\ UNCHANGED <<attempts, callbacks, orgs, signedIn, key, cached>>

RemoveMember(m) ==
  /\ memberships' = memberships \ {m}
  /\ UNCHANGED <<attempts, callbacks, invites, users, orgs, signedIn, key, cached>>

OidcNext ==
  /\ UNCHANGED provisioning
  /\ \/ \E a \in Attempts : Start(a) \/ ExpireAttempt(a) \/ \E c \in Callbacks : Consume(c, a)
     \/ \E c \in Callbacks :
          \/ Exchange(c) \/ Verify(c) \/ Refresh(c) \/ CallbackFails(c)
          \/ BySubject(c) \/ ByEmail(c) \/ Bind(c) \/ Provision(c) \/ IssueSession(c)
     \/ \E i \in Invites : ReadInvite(i) \/ InsertInvited(i) \/ AcceptInvitation(i)
     \/ \E m \in memberships : RemoveMember(m)
     \/ RotateKey

OidcSpec == OidcInit /\ [][OidcNext]_oidcVars

-----------------------------------------------------------------------------
UserRow == [present : BOOLEAN, org : Orgs, email : Emails, subject : Subjects \cup {NoSubject}]
CallbackRow ==
  [pc : {"idle", "exchange", "verify", "refresh", "resolve", "email", "bind", "provision", "session",
         "refused", "unavailable", "conflict"},
   attempt : Attempts, keys : 0..MaxRotations, signed : 0..MaxRotations,
   who : Identities, user : Users, row : UserRow]
InviteRow == [pc : {"open", "insert", "join", "written", "accepted"}, user : Users]
SessionOpened == [attempt : Attempts, callback : Callbacks, subject : Subjects, user : Users]

\* The variables' types; a membership joins rows that exist, and the key in
\* the cache was published.
OidcTypeOK ==
  /\ attempts \in [Attempts -> {"none", "open", "closed"}]
  /\ callbacks \in [Callbacks -> CallbackRow]
  /\ invites \in [Invites -> InviteRow]
  /\ users \in [Users -> UserRow]
  /\ orgs \subseteq Orgs
  /\ memberships \subseteq orgs \X Present
  /\ signedIn \subseteq SessionOpened
  /\ key \in 0..MaxRotations /\ cached \in 0..key

\* callback: an attempt opens at most one session, however often and however
\* concurrently the browser presents it.
OneSessionPerAttempt ==
  \A s, t \in signedIn : s.attempt = t.attempt => s = t

\* resolve_user: the subject is the identity.  Whoever signs in with it
\* reaches the same account every time, also when the provider has changed or
\* reassigned email addresses in between and sign-ins overlap.
SubjectIsStable == \A s, t \in signedIn : s.subject = t.subject <=> s.user = t.user

=============================================================================
