--------------------------- MODULE IdentityProofs ---------------------------
(***************************************************************************)
(* Proofs about the accounts of the dashboard: reset links and web         *)
(* sessions (module Sessions) and the sign-in through the provider (module *)
(* Oidc), for any number of concurrent requests.                           *)
(***************************************************************************)
EXTENDS Sessions, Oidc, FiniteSetTheorems, TLAPS

-----------------------------------------------------------------------------
(* Reset links and sessions                                                *)

\* The rows of password_reset_tokens that one transaction has locked.
RowsOfReset(r) ==
  IF resets[r].pc = "idle" THEN {}
  ELSE {resets[r].link} \cup IF resets[r].pc = "waiting" THEN {} ELSE resets[r].seen
RowsOfIssuer(l) == IF links[l].status = "inserting" THEN links[l].seen ELSE {}

\* The types the proofs need.
LinkRow == [status : LinkStates, seen : SUBSET Links]
SessionRow ==
  [status : {"none", "live", "dead", "gone"}, method : {"local", "oidc"},
   org : AccountOrgs \cup {NoneSelected}, password : Nat, changes : Nat, late : BOOLEAN]
Login == [pc : {"idle", "verified"}, password : Nat]
AnyLink == CHOOSE l \in Links : TRUE
Reset ==
  [pc : {"idle", "found", "waiting", "locked", "swept"}, link : Links \cup {AnyLink},
   seen : SUBSET Links, swept : SUBSET WebSessions]

SessionShapes ==
  /\ mode \in {"local", "oidc"}
  /\ changes \in Nat
  /\ members \subseteq AccountOrgs
  /\ history \in Seq(Links)
  /\ links \in [Links -> LinkRow]
  /\ sessions \in [WebSessions -> SessionRow]
  /\ logins \in [Logins -> Login]
  /\ resets \in [Resets -> Reset]

\* What a transaction has locked is a row that no other has locked and that
\* was neither used nor revoked; a link that set a password is used.
OpenLinks == {l \in Links : links[l].status \in {"live", "expired"}}
RowLocks ==
  /\ \A r \in Resets : RowsOfReset(r) \subseteq OpenLinks
  /\ \A l \in Links : RowsOfIssuer(l) \subseteq OpenLinks
  /\ \A r, q \in Resets : r # q => RowsOfReset(r) \cap RowsOfReset(q) = {}
  /\ \A l, k \in Links : l # k => RowsOfIssuer(l) \cap RowsOfIssuer(k) = {}
  /\ \A r \in Resets, l \in Links : RowsOfReset(r) \cap RowsOfIssuer(l) = {}

\* A link that set a password is used.
PasswordLinks == \A i \in 1..Len(history) : links[history[i]].status = "used"

\* A live session was opened in this mode, and since its last change; a
\* sign-in with a password is only under way in the local mode.
SessionsOfTheMode ==
  /\ \A s \in WebSessions :
       sessions[s].status = "live" => sessions[s].method = mode /\ sessions[s].changes = changes
  /\ \A p \in Logins : logins[p].pc = "verified" => mode = "local"

\* A session that is not late has the present password, and a reset that has
\* swept will close it.
SweptSessions ==
  \A s \in WebSessions :
    sessions[s].status = "live" /\ sessions[s].method = "local" /\ ~sessions[s].late =>
      /\ sessions[s].password = Password
      /\ \A r \in Resets : resets[r].pc = "swept" => s \in resets[r].swept

SessionsInv == SessionShapes /\ RowLocks /\ PasswordLinks /\ SessionsOfTheMode /\ SweptSessions /\ LinkSetsOnce

LEMMA IdleResetShape ==
  /\ IdleReset = [pc |-> "idle", link |-> AnyLink, seen |-> {}, swept |-> {}]
  /\ IdleReset \in Reset
<1>1. IdleReset = [pc |-> "idle", link |-> AnyLink, seen |-> {}, swept |-> {}]
  BY DEF IdleReset, AnyLink
<1> QED
  BY <1>1 DEF Reset

LEMMA SessionsInitInv == SessionsInit => SessionsInv
<1> SUFFICES ASSUME SessionsInit PROVE SessionsInv
  OBVIOUS
<1>1. SessionShapes
  BY IdleResetShape DEF SessionsInit, SessionShapes, NoLink, LinkStates, NoSession, IdleLogin,
         LinkRow, SessionRow, Login
<1>2. RowLocks
  BY IdleResetShape DEF SessionsInit, RowLocks, RowsOfReset, RowsOfIssuer, NoLink
<1>3. PasswordLinks
  BY DEF SessionsInit, PasswordLinks
<1>4. SessionsOfTheMode /\ SweptSessions /\ LinkSetsOnce
  BY DEF SessionsInit, SessionsOfTheMode, SweptSessions, LinkSetsOnce, NoSession, IdleLogin
<1> QED
  BY <1>1, <1>2, <1>3, <1>4 DEF SessionsInv

\* The rows some transaction has locked, transaction by transaction.
LEMMA LockedRows ==
  /\ \A rs \in SUBSET Resets : \A x : x \in HeldByResets(rs) <=> \E r \in rs : x \in RowsOfReset(r)
  /\ \A x : x \in HeldByIssuers <=> \E l \in Links : x \in RowsOfIssuer(l)
BY DEF HeldByResets, HeldByIssuers, RowsOfReset, RowsOfIssuer

\* A new session has the shape of a row.
LEMMA NewSessionShape ==
  ASSUME SessionShapes, NEW method \in {"local", "oidc"}, NEW password \in Nat
  PROVE  NewSession(method, password) \in SessionRow
<1> DEFINE org == IF Cardinality(members) = 1 THEN CHOOSE o \in members : TRUE ELSE NoneSelected
<1> DEFINE late == password # Password \/ \E r \in Resets : resets[r].pc = "swept"
<1>1. org \in AccountOrgs \cup {NoneSelected}
  <2>1. CASE Cardinality(members) = 1
    <3>1. members # {}
      BY <2>1, FS_EmptySet
    <3> QED
      BY <3>1, <2>1 DEF SessionShapes
  <2> QED
    BY <2>1
<1>2. late \in BOOLEAN
  OBVIOUS
<1>3. NewSession(method, password) =
        [status |-> "live", method |-> method, org |-> org, password |-> password, changes |-> changes,
         late |-> late]
  BY DEF NewSession
<1> HIDE DEF org, late
<1> QED
  BY <1>1, <1>2, <1>3 DEF SessionShapes, SessionRow

\* A reset that has begun holds a row that exists.
LEMMA LinkOfReset ==
  ASSUME RowLocks, NEW r \in Resets, resets[r].pc # "idle"
  PROVE  /\ resets[r].link \in Links
         /\ links[resets[r].link].status \in {"live", "expired"}
BY DEF RowLocks, RowsOfReset, OpenLinks

LEMMA SessionShapesStep ==
  ASSUME SessionShapes, RowLocks, SessionsNext
  PROVE  SessionShapes'
<1> USE DEF SessionShapes
<1>1. ASSUME NEW l \in Links,
             RevokeOlder(l) \/ LockOlder(l) \/ IssueLink(l) \/ AbortIssue(l) \/ ExpireLink(l)
      PROVE  SessionShapes'
  <2>1. links' \in [Links -> LinkRow]
    <3>1. CASE RevokeOlder(l)
      BY <3>1 DEF RevokeOlder, LinkRow, LinkStates, LiveLinks
    <3>2. CASE LockOlder(l)
      BY <3>2 DEF LockOlder, LinkRow, LinkStates, LiveLinks
    <3>3. CASE IssueLink(l)
      BY <3>3 DEF IssueLink, LinkRow, LinkStates
    <3>4. CASE AbortIssue(l) \/ ExpireLink(l)
      BY <3>4 DEF AbortIssue, ExpireLink, NoLink, LinkRow, LinkStates
    <3> QED
      BY <1>1, <3>1, <3>2, <3>3, <3>4
  <2>2. UNCHANGED <<mode, changes, members, history, sessions, logins, resets>>
    BY <1>1 DEF RevokeOlder, LockOlder, IssueLink, AbortIssue, ExpireLink
  <2> QED
    BY <2>1, <2>2
<1>2. ASSUME NEW r \in Resets,
             \/ \E l \in Links : LockLink(r, l)
             \/ WritePassword(r) \/ LockLinks(r) \/ SweepSessions(r) \/ AbortReset(r)
      PROVE  SessionShapes'
  <2>1. resets' \in [Resets -> Reset]
    <3>1. CASE \E l \in Links : LockLink(r, l)
      <4> PICK l \in Links : resets' = [resets EXCEPT ![r] = [IdleReset EXCEPT !.pc = "found", !.link = l]]
        BY <3>1 DEF LockLink, ReadLink
      <4>1. [IdleReset EXCEPT !.pc = "found", !.link = l] \in Reset
        BY IdleResetShape DEF Reset
      <4> QED
        BY <4>1
    <3>2. CASE WritePassword(r)
      <4>1. LiveLinks \in SUBSET Links
        BY DEF LiveLinks
      <4>2. resets' = [resets EXCEPT ![r].pc = "waiting", ![r].seen = LiveLinks]
        BY <3>2 DEF WritePassword
      <4> QED
        BY <4>1, <4>2 DEF Reset
    <3>3. CASE LockLinks(r)
      BY <3>3 DEF LockLinks, Reset, LiveLinks
    <3>4. CASE SweepSessions(r)
      BY <3>4 DEF SweepSessions, Reset, LiveSessions
    <3>5. CASE AbortReset(r)
      BY <3>5, IdleResetShape DEF AbortReset
    <3> QED
      BY <1>2, <3>1, <3>2, <3>3, <3>4, <3>5
  <2>2. UNCHANGED <<mode, changes, members, history, links, sessions, logins>>
    BY <1>2 DEF LockLink, ReadLink, WritePassword, LockLinks, SweepSessions, AbortReset
  <2> QED
    BY <2>1, <2>2
<1>3. ASSUME NEW r \in Resets, CommitReset(r) PROVE SessionShapes'
  <2>1. history' \in Seq(Links)
    BY <1>3, LinkOfReset DEF CommitReset
  <2>2. resets' \in [Resets -> Reset]
    BY <1>3, IdleResetShape DEF CommitReset
  <2>3. links' \in [Links -> LinkRow]
    BY <1>3 DEF CommitReset, LinkRow, LinkStates
  <2>4. sessions' \in [WebSessions -> SessionRow]
    BY <1>3 DEF CommitReset, SessionRow
  <2> QED
    BY <1>3, <2>1, <2>2, <2>3, <2>4 DEF CommitReset
<1>4. ASSUME NEW p \in Logins,
             VerifyPassword(p) \/ RefuseLogin(p) \/ \E s \in WebSessions : OpenSession(p, s)
      PROVE  SessionShapes'
  <2>1. CASE VerifyPassword(p) \/ RefuseLogin(p)
    <3>1. Password \in Nat
      BY DEF Password
    <3> QED
      BY <2>1, <3>1 DEF VerifyPassword, RefuseLogin, IdleLogin, Login
  <2>2. ASSUME NEW s \in WebSessions, OpenSession(p, s) PROVE SessionShapes'
    <3>1. logins[p].password \in Nat
      BY DEF Login
    <3>2. logins' \in [Logins -> Login]
      BY <2>2 DEF OpenSession, IdleLogin, Login
    <3> QED
      BY <2>2, <3>1, <3>2, NewSessionShape DEF OpenSession
  <2> QED
    BY <1>4, <2>1, <2>2
<1>5. ASSUME NEW s \in WebSessions,
             OpenOidcSession(s) \/ EndSession(s) \/ \E o \in AccountOrgs : SwitchOrganization(s, o)
      PROVE  SessionShapes'
  <2>1. CASE OpenOidcSession(s)
    <3>1. Password \in Nat
      BY DEF Password
    <3> QED
      BY <2>1, <3>1, NewSessionShape DEF OpenOidcSession
  <2>2. CASE EndSession(s)
    BY <2>2 DEF EndSession, SessionRow
  <2>3. CASE \E o \in AccountOrgs : SwitchOrganization(s, o)
    BY <2>3 DEF SwitchOrganization, SessionRow
  <2> QED
    BY <1>5, <2>1, <2>2, <2>3
<1>6. ASSUME NEW o \in AccountOrgs, ChangeMembership(o) PROVE SessionShapes'
  BY <1>6 DEF ChangeMembership
<1>7. CASE Reap
  BY <1>7 DEF Reap, NoSession, SessionRow
<1>8. ASSUME NEW method \in {"local", "oidc"}, ChangeMode(method) PROVE SessionShapes'
  <2>1. links' \in [Links -> LinkRow]
    BY <1>8 DEF ChangeMode, NoLink, LinkRow, LinkStates
  <2>2. sessions' \in [WebSessions -> SessionRow]
    BY <1>8 DEF ChangeMode, Reconciled, SessionRow
  <2>3. logins' \in [Logins -> Login] /\ resets' \in [Resets -> Reset]
    BY <1>8, IdleResetShape DEF ChangeMode, IdleLogin, Login
  <2> QED
    BY <1>8, <2>1, <2>2, <2>3 DEF ChangeMode
<1> QED
  BY <1>1, <1>2, <1>3, <1>4, <1>5, <1>6, <1>7, <1>8 DEF SessionsNext

\* A transaction locks rows only when no other has, and those it revokes or
\* uses when it ends are its own.
LEMMA RowLocksStep ==
  ASSUME SessionShapes, RowLocks, SessionsNext
  PROVE  RowLocks'
<1>1. ASSUME NEW l \in Links,
             RevokeOlder(l) \/ LockOlder(l) \/ IssueLink(l) \/ AbortIssue(l) \/ ExpireLink(l)
      PROVE  RowLocks'
  <2>0. \A r \in Resets : RowsOfReset(r)' = RowsOfReset(r)
    BY <1>1 DEF RevokeOlder, LockOlder, IssueLink, AbortIssue, ExpireLink, RowsOfReset
  <2>1. CASE RevokeOlder(l) \/ ExpireLink(l)
    <3>1. \A k \in Links : RowsOfIssuer(k)' = RowsOfIssuer(k)
      BY <2>1 DEF RevokeOlder, ExpireLink, RowsOfIssuer, SessionShapes, LinkRow
    <3>2. \A k \in Links : links[k].status \in {"live", "expired"} => links'[k].status \in {"live", "expired"}
      BY <2>1 DEF RevokeOlder, ExpireLink, SessionShapes, LinkRow
    <3>3. OpenLinks \subseteq OpenLinks'
      BY <3>2 DEF OpenLinks
    <3> QED
      BY <2>0, <3>1, <3>3 DEF RowLocks
  <2>2. CASE LockOlder(l)
    <3>1. /\ RowsOfIssuer(l)' = links[l].seen \cap LiveLinks
          /\ \A k \in Links \ {l} : RowsOfIssuer(k)' = RowsOfIssuer(k)
      BY <2>2 DEF LockOlder, RowsOfIssuer, SessionShapes, LinkRow
    <3>2. OpenLinks' = OpenLinks /\ LiveLinks \subseteq OpenLinks
      BY <2>2 DEF LockOlder, OpenLinks, LiveLinks, SessionShapes, LinkRow
    <3>3. /\ \A r \in Resets : links[l].seen \cap RowsOfReset(r) = {}
          /\ \A k \in Links : links[l].seen \cap RowsOfIssuer(k) = {}
      BY <2>2, LockedRows DEF LockOlder
    <3> QED
      BY <2>0, <3>1, <3>2, <3>3 DEF RowLocks
  <2>3. CASE IssueLink(l)
    <3>1. l \notin OpenLinks /\ RowsOfIssuer(l) = links[l].seen
      BY <2>3 DEF IssueLink, OpenLinks, RowsOfIssuer
    <3>2. RowsOfIssuer(l)' = {}
      BY <2>3 DEF IssueLink, RowsOfIssuer
    <3>3. \A k \in Links \ {l} : RowsOfIssuer(k)' = RowsOfIssuer(k)
      <4> TAKE k \in Links \ {l}
      <4>1. CASE k \in links[l].seen
        <5>1. k \in OpenLinks
          BY <4>1, <3>1 DEF RowLocks
        <5> QED
          BY <2>3, <4>1, <5>1 DEF IssueLink, RowsOfIssuer, OpenLinks, SessionShapes, LinkRow
      <4>2. CASE k \notin links[l].seen
        BY <2>3, <4>2 DEF IssueLink, RowsOfIssuer
      <4> QED
        BY <4>1, <4>2
    <3>4. OpenLinks' = (OpenLinks \ RowsOfIssuer(l)) \cup {l}
      BY <2>3, <3>1 DEF IssueLink, OpenLinks, SessionShapes, LinkRow
    <3> QED
      BY <2>0, <3>1, <3>2, <3>3, <3>4 DEF RowLocks
  <2>4. CASE AbortIssue(l)
    <3>1. RowsOfIssuer(l)' = {} /\ \A k \in Links \ {l} : RowsOfIssuer(k)' = RowsOfIssuer(k)
      BY <2>4 DEF AbortIssue, RowsOfIssuer, NoLink, SessionShapes
    <3>2. OpenLinks' = OpenLinks
      BY <2>4 DEF AbortIssue, Issuing, OpenLinks, NoLink, SessionShapes, LinkRow
    <3> QED
      BY <2>0, <3>1, <3>2 DEF RowLocks
  <2> QED
    BY <1>1, <2>1, <2>2, <2>3, <2>4
<1>2. ASSUME NEW r \in Resets,
             \/ \E l \in Links : LockLink(r, l)
             \/ WritePassword(r) \/ LockLinks(r) \/ SweepSessions(r) \/ AbortReset(r)
      PROVE  RowLocks'
  <2>0. /\ OpenLinks' = OpenLinks
        /\ \A l \in Links : RowsOfIssuer(l)' = RowsOfIssuer(l)
        /\ \A q \in Resets \ {r} : RowsOfReset(q)' = RowsOfReset(q)
    BY <1>2 DEF LockLink, ReadLink, WritePassword, LockLinks, SweepSessions, AbortReset, OpenLinks,
                RowsOfIssuer, RowsOfReset, SessionShapes
  <2>1. ASSUME NEW l \in Links, LockLink(r, l) PROVE RowLocks'
    <3>1. RowsOfReset(r)' = {l} /\ l \in OpenLinks
      BY <2>1, IdleResetShape DEF LockLink, ReadLink, RowsOfReset, SessionShapes, OpenLinks, LiveLinks
    <3>2. /\ \A q \in Resets \ {r} : l \notin RowsOfReset(q)
          /\ \A k \in Links : l \notin RowsOfIssuer(k)
      BY <2>1, LockedRows DEF LockLink
    <3> QED
      BY <2>0, <3>1, <3>2 DEF RowLocks
  <2>2. CASE WritePassword(r)
    <3>1. RowsOfReset(r)' \subseteq RowsOfReset(r)
      BY <2>2 DEF WritePassword, RowsOfReset, SessionShapes, Reset
    <3> QED
      BY <2>0, <3>1 DEF RowLocks
  <2>3. CASE LockLinks(r)
    <3>1. /\ RowsOfReset(r) = {resets[r].link}
          /\ RowsOfReset(r)' = {resets[r].link} \cup (resets[r].seen \cap LiveLinks)
      BY <2>3 DEF LockLinks, RowsOfReset, SessionShapes, Reset
    <3>2. /\ \A q \in Resets \ {r} : resets[r].seen \cap RowsOfReset(q) = {}
          /\ \A l \in Links : resets[r].seen \cap RowsOfIssuer(l) = {}
      BY <2>3, LockedRows DEF LockLinks
    <3>3. LiveLinks \subseteq OpenLinks
      BY DEF LiveLinks, OpenLinks
    <3> QED
      BY <2>0, <3>1, <3>2, <3>3 DEF RowLocks
  <2>4. CASE SweepSessions(r)
    <3>1. RowsOfReset(r)' = RowsOfReset(r)
      BY <2>4 DEF SweepSessions, RowsOfReset, SessionShapes, Reset
    <3> QED
      BY <2>0, <3>1 DEF RowLocks
  <2>5. CASE AbortReset(r)
    <3>1. RowsOfReset(r)' = {}
      BY <2>5, IdleResetShape DEF AbortReset, RowsOfReset, SessionShapes
    <3> QED
      BY <2>0, <3>1 DEF RowLocks
  <2> QED
    BY <1>2, <2>1, <2>2, <2>3, <2>4, <2>5
<1>3. ASSUME NEW r \in Resets, CommitReset(r) PROVE RowLocks'
  <2>1. RowsOfReset(r) = {resets[r].link} \cup resets[r].seen
    BY <1>3 DEF CommitReset, RowsOfReset
  <2>2. RowsOfReset(r)' = {} /\ \A q \in Resets \ {r} : RowsOfReset(q)' = RowsOfReset(q)
    BY <1>3, IdleResetShape DEF CommitReset, RowsOfReset, SessionShapes
  <2>3. OpenLinks' = OpenLinks \ RowsOfReset(r)
    BY <1>3, <2>1 DEF CommitReset, OpenLinks, SessionShapes, LinkRow
  <2>4. \A l \in Links : RowsOfIssuer(l)' = RowsOfIssuer(l)
    <3> TAKE l \in Links
    <3>1. CASE l \in RowsOfReset(r)
      <4>1. l \in OpenLinks
        BY <3>1 DEF RowLocks
      <4> QED
        BY <1>3, <2>1, <3>1, <4>1 DEF CommitReset, RowsOfIssuer, OpenLinks, SessionShapes, LinkRow
    <3>2. CASE l \notin RowsOfReset(r)
      BY <1>3, <2>1, <3>2 DEF CommitReset, RowsOfIssuer
    <3> QED
      BY <3>1, <3>2
  <2> QED
    BY <2>2, <2>3, <2>4 DEF RowLocks
<1>4. ASSUME UNCHANGED <<links, resets>> PROVE RowLocks'
  BY <1>4 DEF RowLocks, RowsOfReset, RowsOfIssuer, OpenLinks
<1>5. ASSUME NEW method \in {"local", "oidc"}, ChangeMode(method) PROVE RowLocks'
  <2>1. \A r \in Resets : RowsOfReset(r)' = {}
    BY <1>5, IdleResetShape DEF ChangeMode, RowsOfReset
  <2>2. \A l \in Links : RowsOfIssuer(l)' = {}
    BY <1>5 DEF ChangeMode, RowsOfIssuer, Issuing, NoLink
  <2> QED
    BY <2>1, <2>2 DEF RowLocks
<1> QED
  BY <1>1, <1>2, <1>3, <1>4, <1>5
  DEF SessionsNext, VerifyPassword, RefuseLogin, OpenSession, OpenOidcSession, EndSession,
      SwitchOrganization, ChangeMembership, Reap

\* A used link stays used, and the link a reset uses was not.
LEMMA PasswordLinksStep ==
  ASSUME SessionShapes, RowLocks, PasswordLinks, LinkSetsOnce, SessionsNext
  PROVE  PasswordLinks' /\ LinkSetsOnce'
<1>1. ASSUME UNCHANGED history, \A l \in Links : links[l].status = "used" => links'[l].status = "used"
      PROVE  PasswordLinks' /\ LinkSetsOnce'
  <2>1. \A i \in 1..Len(history) : history[i] \in Links
    BY DEF SessionShapes
  <2> QED
    BY <1>1, <2>1 DEF PasswordLinks, LinkSetsOnce
<1>2. ASSUME NEW l \in Links,
             RevokeOlder(l) \/ LockOlder(l) \/ IssueLink(l) \/ AbortIssue(l) \/ ExpireLink(l)
      PROVE  UNCHANGED history /\ \A k \in Links : links[k].status = "used" => links'[k].status = "used"
  <2>1. CASE IssueLink(l)
    <3>1. links[l].seen \subseteq OpenLinks
      BY <2>1 DEF IssueLink, RowLocks, RowsOfIssuer
    <3> QED
      BY <2>1, <3>1 DEF IssueLink, OpenLinks
  <2>2. CASE RevokeOlder(l) \/ LockOlder(l) \/ AbortIssue(l) \/ ExpireLink(l)
    BY <2>2 DEF RevokeOlder, LockOlder, AbortIssue, ExpireLink, Issuing, SessionShapes, LinkRow
  <2> QED
    BY <1>2, <2>1, <2>2
<1>3. ASSUME NEW r \in Resets, CommitReset(r) PROVE PasswordLinks' /\ LinkSetsOnce'
  <2>1. /\ resets[r].link \in Links /\ links[resets[r].link].status # "used"
        /\ resets[r].seen \subseteq OpenLinks
    BY <1>3, LinkOfReset DEF CommitReset, RowLocks, RowsOfReset
  <2>2. \A i \in 1..Len(history) : history[i] \in Links /\ history[i] # resets[r].link
    BY <2>1 DEF PasswordLinks, SessionShapes
  <2>3. \A l \in Links : links[l].status = "used" \/ l = resets[r].link => links'[l].status = "used"
    BY <1>3, <2>1 DEF CommitReset, OpenLinks, SessionShapes, LinkRow
  <2>4. /\ Len(history') = Len(history) + 1
        /\ \A i \in 1..Len(history) : history'[i] = history[i]
        /\ history'[Len(history) + 1] = resets[r].link
        /\ Len(history) \in Nat
    BY <1>3, <2>1 DEF CommitReset, SessionShapes
  <2>5. \A i \in 1..Len(history') : i \in 1..Len(history) \/ i = Len(history) + 1
    BY <2>4
  <2> QED
    BY <2>1, <2>2, <2>3, <2>4, <2>5 DEF PasswordLinks, LinkSetsOnce
<1>4. ASSUME NEW method \in {"local", "oidc"}, ChangeMode(method)
      PROVE  UNCHANGED history /\ \A k \in Links : links[k].status = "used" => links'[k].status = "used"
  BY <1>4 DEF ChangeMode, Issuing
<1> QED
  BY <1>1, <1>2, <1>3, <1>4
  DEF SessionsNext, LockLink, ReadLink, WritePassword, LockLinks, SweepSessions, AbortReset,
      VerifyPassword, RefuseLogin, OpenSession, OpenOidcSession, EndSession,
      SwitchOrganization, ChangeMembership, Reap

\* Changing the mode closes every session, for all were of the other one.
LEMMA SessionsOfTheModeStep ==
  ASSUME SessionShapes, SessionsOfTheMode, SessionsNext
  PROVE  SessionsOfTheMode'
<1>1. ASSUME UNCHANGED <<mode, changes>>,
             \A s \in WebSessions : sessions'[s].status = "live" =>
               \/ /\ sessions[s].status = "live" /\ sessions'[s].method = sessions[s].method
                  /\ sessions'[s].changes = sessions[s].changes
               \/ sessions'[s].method = mode /\ sessions'[s].changes = changes,
             \A p \in Logins : logins'[p].pc = "verified" => logins[p].pc = "verified" \/ mode = "local"
      PROVE  SessionsOfTheMode'
  BY <1>1 DEF SessionsOfTheMode
<1>2. ASSUME UNCHANGED <<mode, changes, sessions, logins>> PROVE SessionsOfTheMode'
  BY <1>1, <1>2
<1>3. ASSUME NEW r \in Resets, CommitReset(r) PROVE SessionsOfTheMode'
  <2>1. \A s \in WebSessions : sessions'[s].status = "live" => sessions'[s] = sessions[s]
    BY <1>3 DEF CommitReset, SessionShapes, SessionRow
  <2> QED
    BY <1>1, <1>3, <2>1 DEF CommitReset
<1>4. ASSUME NEW p \in Logins, VerifyPassword(p) \/ RefuseLogin(p) PROVE SessionsOfTheMode'
  BY <1>1, <1>4 DEF VerifyPassword, RefuseLogin, IdleLogin, SessionShapes
<1>5. ASSUME NEW p \in Logins, NEW s \in WebSessions, OpenSession(p, s) PROVE SessionsOfTheMode'
  <2>1. mode = "local"
    BY <1>5 DEF OpenSession, SessionsOfTheMode
  <2>2. sessions'[s].method = mode /\ sessions'[s].changes = changes
    BY <1>5, <2>1 DEF OpenSession, NewSession, SessionShapes
  <2>3. \A t \in WebSessions \ {s} : sessions'[t] = sessions[t]
    BY <1>5 DEF OpenSession, SessionShapes
  <2>4. UNCHANGED <<mode, changes>>
    BY <1>5 DEF OpenSession
  <2> QED
    BY <1>1, <2>1, <2>2, <2>3, <2>4
<1>6. ASSUME NEW s \in WebSessions, OpenOidcSession(s) PROVE SessionsOfTheMode'
  <2>1. sessions'[s].method = mode /\ sessions'[s].changes = changes
    BY <1>6 DEF OpenOidcSession, NewSession, SessionShapes
  <2>2. \A t \in WebSessions \ {s} : sessions'[t] = sessions[t]
    BY <1>6 DEF OpenOidcSession, SessionShapes
  <2>3. UNCHANGED <<mode, changes, logins>>
    BY <1>6 DEF OpenOidcSession
  <2> QED
    BY <1>1, <2>1, <2>2, <2>3
<1>7. ASSUME NEW s \in WebSessions, EndSession(s) \/ \E o \in AccountOrgs : SwitchOrganization(s, o)
      PROVE  SessionsOfTheMode'
  <2>1. \A t \in WebSessions : sessions'[t].status = "live" =>
          /\ sessions[t].status = "live" /\ sessions'[t].method = sessions[t].method
          /\ sessions'[t].changes = sessions[t].changes
    <3>1. sessions[s] \in SessionRow /\ sessions \in [WebSessions -> SessionRow] /\ sessions[s].status = "live"
      BY <1>7 DEF SessionShapes, EndSession, SwitchOrganization, Authorizes
    <3>2. \E x : /\ sessions' = [sessions EXCEPT ![s] = x]
                 /\ x.method = sessions[s].method /\ x.changes = sessions[s].changes
      <4>1. CASE EndSession(s)
        <5>1. PICK x : x = [sessions[s] EXCEPT !.status = "dead"] /\ sessions' = [sessions EXCEPT ![s] = x]
          BY <3>1, <4>1 DEF EndSession, SessionRow
        <5>2. x.method = sessions[s].method /\ x.changes = sessions[s].changes
          BY <3>1, <5>1 DEF SessionRow
        <5> QED
          BY <5>1, <5>2
      <4>2. ASSUME NEW o \in AccountOrgs, SwitchOrganization(s, o)
            PROVE  \E x : /\ sessions' = [sessions EXCEPT ![s] = x]
                          /\ x.method = sessions[s].method /\ x.changes = sessions[s].changes
        <5>1. PICK x : x = [sessions[s] EXCEPT !.org = o] /\ sessions' = [sessions EXCEPT ![s] = x]
          BY <3>1, <4>2 DEF SwitchOrganization, SessionRow
        <5>2. x.method = sessions[s].method /\ x.changes = sessions[s].changes
          BY <3>1, <5>1 DEF SessionRow
        <5> QED
          BY <5>1, <5>2
      <4> QED
        BY <1>7, <4>1, <4>2
    <3> QED
      BY <3>1, <3>2
  <2> QED
    BY <1>1, <1>7, <2>1 DEF EndSession, SwitchOrganization
<1>8. CASE Reap
  <2>1. \A t \in WebSessions : sessions'[t].status = "live" => sessions'[t] = sessions[t]
    BY <1>8 DEF Reap, NoSession
  <2> QED
    BY <1>1, <1>8, <2>1 DEF Reap
<1>9. ASSUME NEW method \in {"local", "oidc"}, ChangeMode(method) PROVE SessionsOfTheMode'
  <2>1. \A s \in WebSessions : sessions'[s].status # "live"
    BY <1>9 DEF ChangeMode, Reconciled, SessionsOfTheMode, SessionShapes, SessionRow
  <2>2. \A p \in Logins : logins'[p].pc # "verified"
    BY <1>9 DEF ChangeMode, IdleLogin
  <2> QED
    BY <2>1, <2>2 DEF SessionsOfTheMode
<1> QED
  BY <1>2, <1>3, <1>4, <1>5, <1>6, <1>7, <1>8, <1>9
  DEF SessionsNext, RevokeOlder, LockOlder, IssueLink, AbortIssue, ExpireLink, LockLink, ReadLink,
      WritePassword, LockLinks, SweepSessions, AbortReset, ChangeMembership

\* Between the sweep of a reset and its end only late sessions are opened.
LEMMA SweptSessionsStep ==
  ASSUME SessionShapes, SweptSessions, SessionsNext
  PROVE  SweptSessions'
<1> DEFINE Early(s) == sessions[s].status = "live" /\ sessions[s].method = "local" /\ ~sessions[s].late
<1>1. ASSUME UNCHANGED history,
             \A s \in WebSessions : Early(s)' => Early(s) /\ sessions'[s].password = sessions[s].password,
             \A r \in Resets : resets'[r].pc = "swept" =>
               resets[r].pc = "swept" /\ resets'[r].swept = resets[r].swept
      PROVE  SweptSessions'
  BY <1>1 DEF SweptSessions, Password
<1>2. ASSUME UNCHANGED <<history, sessions, resets>> PROVE SweptSessions'
  BY <1>2 DEF SweptSessions, Password
<1>3. ASSUME NEW r \in Resets,
             \/ \E l \in Links : LockLink(r, l)
             \/ WritePassword(r) \/ LockLinks(r) \/ AbortReset(r)
      PROVE  SweptSessions'
  <2>1. resets'[r].pc # "swept" /\ \A q \in Resets \ {r} : resets'[q] = resets[q]
    <3>1. CASE \E l \in Links : LockLink(r, l)
      <4>1. PICK l \in Links : resets' = [resets EXCEPT ![r] = [IdleReset EXCEPT !.pc = "found", !.link = l]]
        BY <3>1 DEF LockLink, ReadLink
      <4>2. [IdleReset EXCEPT !.pc = "found", !.link = l].pc = "found"
        BY IdleResetShape
      <4> QED
        BY <4>1, <4>2 DEF SessionShapes
    <3>2. CASE WritePassword(r) \/ LockLinks(r)
      BY <3>2 DEF WritePassword, LockLinks, SessionShapes, Reset
    <3>3. CASE AbortReset(r)
      BY <3>3, IdleResetShape DEF AbortReset, SessionShapes
    <3> QED
      BY <1>3, <3>1, <3>2, <3>3
  <2>2. UNCHANGED <<history, sessions>>
    BY <1>3 DEF LockLink, ReadLink, WritePassword, LockLinks, AbortReset
  <2> QED
    BY <1>1, <2>1, <2>2
<1>4. ASSUME NEW r \in Resets, SweepSessions(r) PROVE SweptSessions'
  <2>1. resets'[r].swept = LiveSessions /\ \A q \in Resets \ {r} : resets'[q] = resets[q]
    BY <1>4 DEF SweepSessions, SessionShapes, Reset
  <2>2. UNCHANGED <<history, sessions>>
    BY <1>4 DEF SweepSessions
  <2> QED
    BY <2>1, <2>2 DEF SweptSessions, LiveSessions, Password
<1>5. ASSUME NEW r \in Resets, CommitReset(r) PROVE SweptSessions'
  <2>1. \A s \in WebSessions : ~Early(s)'
    <3> SUFFICES ASSUME NEW s \in WebSessions, sessions'[s].status = "live" PROVE ~Early(s)'
      OBVIOUS
    <3>1. sessions'[s] = sessions[s] /\ s \notin resets[r].swept
      BY <1>5 DEF CommitReset, SessionShapes, SessionRow
    <3> QED
      BY <1>5, <3>1 DEF SweptSessions, CommitReset
  <2> QED
    BY <2>1 DEF SweptSessions
<1>6. ASSUME NEW p \in Logins, NEW s \in WebSessions, OpenSession(p, s) PROVE SweptSessions'
  <2> DEFINE new == NewSession("local", logins[p].password)
  <2>1. sessions'[s] = new /\ \A t \in WebSessions \ {s} : sessions'[t] = sessions[t]
    BY <1>6 DEF OpenSession, SessionShapes
  <2>2. ~new.late => new.password = Password /\ \A r \in Resets : resets[r].pc # "swept"
    BY DEF NewSession
  <2>3. UNCHANGED <<history, resets>>
    BY <1>6 DEF OpenSession
  <2> HIDE DEF new
  <2> QED
    BY <2>1, <2>2, <2>3 DEF SweptSessions, Password
<1>7. ASSUME NEW s \in WebSessions, OpenOidcSession(s) PROVE SweptSessions'
  <2>1. sessions'[s].method = "oidc" /\ \A t \in WebSessions \ {s} : sessions'[t] = sessions[t]
    BY <1>7 DEF OpenOidcSession, NewSession, SessionShapes
  <2>2. UNCHANGED <<history, resets>>
    BY <1>7 DEF OpenOidcSession
  <2> QED
    BY <1>1, <2>1, <2>2
<1>8. ASSUME NEW s \in WebSessions, EndSession(s) \/ \E o \in AccountOrgs : SwitchOrganization(s, o)
      PROVE  SweptSessions'
  <2>1. /\ \A t \in WebSessions \ {s} : sessions'[t] = sessions[t]
        /\ \/ sessions'[s].status # "live"
           \/ /\ sessions'[s].status = sessions[s].status /\ sessions'[s].method = sessions[s].method
              /\ sessions'[s].late = sessions[s].late /\ sessions'[s].password = sessions[s].password
    BY <1>8 DEF EndSession, SwitchOrganization, SessionShapes, SessionRow
  <2>2. UNCHANGED <<history, resets>>
    BY <1>8 DEF EndSession, SwitchOrganization
  <2> QED
    BY <1>1, <2>1, <2>2
<1>9. CASE Reap
  <2>1. \A t \in WebSessions : sessions'[t].status = "live" => sessions'[t] = sessions[t]
    BY <1>9 DEF Reap, NoSession
  <2>2. UNCHANGED <<history, resets>>
    BY <1>9 DEF Reap
  <2> QED
    BY <1>1, <2>1, <2>2
<1>10. ASSUME NEW method \in {"local", "oidc"}, ChangeMode(method) PROVE SweptSessions'
  <2>1. \A t \in WebSessions : sessions'[t].status = "live" => sessions'[t] = sessions[t]
    BY <1>10 DEF ChangeMode, Reconciled, SessionShapes, SessionRow
  <2>2. UNCHANGED history /\ \A r \in Resets : resets'[r].pc # "swept"
    BY <1>10, IdleResetShape DEF ChangeMode
  <2> QED
    BY <1>1, <2>1, <2>2
<1> QED
  BY <1>2, <1>3, <1>4, <1>5, <1>6, <1>7, <1>8, <1>9, <1>10
  DEF SessionsNext, RevokeOlder, LockOlder, IssueLink, AbortIssue, ExpireLink,
      VerifyPassword, RefuseLogin, ChangeMembership

LEMMA SessionsNextInv == SessionsInv /\ [SessionsNext]_sessionVars => SessionsInv'
<1> SUFFICES ASSUME SessionsInv, [SessionsNext]_sessionVars PROVE SessionsInv'
  OBVIOUS
<1>1. CASE SessionsNext
  BY <1>1, SessionShapesStep, RowLocksStep, PasswordLinksStep, SessionsOfTheModeStep, SweptSessionsStep
  DEF SessionsInv
<1>2. CASE UNCHANGED sessionVars
  BY <1>2 DEF sessionVars, SessionsInv, SessionShapes, RowLocks, RowsOfReset, RowsOfIssuer, OpenLinks,
              PasswordLinks, SessionsOfTheMode, SweptSessions, Password, LinkSetsOnce
<1> QED
  BY <1>1, <1>2

\* complete_password_reset: whatever requests race for a reset link, abort or
\* restart the server, the link sets the password at most once.
THEOREM LinkSetsOnceSafe == SessionsSpec => []LinkSetsOnce
<1>1. SessionsInv => LinkSetsOnce
  BY DEF SessionsInv
<1> QED
  BY <1>1, SessionsInitInv, SessionsNextInv, PTL DEF SessionsSpec

\* complete_password_reset and login: only a sign-in that overlapped a reset
\* keeps a session that was opened with an earlier password.
THEOREM OlderSessionsSafe == SessionsSpec => []OlderSessionsOverlapped
<1>1. SessionsInv => OlderSessionsOverlapped
  BY DEF SessionsInv, SweptSessions, OlderSessionsOverlapped, LiveSessions, SessionShapes, SessionRow
<1> QED
  BY <1>1, SessionsInitInv, SessionsNextInv, PTL DEF SessionsSpec

\* reconcile_authentication_mode: no session survives a change of the mode,
\* not even in the mode it was opened in.
THEOREM SessionsEndSafe == SessionsSpec => []SessionsEndWithMode
<1>1. SessionsInv => SessionsEndWithMode
  BY DEF SessionsInv, SessionsOfTheMode, SessionsEndWithMode, Authorizes
<1> QED
  BY <1>1, SessionsInitInv, SessionsNextInv, PTL DEF SessionsSpec

\* One reset at a time has the account's row; passwords and changes of the
\* mode that a session or a sign-in remembers are not ahead of the present.
HasAccountRow(r) == resets[r].pc \in {"waiting", "locked", "swept"}
OneWriter == \A r, q \in Resets : HasAccountRow(r) /\ HasAccountRow(q) => r = q
MemoryIsPast ==
  /\ changes <= MaxChanges
  /\ \A s \in WebSessions : sessions[s].password <= Len(history) /\ sessions[s].changes <= changes
  /\ \A p \in Logins : logins[p].password <= Len(history)

LEMMA OneWriterStep ==
  ASSUME SessionShapes, OneWriter, SessionsNext
  PROVE  OneWriter'
<1>1. ASSUME NEW r \in Resets, WritePassword(r) PROVE OneWriter'
  <2>1. \A q \in Resets : ~HasAccountRow(q)
    BY <1>1 DEF WritePassword, HasAccountRow
  <2>2. \A q \in Resets : q # r => resets'[q] = resets[q]
    BY <1>1 DEF WritePassword, SessionShapes
  <2>3. \A q \in Resets : HasAccountRow(q)' => q = r
    BY <2>1, <2>2 DEF HasAccountRow
  <2> QED
    BY <2>3 DEF OneWriter
<1>2. CASE \A q \in Resets : HasAccountRow(q)' => HasAccountRow(q)
  BY <1>2 DEF OneWriter
<1>3. ASSUME NEW r \in Resets,
             \/ \E l \in Links : LockLink(r, l)
             \/ LockLinks(r) \/ SweepSessions(r) \/ CommitReset(r) \/ AbortReset(r)
      PROVE  \A q \in Resets : HasAccountRow(q)' => HasAccountRow(q)
  <2>1. \A q \in Resets : q # r => resets'[q] = resets[q]
    BY <1>3 DEF LockLink, ReadLink, LockLinks, SweepSessions, CommitReset, AbortReset, SessionShapes
  <2>2. HasAccountRow(r)' => HasAccountRow(r)
    <3>1. CASE \E l \in Links : LockLink(r, l)
      <4> PICK l \in Links : resets' = [resets EXCEPT ![r] = [IdleReset EXCEPT !.pc = "found", !.link = l]]
        BY <3>1 DEF LockLink, ReadLink
      <4>1. resets'[r].pc = "found"
        BY IdleResetShape DEF SessionShapes, Reset
      <4> QED
        BY <4>1 DEF HasAccountRow
    <3>2. CASE LockLinks(r) \/ SweepSessions(r)
      BY <3>2 DEF LockLinks, SweepSessions, HasAccountRow
    <3>3. CASE CommitReset(r) \/ AbortReset(r)
      BY <3>3, IdleResetShape DEF CommitReset, AbortReset, SessionShapes, HasAccountRow
    <3> QED
      BY <1>3, <3>1, <3>2, <3>3
  <2> QED
    BY <2>1, <2>2 DEF HasAccountRow
<1>4. ASSUME NEW method \in {"local", "oidc"}, ChangeMode(method) PROVE \A q \in Resets : ~HasAccountRow(q)'
  BY <1>4, IdleResetShape DEF ChangeMode, HasAccountRow
<1>5. CASE UNCHANGED resets
  BY <1>5 DEF OneWriter, HasAccountRow
<1> QED
  BY <1>1, <1>2, <1>3, <1>4, <1>5
  DEF SessionsNext, RevokeOlder, LockOlder, IssueLink, AbortIssue, ExpireLink, VerifyPassword,
      RefuseLogin, OpenSession, OpenOidcSession, EndSession, SwitchOrganization, ChangeMembership, Reap

LEMMA MemoryIsPastStep ==
  ASSUME SessionShapes, MemoryIsPast, SessionsNext
  PROVE  MemoryIsPast'
<1>0. Len(history) \in Nat /\ changes \in Nat /\ MaxChanges \in Nat
  BY SessionsAssumption DEF SessionShapes
<1>1. ASSUME NEW r \in Resets, CommitReset(r) PROVE MemoryIsPast'
  <2>1. Len(history') = Len(history) + 1 /\ UNCHANGED <<changes, logins>>
    BY <1>1 DEF CommitReset, SessionShapes
  <2>2. \A s \in WebSessions :
          sessions'[s].password = sessions[s].password /\ sessions'[s].changes = sessions[s].changes
    BY <1>1 DEF CommitReset, SessionShapes, SessionRow
  <2>3. \A s \in WebSessions : sessions[s].password \in Nat
    BY DEF SessionShapes, SessionRow
  <2>4. \A p \in Logins : logins[p].password \in Nat
    BY DEF SessionShapes, Login
  <2> QED
    BY <1>0, <2>1, <2>2, <2>3, <2>4 DEF MemoryIsPast
<1>2. ASSUME NEW p \in Logins, VerifyPassword(p) PROVE MemoryIsPast'
  BY <1>0, <1>2 DEF VerifyPassword, Password, MemoryIsPast, SessionShapes
<1>3. ASSUME NEW p \in Logins, RefuseLogin(p) PROVE MemoryIsPast'
  BY <1>0, <1>3 DEF RefuseLogin, IdleLogin, MemoryIsPast, SessionShapes
<1>4. ASSUME NEW p \in Logins, NEW s \in WebSessions, OpenSession(p, s) PROVE MemoryIsPast'
  <2>1. logins[p].password <= Len(history)
    BY DEF MemoryIsPast
  <2>2. sessions'[s].password = logins[p].password /\ sessions'[s].changes = changes
    BY <1>4 DEF OpenSession, NewSession, SessionShapes
  <2>3. \A t \in WebSessions : t # s => sessions'[t] = sessions[t]
    BY <1>4 DEF OpenSession, SessionShapes
  <2>4. \A q \in Logins : logins'[q] = logins[q] \/ logins'[q].password = 0
    BY <1>4 DEF OpenSession, IdleLogin, SessionShapes
  <2>5. UNCHANGED <<history, changes>>
    BY <1>4 DEF OpenSession
  <2> QED
    BY <1>0, <2>1, <2>2, <2>3, <2>4, <2>5 DEF MemoryIsPast
<1>5. ASSUME NEW s \in WebSessions, OpenOidcSession(s) PROVE MemoryIsPast'
  <2>1. sessions'[s].password = Len(history) /\ sessions'[s].changes = changes
    BY <1>5 DEF OpenOidcSession, NewSession, SessionShapes, Password
  <2>2. \A t \in WebSessions : t # s => sessions'[t] = sessions[t]
    BY <1>5 DEF OpenOidcSession, SessionShapes
  <2> QED
    BY <1>0, <1>5, <2>1, <2>2 DEF OpenOidcSession, MemoryIsPast
<1>6. ASSUME NEW s \in WebSessions, EndSession(s) \/ \E o \in AccountOrgs : SwitchOrganization(s, o)
      PROVE  MemoryIsPast'
  <2>1. \A t \in WebSessions :
          sessions'[t].password = sessions[t].password /\ sessions'[t].changes = sessions[t].changes
    <3>1. ASSUME NEW t \in WebSessions
          PROVE  sessions[t] \in SessionRow
      BY DEF SessionShapes
    <3>2. CASE EndSession(s)
      BY <3>1, <3>2 DEF EndSession, SessionShapes, SessionRow
    <3>3. ASSUME NEW o \in AccountOrgs, SwitchOrganization(s, o)
          PROVE  \A t \in WebSessions :
                   sessions'[t].password = sessions[t].password /\ sessions'[t].changes = sessions[t].changes
      BY <3>1, <3>3 DEF SwitchOrganization, SessionShapes, SessionRow
    <3> QED
      BY <1>6, <3>2, <3>3
  <2>2. UNCHANGED <<history, changes, logins>>
    BY <1>6 DEF EndSession, SwitchOrganization
  <2> QED
    BY <2>1, <2>2 DEF MemoryIsPast
<1>7. CASE Reap
  <2>1. \A t \in WebSessions :
          sessions'[t] = sessions[t] \/ (sessions'[t].password = 0 /\ sessions'[t].changes = 0)
    BY <1>7 DEF Reap, NoSession, SessionShapes, SessionRow
  <2>2. UNCHANGED <<history, changes, logins>>
    BY <1>7 DEF Reap
  <2>3. 0 <= Len(history) /\ 0 <= changes
    BY <1>0
  <2> QED
    BY <2>1, <2>2, <2>3 DEF MemoryIsPast
<1>8. ASSUME NEW method \in {"local", "oidc"}, ChangeMode(method) PROVE MemoryIsPast'
  <2>1. changes' = changes + 1 /\ changes' <= MaxChanges /\ UNCHANGED history
    BY <1>0, <1>8 DEF ChangeMode
  <2>2. \A t \in WebSessions :
          sessions'[t].password = sessions[t].password /\ sessions'[t].changes = sessions[t].changes
    BY <1>8 DEF ChangeMode, Reconciled, SessionShapes, SessionRow
  <2>3. \A p \in Logins : logins'[p].password = 0
    BY <1>8 DEF ChangeMode, IdleLogin
  <2>4. \A s \in WebSessions : sessions[s].changes \in Nat
    BY DEF SessionShapes, SessionRow
  <2> QED
    BY <1>0, <2>1, <2>2, <2>3, <2>4 DEF MemoryIsPast
<1>9. CASE UNCHANGED <<changes, history, sessions, logins>>
  BY <1>9 DEF MemoryIsPast
<1> QED
  BY <1>1, <1>2, <1>3, <1>4, <1>5, <1>6, <1>7, <1>8, <1>9
  DEF SessionsNext, RevokeOlder, LockOlder, IssueLink, AbortIssue, ExpireLink, LockLink, ReadLink,
      WritePassword, LockLinks, SweepSessions, AbortReset, ChangeMembership

\* Links that set the password once each are at least as many as passwords.
LEMMA PasswordsAreFew ==
  ASSUME history \in Seq(Links), LinkSetsOnce
  PROVE  Len(history) <= Cardinality(Links)
<1>1. Len(history) \in Nat /\ history \in [1..Len(history) -> Links]
  OBVIOUS
<1>2. history \in Injection(1..Len(history), Links)
  BY <1>1 DEF LinkSetsOnce, Injection, IsInjective
<1>3. Cardinality(1..Len(history)) <= Cardinality(Links)
  BY <1>2, FS_Injection, SessionsAssumption
<1>4. Cardinality(1..Len(history)) = Len(history)
  BY <1>1, FS_Interval
<1> QED
  BY <1>3, <1>4

LEMMA SessionsTyped == SessionsInv /\ OneWriter /\ MemoryIsPast => SessionsTypeOK
<1> SUFFICES ASSUME SessionsInv, OneWriter, MemoryIsPast PROVE SessionsTypeOK
  OBVIOUS
<1> USE DEF SessionsInv
<1>0. /\ Len(history) \in Nat /\ MaxChanges \in Nat /\ changes \in Nat
      /\ Cardinality(Links) \in Nat
      /\ Len(history) <= Cardinality(Links)
  BY PasswordsAreFew, SessionsAssumption, FS_CardinalityType DEF SessionShapes
<1>1. AnyLink \in Links
  BY SessionsAssumption DEF AnyLink
<1>2. sessions \in [WebSessions -> [status : {"none", "live", "dead", "gone"}, method : {"local", "oidc"},
                                   org : AccountOrgs \cup {NoneSelected}, password : 0..Cardinality(Links),
                                   changes : 0..MaxChanges, late : BOOLEAN]]
  <2>1. ASSUME NEW s \in WebSessions
        PROVE  sessions[s].password \in 0..Cardinality(Links) /\ sessions[s].changes \in 0..MaxChanges
    <3>1. sessions[s].password \in Nat /\ sessions[s].changes \in Nat
      BY DEF SessionShapes, SessionRow
    <3> QED
      BY <1>0, <3>1 DEF MemoryIsPast
  <2> QED
    BY <2>1 DEF SessionShapes, SessionRow
<1>3. logins \in [Logins -> [pc : {"idle", "verified"}, password : 0..Cardinality(Links)]]
  <2>1. ASSUME NEW p \in Logins PROVE logins[p].password \in 0..Cardinality(Links)
    <3>1. logins[p].password \in Nat
      BY DEF SessionShapes, Login
    <3> QED
      BY <1>0, <3>1 DEF MemoryIsPast
  <2> QED
    BY <2>1 DEF SessionShapes, Login
<1>4. resets \in [Resets -> [pc : {"idle", "found", "waiting", "locked", "swept"}, link : Links,
                            seen : SUBSET Links, swept : SUBSET WebSessions]]
  <2>1. Links \cup {AnyLink} = Links
    BY <1>1
  <2> QED
    BY <2>1 DEF SessionShapes, Reset
<1>5. Cardinality({r \in Resets : resets[r].pc \in {"waiting", "locked", "swept"}}) <= 1
  <2> DEFINE W == {r \in Resets : HasAccountRow(r)}
  <2>1. CASE W = {}
    BY <2>1, FS_EmptySet DEF HasAccountRow
  <2>2. CASE W # {}
    <3> PICK r \in Resets : HasAccountRow(r)
      BY <2>2
    <3>1. W = {r}
      BY DEF OneWriter
    <3>2. Cardinality(W) = 1
      BY <3>1, FS_Singleton
    <3>3. W = {q \in Resets : resets[q].pc \in {"waiting", "locked", "swept"}}
      BY DEF HasAccountRow
    <3> HIDE DEF W
    <3> QED
      BY <3>2, <3>3
  <2> QED
    BY <2>1, <2>2
<1> QED
  BY <1>0, <1>2, <1>3, <1>4, <1>5 DEF SessionShapes, LinkRow, MemoryIsPast, SessionsTypeOK

\* request_password_reset, complete_password_reset, login and
\* reconcile_authentication_mode: the variables of Sessions keep their types,
\* one transaction at a time holds the account's row, and the password
\* changes at most once per link.
THEOREM SessionsTypeCorrect == SessionsSpec => []SessionsTypeOK
<1>1. SessionsInit => OneWriter /\ MemoryIsPast
  BY IdleResetShape, SessionsAssumption
  DEF SessionsInit, OneWriter, HasAccountRow, MemoryIsPast, NoSession, IdleLogin
<1>2. SessionsInv /\ OneWriter /\ MemoryIsPast /\ [SessionsNext]_sessionVars => OneWriter' /\ MemoryIsPast'
  <2> SUFFICES ASSUME SessionsInv, OneWriter, MemoryIsPast, [SessionsNext]_sessionVars
               PROVE  OneWriter' /\ MemoryIsPast'
    OBVIOUS
  <2>1. CASE SessionsNext
    BY <2>1, OneWriterStep, MemoryIsPastStep DEF SessionsInv
  <2>2. CASE UNCHANGED sessionVars
    BY <2>2 DEF sessionVars, OneWriter, HasAccountRow, MemoryIsPast
  <2> QED
    BY <2>1, <2>2
<1> QED
  BY <1>1, <1>2, SessionsInitInv, SessionsNextInv, SessionsTyped, PTL DEF SessionsSpec

-----------------------------------------------------------------------------
(* Sign-in through the provider                                            *)

\* The callbacks whose attempt is theirs, and those that hold an account.
UnderWay == {c \in Callbacks : callbacks[c].pc \notin {"idle", "refused", "unavailable", "conflict"}}
Holding == {c \in Callbacks : callbacks[c].pc \in {"bind", "session"}}

\* An attempt is closed before anything else is done for it, so that it is at
\* one place at most.
AttemptsAreTaken ==
  /\ \A c \in UnderWay : attempts[callbacks[c].attempt] = "closed"
  /\ \A c, d \in UnderWay : callbacks[c].attempt = callbacks[d].attempt => c = d
  /\ \A s \in signedIn : attempts[s.attempt] = "closed"
  /\ \A s \in signedIn, c \in UnderWay : s.attempt # callbacks[c].attempt

\* Which rows of users the transactions have written: a new one is written
\* by one of them, and an existing one is locked.
AccountsAreHeld ==
  /\ \A c, d \in Holding : callbacks[c].user = callbacks[d].user => c = d
  /\ \A i \in Invites : invites[i].pc = "written" =>
       invites[i].user \notin Present /\ ~Held(invites[i].user)
  /\ \A i, j \in Invites :
       invites[i].pc = "written" /\ invites[j].pc = "written" /\ invites[i].user = invites[j].user => i = j
  /\ \A c \in Callbacks : callbacks[c].pc = "bind" =>
       callbacks[c].user \in Present /\ users[callbacks[c].user].subject = NoSubject
  /\ \A i \in Invites : invites[i].pc = "join" => invites[i].user \in Present

\* A subject is in one row, committed or not, and a row that has one keeps it.
SubjectsAreUnique ==
  /\ \A u, v \in Present : users[u].subject = users[v].subject => u = v \/ users[u].subject = NoSubject
  /\ \A c \in Callbacks : callbacks[c].pc = "session" =>
       /\ callbacks[c].row.present
       /\ callbacks[c].row.subject = callbacks[c].who.subject
       /\ \A v \in Present : users[v].subject = callbacks[c].row.subject => v = callbacks[c].user
       /\ callbacks[c].user \in Present =>
            users[callbacks[c].user].subject \in {NoSubject, callbacks[c].row.subject}
  /\ \A c, d \in Callbacks :
       /\ callbacks[c].pc = "session" /\ callbacks[d].pc = "session"
       /\ callbacks[c].row.subject = callbacks[d].row.subject
       => c = d
  /\ \A s \in signedIn : s.user \in Present /\ users[s.user].subject = s.subject

OidcShapes ==
  /\ provisioning \in {"none", "personal", "default"}
  /\ \A i \in Invites : InviteOrg[i] \in orgs
  /\ OidcTypeOK

OidcInv == OidcShapes /\ AttemptsAreTaken /\ OneSessionPerAttempt /\ AccountsAreHeld /\ SubjectsAreUnique

LEMMA IdleShapes ==
  /\ NoUser \in UserRow /\ ~NoUser.present
  /\ IdleCallback \in CallbackRow /\ IdleCallback.pc = "idle"
  /\ SomeUser \in Users
  /\ OpenInvite \in InviteRow /\ OpenInvite.pc = "open"
<1> DEFINE email == CHOOSE e \in Emails : TRUE
<1>1. email \in Emails
  BY OidcAssumption DEF Emails
<1>2. NoUser = [present |-> FALSE, org |-> DefaultOrg, email |-> email, subject |-> NoSubject]
  BY DEF NoUser
<1> HIDE DEF email
<1>3. NoUser \in UserRow /\ ~NoUser.present
  BY <1>1, <1>2, OidcAssumption DEF UserRow
<1>4. SomeUser \in Users
  BY OidcAssumption DEF SomeUser
<1> DEFINE attempt == CHOOSE a \in Attempts : TRUE
           who == CHOOSE i \in Identities : TRUE
<1>5. attempt \in Attempts /\ who \in Identities
  BY OidcAssumption
<1>6. IdleCallback = [pc |-> "idle", attempt |-> attempt, keys |-> 0, signed |-> 0, who |-> who,
                      user |-> SomeUser, row |-> NoUser]
  BY DEF IdleCallback
<1> HIDE DEF attempt, who
<1>7. IdleCallback \in CallbackRow /\ IdleCallback.pc = "idle"
  BY <1>3, <1>4, <1>5, <1>6, OidcAssumption DEF CallbackRow
<1>8. OpenInvite \in InviteRow /\ OpenInvite.pc = "open"
  BY <1>4 DEF OpenInvite, InviteRow
<1> QED
  BY <1>3, <1>4, <1>7, <1>8

LEMMA OidcInitInv == OidcInit => OidcInv
<1> SUFFICES ASSUME OidcInit PROVE OidcInv
  OBVIOUS
<1>1. Present = {} /\ UnderWay = {} /\ Holding = {}
  BY IdleShapes DEF OidcInit, Present, UnderWay, Holding
<1>2. OidcShapes
  BY <1>1, IdleShapes, OidcAssumption DEF OidcInit, OidcShapes, OidcTypeOK
<1>3. AttemptsAreTaken /\ OneSessionPerAttempt
  BY <1>1 DEF OidcInit, AttemptsAreTaken, OneSessionPerAttempt
<1>4. AccountsAreHeld /\ SubjectsAreUnique
  BY <1>1, IdleShapes DEF OidcInit, AccountsAreHeld, SubjectsAreUnique
<1> QED
  BY <1>2, <1>3, <1>4 DEF OidcInv

\* What the provider asserts has the types of a row.
LEMMA IdentityShape ==
  ASSUME OidcTypeOK, NEW c \in Callbacks
  PROVE  /\ callbacks[c].who \in Identities
         /\ callbacks[c].who.subject \in Subjects /\ callbacks[c].who.subject # NoSubject
         /\ callbacks[c].who.email \in Emails
<1>1. callbacks[c].who \in Identities
  BY DEF OidcTypeOK, CallbackRow
<1> QED
  BY <1>1, SubjectsAssumption DEF Subjects, Emails

\* A step of one callback that does not commit, on the variables' types.
LEMMA CallbackShape ==
  ASSUME OidcTypeOK, NEW c \in Callbacks,
         \/ Exchange(c) \/ Verify(c) \/ Refresh(c) \/ CallbackFails(c)
         \/ BySubject(c) \/ ByEmail(c) \/ Bind(c) \/ Provision(c)
  PROVE  /\ \E new \in CallbackRow : /\ callbacks' = [callbacks EXCEPT ![c] = new]
                                     /\ new.attempt = callbacks[c].attempt \/ new.pc = "idle"
         /\ c \in UnderWay
         /\ UNCHANGED <<attempts, invites, users, orgs, memberships, signedIn, key>>
         /\ cached' \in {cached, key}
<1> DEFINE call == callbacks[c]
           Next(new) == /\ callbacks' = [callbacks EXCEPT ![c] = new]
                        /\ new.attempt = call.attempt \/ new.pc = "idle"
<1>0. call \in CallbackRow /\ users \in [Users -> UserRow]
  BY DEF OidcTypeOK
<1>1. CASE Exchange(c)
  <2>1. PICK who \in Identities :
          callbacks' = [callbacks EXCEPT ![c].pc = "verify", ![c].signed = key, ![c].who = who]
    BY <1>1 DEF Exchange
  <2>2. [call EXCEPT !.pc = "verify", !.signed = key, !.who = who] \in CallbackRow
    BY <1>0 DEF CallbackRow, OidcTypeOK
  <2>3. Next([call EXCEPT !.pc = "verify", !.signed = key, !.who = who])
    BY <1>0, <2>1 DEF CallbackRow, OidcTypeOK
  <2> QED
    BY <1>1, <2>2, <2>3 DEF Exchange, UnderWay
<1>2. CASE Verify(c) \/ Refresh(c)
  <2>1. PICK pc \in {"resolve", "refresh", "refused"} : callbacks' = [callbacks EXCEPT ![c].pc = pc]
    BY <1>2 DEF Verify, Refresh
  <2>2. [call EXCEPT !.pc = pc] \in CallbackRow /\ Next([call EXCEPT !.pc = pc])
    BY <1>0, <2>1 DEF CallbackRow, OidcTypeOK
  <2> QED
    BY <1>2, <2>2 DEF Verify, Refresh, UnderWay
<1>3. CASE CallbackFails(c)
  BY <1>3, IdleShapes DEF CallbackFails, UnderWay
<1>4. CASE BySubject(c)
  <2>1. CASE callbacks' = [callbacks EXCEPT ![c].pc = "email"]
    <3>1. [call EXCEPT !.pc = "email"] \in CallbackRow /\ Next([call EXCEPT !.pc = "email"])
      BY <1>0, <2>1 DEF CallbackRow, OidcTypeOK
    <3> QED
      BY <1>4, <3>1 DEF BySubject, UnderWay
  <2>2. ASSUME NEW u \in Users,
               callbacks' = [callbacks EXCEPT ![c].pc = "session", ![c].user = u, ![c].row = users[u]]
        PROVE  \E new \in CallbackRow : Next(new)
    <3>1. users[u] \in UserRow
      BY <1>0
    <3>2. [call EXCEPT !.pc = "session", !.user = u, !.row = users[u]] \in CallbackRow
      BY <1>0, <3>1 DEF CallbackRow
    <3>3. Next([call EXCEPT !.pc = "session", !.user = u, !.row = users[u]])
      BY <1>0, <2>2 DEF CallbackRow, OidcTypeOK
    <3> QED
      BY <3>2, <3>3
  <2> QED
    BY <1>4, <2>1, <2>2 DEF BySubject, Bound, Present, UnderWay
<1>5. CASE ByEmail(c)
  <2> DEFINE found == WithEmail(call.who.email)
  <2>1. PICK new : /\ callbacks' = [callbacks EXCEPT ![c] = new]
                   /\ \/ \E pc \in {"unavailable", "provision", "conflict"} : new = [call EXCEPT !.pc = pc]
                      \/ found # {} /\ new = [call EXCEPT !.pc = "bind", !.user = CHOOSE u \in found : TRUE]
    BY <1>5 DEF ByEmail
  <2>2. found # {} => (CHOOSE u \in found : TRUE) \in Users
    BY DEF WithEmail, Present
  <2>3. new \in CallbackRow /\ new.attempt = call.attempt
    BY <1>0, <2>1, <2>2 DEF CallbackRow
  <2> QED
    BY <1>5, <2>1, <2>3 DEF ByEmail, UnderWay
<1>6. ASSUME NEW u \in Users, NEW row \in UserRow, WriteUser(c, u, row)
      PROVE  \E new \in CallbackRow : Next(new)
  <2>1. PICK new : /\ callbacks' = [callbacks EXCEPT ![c] = new]
                   /\ \/ new = [call EXCEPT !.pc = "conflict"]
                      \/ new = [call EXCEPT !.pc = "session", !.user = u, !.row = row]
    BY <1>6 DEF WriteUser
  <2>2. new \in CallbackRow /\ new.attempt = call.attempt
    BY <1>0, <2>1 DEF CallbackRow
  <2> QED
    BY <2>1, <2>2
<1>7. CASE Bind(c)
  <2>1. call.user \in Users
    BY <1>0 DEF CallbackRow
  <2>2. [users[call.user] EXCEPT !.subject = call.who.subject] \in UserRow
    BY <1>0, <2>1, IdentityShape DEF UserRow
  <2> QED
    BY <1>6, <1>7, <2>1, <2>2 DEF Bind, UnderWay
<1>8. CASE Provision(c)
  <2>1. PICK u \in Users, o \in Orgs :
          WriteUser(c, u, [present |-> TRUE, org |-> o, email |-> call.who.email, subject |-> call.who.subject])
    BY <1>8 DEF Provision
  <2>2. [present |-> TRUE, org |-> o, email |-> call.who.email, subject |-> call.who.subject] \in UserRow
    BY IdentityShape DEF UserRow
  <2> QED
    BY <1>6, <1>8, <2>1, <2>2 DEF Provision, UnderWay
<1> QED
  BY <1>1, <1>2, <1>3, <1>4, <1>5, <1>7, <1>8

LEMMA OidcShapesStep ==
  ASSUME OidcInv, OidcNext
  PROVE  OidcShapes'
<1>0. OidcShapes /\ OidcTypeOK /\ UNCHANGED provisioning
  BY DEF OidcInv, OidcShapes, OidcNext
<1>1. ASSUME NEW a \in Attempts, Start(a) \/ ExpireAttempt(a) PROVE OidcShapes'
  BY <1>0, <1>1 DEF Start, ExpireAttempt, OidcShapes, OidcTypeOK, Present
<1>2. ASSUME NEW a \in Attempts, NEW c \in Callbacks, Consume(c, a) PROVE OidcShapes'
  <2> DEFINE new == [IdleCallback EXCEPT !.pc = "exchange", !.attempt = a, !.keys = cached]
  <2>1. cached \in 0..MaxRotations
    BY <1>0, OidcAssumption DEF OidcTypeOK
  <2>2. new \in CallbackRow
    BY <2>1, IdleShapes DEF CallbackRow
  <2>3. callbacks' = [callbacks EXCEPT ![c] = new]
    BY <1>2 DEF Consume
  <2> HIDE DEF new
  <2> QED
    BY <1>0, <1>2, <2>2, <2>3 DEF Consume, OidcShapes, OidcTypeOK, Present
<1>3. ASSUME NEW c \in Callbacks,
             \/ Exchange(c) \/ Verify(c) \/ Refresh(c) \/ CallbackFails(c)
             \/ BySubject(c) \/ ByEmail(c) \/ Bind(c) \/ Provision(c)
      PROVE  OidcShapes'
  <2>1. /\ \E new \in CallbackRow : callbacks' = [callbacks EXCEPT ![c] = new]
        /\ UNCHANGED <<attempts, invites, users, orgs, memberships, signedIn, key>>
        /\ cached' \in {cached, key}
    BY <1>0, <1>3, CallbackShape
  <2> QED
    BY <1>0, <2>1 DEF OidcShapes, OidcTypeOK, Present
<1>4. ASSUME NEW c \in Callbacks, IssueSession(c) PROVE OidcShapes'
  <2> DEFINE call == callbacks[c]
             joined == IF call.user \in Present THEN memberships
                       ELSE memberships \cup {<<call.row.org, call.user>>}
             opened == [attempt |-> call.attempt, callback |-> c, subject |-> call.who.subject, user |-> call.user]
  <2>1. call \in CallbackRow
    BY <1>0 DEF OidcTypeOK
  <2>2. CASE callbacks' = [callbacks EXCEPT ![c].pc = "unavailable"] /\ UNCHANGED <<users, orgs, memberships, signedIn>>
    <3>1. [call EXCEPT !.pc = "unavailable"] \in CallbackRow
      BY <2>1 DEF CallbackRow
    <3>2. callbacks' \in [Callbacks -> CallbackRow]
      BY <1>0, <2>2, <3>1 DEF OidcTypeOK
    <3> QED
      BY <1>0, <1>4, <2>2, <3>2 DEF IssueSession, OidcShapes, OidcTypeOK, Present
  <2>3. CASE /\ users' = [users EXCEPT ![call.user] = call.row]
             /\ orgs' = orgs \cup {call.row.org}
             /\ memberships' = joined
             /\ signedIn' = signedIn \cup {opened}
             /\ callbacks' = [callbacks EXCEPT ![c] = IdleCallback]
    <3>1. call.row.present /\ call.row \in UserRow /\ call.user \in Users
      BY <1>4, <2>1 DEF IssueSession, OidcInv, SubjectsAreUnique, CallbackRow
    <3>2. users' \in [Users -> UserRow] /\ Present' = Present \cup {call.user}
      BY <1>0, <2>3, <3>1 DEF OidcTypeOK, Present
    <3>3. orgs' \subseteq Orgs /\ call.row.org \in orgs' /\ orgs \subseteq orgs'
      BY <1>0, <2>3, <3>1 DEF OidcTypeOK, UserRow
    <3>4. memberships' \subseteq orgs' \X Present'
      BY <1>0, <2>3, <3>2, <3>3 DEF OidcTypeOK
    <3>5. opened \in SessionOpened
      BY <1>0, <2>1, <3>1, IdentityShape DEF SessionOpened, CallbackRow
    <3>6. signedIn' \subseteq SessionOpened /\ callbacks' \in [Callbacks -> CallbackRow]
      BY <1>0, <2>3, <3>5, IdleShapes DEF OidcTypeOK
    <3>7. UNCHANGED <<attempts, invites, key, cached>>
      BY <1>4 DEF IssueSession
    <3> QED
      BY <1>0, <3>2, <3>3, <3>4, <3>6, <3>7 DEF OidcShapes, OidcTypeOK
  <2> QED
    BY <1>4, <2>2, <2>3 DEF IssueSession
<1>5. ASSUME NEW i \in Invites, ReadInvite(i) \/ InsertInvited(i) PROVE OidcShapes'
  <2>1. invites[i] \in InviteRow
    BY <1>0 DEF OidcTypeOK
  <2>2. PICK new \in InviteRow : invites' = [invites EXCEPT ![i] = new]
    <3>1. CASE ReadInvite(i)
      <4>1. CASE invites' = [invites EXCEPT ![i].pc = "insert"]
        <5>1. [invites[i] EXCEPT !.pc = "insert"] \in InviteRow
          BY <2>1 DEF InviteRow
        <5> QED
          BY <4>1, <5>1
      <4> DEFINE found == WithEmail(InviteEmail[i])
      <4>2. CASE (\E s \in signedIn : s.user \in found)
                 /\ invites' = [invites EXCEPT ![i] = [pc |-> "join", user |-> CHOOSE u \in found : TRUE]]
        <5>1. (CHOOSE u \in found : TRUE) \in Users
          BY <4>2 DEF WithEmail, Present
        <5> HIDE DEF found
        <5>2. [pc |-> "join", user |-> CHOOSE u \in found : TRUE] \in InviteRow
          BY <5>1 DEF InviteRow
        <5> QED
          BY <4>2, <5>2
      <4> QED
        BY <3>1, <4>1, <4>2 DEF ReadInvite
    <3>2. CASE InsertInvited(i)
      BY <3>2, IdleShapes DEF InsertInvited, InviteRow
    <3> QED
      BY <1>5, <3>1, <3>2
  <2> QED
    BY <1>0, <1>5, <2>2 DEF ReadInvite, InsertInvited, OidcShapes, OidcTypeOK, Present
<1>6. ASSUME NEW i \in Invites, AcceptInvitation(i) PROVE OidcShapes'
  <2> DEFINE row == [present |-> TRUE, org |-> InviteOrg[i], email |-> InviteEmail[i], subject |-> NoSubject]
  <2>1. row \in UserRow /\ row.present
    BY OidcAssumption DEF UserRow, Emails
  <2>2. invites[i] \in InviteRow /\ invites[i].user \in Users
    BY <1>0 DEF OidcTypeOK, InviteRow
  <2>3. CASE invites[i].pc = "join"
    <3>1. invites[i].user \in Present /\ Present' = Present /\ users' = users
      BY <1>6, <2>3 DEF AcceptInvitation, OidcInv, AccountsAreHeld, Present
    <3>2. memberships' \subseteq orgs' \X Present'
      BY <1>0, <1>6, <3>1 DEF AcceptInvitation, OidcShapes, OidcTypeOK
    <3>3. invites' \in [Invites -> InviteRow]
      BY <1>0, <1>6, <2>2 DEF AcceptInvitation, OidcTypeOK, InviteRow
    <3> QED
      BY <1>0, <1>6, <3>1, <3>2, <3>3 DEF AcceptInvitation, OidcShapes, OidcTypeOK
  <2>4. CASE users' = [users EXCEPT ![invites[i].user] = row]
    <3> HIDE DEF row
    <3>1. users' \in [Users -> UserRow] /\ Present' = Present \cup {invites[i].user}
      BY <1>0, <2>1, <2>2, <2>4 DEF OidcTypeOK, Present
    <3>2. memberships' \subseteq orgs' \X Present'
      BY <1>0, <1>6, <3>1 DEF AcceptInvitation, OidcShapes, OidcTypeOK
    <3>3. invites' \in [Invites -> InviteRow]
      BY <1>0, <1>6, <2>2 DEF AcceptInvitation, OidcTypeOK, InviteRow
    <3> QED
      BY <1>0, <1>6, <3>1, <3>2, <3>3 DEF AcceptInvitation, OidcShapes, OidcTypeOK
  <2> QED
    BY <1>6, <2>3, <2>4 DEF AcceptInvitation
<1>7. ASSUME NEW m \in memberships, RemoveMember(m) PROVE OidcShapes'
  BY <1>0, <1>7 DEF RemoveMember, OidcShapes, OidcTypeOK, Present
<1>8. CASE RotateKey
  <2>1. UNCHANGED Present
    BY <1>8 DEF RotateKey, Present
  <2> QED
    BY <1>0, <1>8, <2>1, OidcAssumption DEF RotateKey, OidcShapes, OidcTypeOK
<1> QED
  BY <1>1, <1>2, <1>3, <1>4, <1>5, <1>6, <1>7, <1>8 DEF OidcNext

\* The attempt a callback has consumed is its own until it ends, and then it
\* is in the one session it opened or nowhere.
LEMMA AttemptsStep ==
  ASSUME OidcTypeOK, AttemptsAreTaken, OneSessionPerAttempt, OidcNext
  PROVE  AttemptsAreTaken' /\ OneSessionPerAttempt'
<1>1. ASSUME NEW a \in Attempts, Start(a) \/ ExpireAttempt(a)
      PROVE  AttemptsAreTaken' /\ OneSessionPerAttempt'
  <2>1. \A b \in Attempts : attempts[b] = "closed" => attempts'[b] = "closed"
    BY <1>1 DEF Start, ExpireAttempt, OidcTypeOK
  <2>2. /\ \A c \in UnderWay : callbacks[c].attempt \in Attempts
        /\ \A s \in signedIn : s.attempt \in Attempts
    BY DEF OidcTypeOK, CallbackRow, SessionOpened, UnderWay
  <2>3. UNCHANGED <<callbacks, signedIn, UnderWay>>
    BY <1>1 DEF Start, ExpireAttempt, UnderWay
  <2> QED
    BY <2>1, <2>2, <2>3 DEF AttemptsAreTaken, OneSessionPerAttempt
<1>2. ASSUME NEW a \in Attempts, NEW c \in Callbacks, Consume(c, a)
      PROVE  AttemptsAreTaken' /\ OneSessionPerAttempt'
  <2>1. /\ \A d \in UnderWay : callbacks[d].attempt \in Attempts \ {a}
        /\ \A s \in signedIn : s.attempt \in Attempts \ {a}
    BY <1>2 DEF Consume, OidcTypeOK, CallbackRow, SessionOpened, UnderWay, AttemptsAreTaken
  <2>2. [IdleCallback EXCEPT !.pc = "exchange", !.attempt = a, !.keys = cached].attempt = a
    BY IdleShapes DEF CallbackRow
  <2>3. callbacks'[c].attempt = a /\ \A d \in Callbacks \ {c} : callbacks'[d] = callbacks[d]
    BY <1>2, <2>2 DEF Consume, OidcTypeOK
  <2>4. c \notin UnderWay /\ UnderWay' \subseteq UnderWay \cup {c}
    BY <1>2, <2>3 DEF Consume, UnderWay
  <2>5. attempts'[a] = "closed" /\ \A b \in Attempts : attempts[b] = "closed" => attempts'[b] = "closed"
    BY <1>2 DEF Consume, OidcTypeOK
  <2>6. UNCHANGED signedIn
    BY <1>2 DEF Consume
  <2>7. \A d \in UnderWay' : d = c \/ (d \in UnderWay /\ callbacks'[d] = callbacks[d])
    BY <2>3, <2>4 DEF UnderWay
  <2>8. \A d, e \in UnderWay' : callbacks'[d].attempt = callbacks'[e].attempt => d = e
    BY <2>1, <2>3, <2>7 DEF AttemptsAreTaken
  <2>9. \A d \in UnderWay' : attempts'[callbacks'[d].attempt] = "closed"
    BY <2>1, <2>3, <2>5, <2>7 DEF AttemptsAreTaken
  <2>10. \A s \in signedIn', d \in UnderWay' : s.attempt # callbacks'[d].attempt
    BY <2>1, <2>3, <2>6, <2>7 DEF AttemptsAreTaken
  <2> QED
    BY <2>1, <2>5, <2>6, <2>8, <2>9, <2>10 DEF AttemptsAreTaken, OneSessionPerAttempt
<1>3. ASSUME NEW c \in Callbacks,
             \/ Exchange(c) \/ Verify(c) \/ Refresh(c) \/ CallbackFails(c)
             \/ BySubject(c) \/ ByEmail(c) \/ Bind(c) \/ Provision(c)
      PROVE  AttemptsAreTaken' /\ OneSessionPerAttempt'
  <2>1. PICK new \in CallbackRow : /\ callbacks' = [callbacks EXCEPT ![c] = new]
                                   /\ new.attempt = callbacks[c].attempt \/ new.pc = "idle"
    BY <1>3, CallbackShape
  <2>2. c \in UnderWay /\ UNCHANGED <<attempts, signedIn>>
    BY <1>3, CallbackShape
  <2>3. \A d \in UnderWay' : d \in UnderWay /\ callbacks'[d].attempt = callbacks[d].attempt
    BY <2>1, <2>2 DEF UnderWay, OidcTypeOK
  <2> QED
    BY <2>2, <2>3 DEF AttemptsAreTaken, OneSessionPerAttempt
<1>4. ASSUME NEW c \in Callbacks, IssueSession(c)
      PROVE  AttemptsAreTaken' /\ OneSessionPerAttempt'
  <2>1. c \in UnderWay /\ UNCHANGED attempts
    BY <1>4 DEF IssueSession, UnderWay
  <2>2. callbacks'[c].pc \in {"idle", "unavailable"} /\ \A d \in Callbacks \ {c} : callbacks'[d] = callbacks[d]
    BY <1>4, IdleShapes DEF IssueSession, OidcTypeOK, CallbackRow
  <2>3. \A d \in UnderWay' : d \in UnderWay \ {c} /\ callbacks'[d] = callbacks[d]
    BY <2>2 DEF UnderWay
  <2>4. \A s \in signedIn' : s \in signedIn \/ s.attempt = callbacks[c].attempt
    BY <1>4 DEF IssueSession
  <2>5. \A s, t \in signedIn' : s \notin signedIn /\ t \notin signedIn => s = t
    BY <1>4 DEF IssueSession
  <2>6. AttemptsAreTaken'
    BY <2>1, <2>3, <2>4 DEF AttemptsAreTaken
  <2>7. OneSessionPerAttempt'
    BY <2>1, <2>4, <2>5 DEF AttemptsAreTaken, OneSessionPerAttempt
  <2> QED
    BY <2>6, <2>7
<1>5. ASSUME UNCHANGED <<attempts, callbacks, signedIn>> PROVE AttemptsAreTaken' /\ OneSessionPerAttempt'
  BY <1>5 DEF AttemptsAreTaken, OneSessionPerAttempt, UnderWay
<1> QED
  BY <1>1, <1>2, <1>3, <1>4, <1>5
  DEF OidcNext, ReadInvite, InsertInvited, AcceptInvitation, RemoveMember, RotateKey

\* A callback moves on without committing; what it holds afterwards is its own.
LEMMA HoldingStep ==
  ASSUME OidcTypeOK, AccountsAreHeld, SubjectsAreUnique,
         NEW c \in Callbacks, NEW new \in CallbackRow, callbacks' = [callbacks EXCEPT ![c] = new],
         UNCHANGED <<invites, users, signedIn>>,
         new.pc \in {"bind", "session"} =>
           /\ \A d \in Holding \ {c} : callbacks[d].user # new.user
           /\ \A i \in Invites : invites[i].pc = "written" => invites[i].user # new.user,
         new.pc = "bind" => new.user \in Present /\ users[new.user].subject = NoSubject,
         new.pc = "session" =>
           /\ new.row.present /\ new.row.subject = new.who.subject
           /\ \A v \in Present : users[v].subject = new.row.subject => v = new.user
           /\ new.user \in Present => users[new.user].subject \in {NoSubject, new.row.subject}
           /\ \A d \in Callbacks \ {c} : callbacks[d].pc = "session" => callbacks[d].row.subject # new.row.subject
  PROVE  AccountsAreHeld' /\ SubjectsAreUnique'
<1>1. callbacks'[c] = new /\ \A d \in Callbacks \ {c} : callbacks'[d] = callbacks[d]
  BY DEF OidcTypeOK
<1>2. UNCHANGED <<Present, users, signedIn, invites>>
  BY DEF Present
<1>3. AccountsAreHeld'
  <2>1. \A d, e \in Holding' : callbacks'[d].user = callbacks'[e].user => d = e
    BY <1>1 DEF AccountsAreHeld, Holding
  <2>2. \A i \in Invites : invites'[i].pc = "written" =>
          invites'[i].user \notin Present' /\ ~Held(invites[i].user)'
    BY <1>1, <1>2 DEF AccountsAreHeld, Held
  <2>3. \A d \in Callbacks : callbacks'[d].pc = "bind" =>
          callbacks'[d].user \in Present' /\ users'[callbacks'[d].user].subject = NoSubject
    BY <1>1, <1>2 DEF AccountsAreHeld
  <2> QED
    BY <1>2, <2>1, <2>2, <2>3 DEF AccountsAreHeld
<1>4. SubjectsAreUnique'
  <2>1. \A d \in Callbacks : callbacks'[d].pc = "session" =>
          /\ callbacks'[d].row.present
          /\ callbacks'[d].row.subject = callbacks'[d].who.subject
          /\ \A v \in Present : users[v].subject = callbacks'[d].row.subject => v = callbacks'[d].user
          /\ callbacks'[d].user \in Present =>
               users[callbacks'[d].user].subject \in {NoSubject, callbacks'[d].row.subject}
    BY <1>1 DEF SubjectsAreUnique
  <2>2. \A d, e \in Callbacks :
          /\ callbacks'[d].pc = "session" /\ callbacks'[e].pc = "session"
          /\ callbacks'[d].row.subject = callbacks'[e].row.subject
          => d = e
    BY <1>1 DEF SubjectsAreUnique
  <2> QED
    BY <1>2, <2>1, <2>2 DEF SubjectsAreUnique
<1> QED
  BY <1>3, <1>4

\* A row is written only where no row, committed or not, has its subject.
LEMMA WriteUserStep ==
  ASSUME OidcTypeOK, AccountsAreHeld, SubjectsAreUnique, UNCHANGED <<invites, users, signedIn>>,
         NEW c \in Callbacks, callbacks[c].pc # "session",
         NEW u \in Users, NEW row \in UserRow, WriteUser(c, u, row),
         row.present, row.subject = callbacks[c].who.subject,
         \A d \in Holding \ {c} : callbacks[d].user # u,
         \A i \in Invites : invites[i].pc = "written" => invites[i].user # u,
         u \in Present => users[u].subject = NoSubject
  PROVE  AccountsAreHeld' /\ SubjectsAreUnique'
<1> DEFINE call == callbacks[c]
<1>0. call \in CallbackRow /\ row.subject # NoSubject
  BY IdentityShape DEF OidcTypeOK
<1>1. CASE callbacks' = [callbacks EXCEPT ![c] = [call EXCEPT !.pc = "conflict"]]
  <2>1. [call EXCEPT !.pc = "conflict"] \in CallbackRow /\ [call EXCEPT !.pc = "conflict"].pc = "conflict"
    BY <1>0 DEF CallbackRow
  <2> QED
    BY <1>1, <2>1, HoldingStep
<1>2. CASE /\ ~\E v \in Present \ {u} : Clash(row, users[v])
           /\ callbacks' = [callbacks EXCEPT ![c] = [call EXCEPT !.pc = "session", !.user = u, !.row = row]]
  <2> DEFINE new == [call EXCEPT !.pc = "session", !.user = u, !.row = row]
  <2>1. new \in CallbackRow /\ new.pc = "session" /\ new.user = u /\ new.row = row /\ new.who = call.who
    BY <1>0 DEF CallbackRow
  <2>2. \A v \in Present : users[v].subject = row.subject => v = u
    BY <1>0, <1>2 DEF Clash, Present
  <2>3. \A d \in Callbacks \ {c} : callbacks[d].pc = "session" => callbacks[d].row.subject # row.subject
    <3> SUFFICES ASSUME NEW d \in Callbacks \ {c}, callbacks[d].pc = "session"
                 PROVE  callbacks[d].row.subject # row.subject
      OBVIOUS
    <3>1. callbacks[d].row \in Writing /\ callbacks[d].row.present
      BY DEF Writing, SubjectsAreUnique
    <3> QED
      BY <1>0, <3>1 DEF WriteUser, Clash
  <2> HIDE DEF new
  <2>4. callbacks' = [callbacks EXCEPT ![c] = new]
    BY <1>2 DEF new
  <2> QED
    BY <2>1, <2>2, <2>3, <2>4, HoldingStep
<1> QED
  BY <1>1, <1>2 DEF WriteUser

LEMMA AccountsStep ==
  ASSUME OidcTypeOK, AccountsAreHeld, SubjectsAreUnique, OidcNext
  PROVE  AccountsAreHeld' /\ SubjectsAreUnique'
<1>1. ASSUME UNCHANGED <<callbacks, invites, users, signedIn>> PROVE AccountsAreHeld' /\ SubjectsAreUnique'
  BY <1>1 DEF AccountsAreHeld, SubjectsAreUnique, Holding, Present, Held
<1>2. ASSUME NEW a \in Attempts, NEW c \in Callbacks, Consume(c, a)
      PROVE  AccountsAreHeld' /\ SubjectsAreUnique'
  <2> DEFINE new == [IdleCallback EXCEPT !.pc = "exchange", !.attempt = a, !.keys = cached]
  <2>1. cached \in 0..MaxRotations
    BY OidcAssumption DEF OidcTypeOK
  <2>2. new \in CallbackRow /\ new.pc = "exchange"
    BY <2>1, IdleShapes DEF CallbackRow
  <2>3. callbacks' = [callbacks EXCEPT ![c] = new] /\ UNCHANGED <<invites, users, signedIn>>
    BY <1>2 DEF Consume
  <2> HIDE DEF new
  <2> QED
    BY <2>2, <2>3, HoldingStep
<1>3. ASSUME NEW c \in Callbacks, Exchange(c) \/ Verify(c) \/ Refresh(c) \/ CallbackFails(c)
      PROVE  AccountsAreHeld' /\ SubjectsAreUnique'
  <2>1. PICK new \in CallbackRow : callbacks' = [callbacks EXCEPT ![c] = new]
    BY <1>3, CallbackShape
  <2>2. new = callbacks'[c]
    BY <2>1 DEF OidcTypeOK
  <2>3. callbacks'[c].pc \in {"verify", "resolve", "refresh", "refused", "idle"}
    BY <1>3, IdleShapes DEF Exchange, Verify, Refresh, CallbackFails, OidcTypeOK, CallbackRow
  <2>4. UNCHANGED <<invites, users, signedIn>>
    BY <1>3, CallbackShape
  <2> QED
    BY <2>1, <2>2, <2>3, <2>4, HoldingStep
<1>4. ASSUME NEW c \in Callbacks, BySubject(c) PROVE AccountsAreHeld' /\ SubjectsAreUnique'
  <2> DEFINE call == callbacks[c]
  <2>1. call \in CallbackRow /\ UNCHANGED <<invites, users, signedIn>>
    BY <1>4 DEF BySubject, OidcTypeOK
  <2>2. CASE callbacks' = [callbacks EXCEPT ![c].pc = "email"]
    <3>1. [call EXCEPT !.pc = "email"] \in CallbackRow /\ [call EXCEPT !.pc = "email"].pc = "email"
      BY <2>1 DEF CallbackRow
    <3>2. callbacks' = [callbacks EXCEPT ![c] = [call EXCEPT !.pc = "email"]]
      BY <2>2 DEF OidcTypeOK
    <3> QED
      BY <2>1, <3>1, <3>2, HoldingStep
  <2>3. ASSUME NEW u \in Bound(call.who.subject), ~Held(u),
               callbacks' = [callbacks EXCEPT ![c].pc = "session", ![c].user = u, ![c].row = users[u]]
        PROVE  AccountsAreHeld' /\ SubjectsAreUnique'
    <3> DEFINE new == [call EXCEPT !.pc = "session", !.user = u, !.row = users[u]]
    <3>1. u \in Present /\ u \in Users /\ users[u] \in UserRow /\ users[u].present
          /\ users[u].subject = call.who.subject
      BY DEF Bound, Present, OidcTypeOK
    <3>2. new \in CallbackRow /\ new.pc = "session" /\ new.user = u /\ new.row = users[u] /\ new.who = call.who
      BY <2>1, <3>1 DEF CallbackRow
    <3>3. callbacks' = [callbacks EXCEPT ![c] = new]
      BY <2>3 DEF OidcTypeOK
    <3>4. /\ \A d \in Holding : callbacks[d].user # u
          /\ \A i \in Invites : invites[i].pc = "written" => invites[i].user # u
      BY <2>3, <3>1 DEF Held, Holding, AccountsAreHeld
    <3>5. users[u].subject # NoSubject
      BY <3>1, IdentityShape
    <3>6. \A v \in Present : users[v].subject = users[u].subject => v = u
      BY <3>1, <3>5 DEF SubjectsAreUnique
    <3>7. \A d \in Callbacks \ {c} : callbacks[d].pc = "session" => callbacks[d].row.subject # users[u].subject
      BY <3>1, <3>4 DEF SubjectsAreUnique, Holding
    <3> HIDE DEF new
    <3> QED
      BY <2>1, <3>1, <3>2, <3>3, <3>4, <3>6, <3>7, HoldingStep
  <2> QED
    BY <1>4, <2>2, <2>3 DEF BySubject
<1>5. ASSUME NEW c \in Callbacks, ByEmail(c) PROVE AccountsAreHeld' /\ SubjectsAreUnique'
  <2> DEFINE call == callbacks[c]
             found == WithEmail(call.who.email)
  <2>1. call \in CallbackRow /\ UNCHANGED <<invites, users, signedIn>>
    BY <1>5 DEF ByEmail, OidcTypeOK
  <2>2. ASSUME NEW pc \in {"unavailable", "provision", "conflict"},
               callbacks' = [callbacks EXCEPT ![c] = [call EXCEPT !.pc = pc]]
        PROVE  AccountsAreHeld' /\ SubjectsAreUnique'
    <3>1. [call EXCEPT !.pc = pc] \in CallbackRow /\ [call EXCEPT !.pc = pc].pc = pc
      BY <2>1 DEF CallbackRow
    <3> QED
      BY <2>1, <2>2, <3>1, HoldingStep
  <2>3. CASE /\ found # {} /\ \A u \in found : ~Held(u) /\ users[u].subject = NoSubject
             /\ callbacks' = [callbacks EXCEPT ![c] = [call EXCEPT !.pc = "bind", !.user = CHOOSE u \in found : TRUE]]
    <3>1. PICK u \in found : u = CHOOSE v \in found : TRUE
      BY <2>3
    <3> DEFINE new == [call EXCEPT !.pc = "bind", !.user = u]
    <3>2. u \in Present /\ u \in Users
      BY DEF WithEmail, Present
    <3>3. new \in CallbackRow /\ new.pc = "bind" /\ new.user = u
      BY <2>1, <3>2 DEF CallbackRow
    <3>4. /\ \A d \in Holding : callbacks[d].user # u
          /\ \A i \in Invites : invites[i].pc = "written" => invites[i].user # u
      BY <2>3, <3>2 DEF Held, Holding, AccountsAreHeld
    <3>5. callbacks' = [callbacks EXCEPT ![c] = new]
      BY <2>3, <3>1
    <3> HIDE DEF new
    <3> QED
      BY <2>1, <2>3, <3>2, <3>3, <3>4, <3>5, HoldingStep
  <2> QED
    BY <1>5, <2>2, <2>3 DEF ByEmail
<1>6. ASSUME NEW c \in Callbacks, Bind(c) PROVE AccountsAreHeld' /\ SubjectsAreUnique'
  <2> DEFINE u == callbacks[c].user
             row == [users[u] EXCEPT !.subject = callbacks[c].who.subject]
  <2>1. callbacks[c].pc = "bind" /\ WriteUser(c, u, row) /\ UNCHANGED <<invites, users, signedIn>>
    BY <1>6 DEF Bind
  <2>2. u \in Present /\ users[u].subject = NoSubject /\ u \in Users /\ users[u] \in UserRow /\ users[u].present
    BY <2>1 DEF AccountsAreHeld, Present, OidcTypeOK
  <2>3. row \in UserRow /\ row.present /\ row.subject = callbacks[c].who.subject
    BY <2>2, IdentityShape DEF UserRow
  <2>4. /\ \A d \in Holding \ {c} : callbacks[d].user # u
        /\ \A i \in Invites : invites[i].pc = "written" => invites[i].user # u
    BY <2>1, <2>2 DEF AccountsAreHeld, Holding
  <2> HIDE DEF row, u
  <2> QED
    BY <2>1, <2>2, <2>3, <2>4, WriteUserStep
<1>7. ASSUME NEW c \in Callbacks, Provision(c) PROVE AccountsAreHeld' /\ SubjectsAreUnique'
  <2> DEFINE Row(o) == [present |-> TRUE, org |-> o, email |-> callbacks[c].who.email,
                        subject |-> callbacks[c].who.subject]
  <2>1. PICK u \in Users, o \in Orgs : Fresh(u) /\ WriteUser(c, u, Row(o))
    BY <1>7 DEF Provision
  <2>2. Row(o) \in UserRow /\ Row(o).present /\ Row(o).subject = callbacks[c].who.subject
    BY IdentityShape DEF UserRow
  <2>3. /\ u \notin Present /\ \A d \in Holding : callbacks[d].user # u
        /\ \A i \in Invites : invites[i].pc = "written" => invites[i].user # u
    BY <2>1 DEF Fresh, Held, Holding
  <2>4. callbacks[c].pc # "session" /\ UNCHANGED <<invites, users, signedIn>>
    BY <1>7 DEF Provision
  <2> HIDE DEF Row
  <2> QED
    BY <2>1, <2>2, <2>3, <2>4, WriteUserStep
<1>8. ASSUME NEW c \in Callbacks, IssueSession(c) PROVE AccountsAreHeld' /\ SubjectsAreUnique'
  <2> DEFINE call == callbacks[c]
             w == call.user
             opened == [attempt |-> call.attempt, callback |-> c, subject |-> call.who.subject, user |-> w]
  <2>0. call \in CallbackRow /\ call.pc = "session" /\ w \in Users /\ call.row \in UserRow
    BY <1>8 DEF IssueSession, OidcTypeOK, CallbackRow
  <2>1. CASE callbacks' = [callbacks EXCEPT ![c].pc = "unavailable"] /\ UNCHANGED <<users, signedIn>>
    <3>1. [call EXCEPT !.pc = "unavailable"] \in CallbackRow /\ [call EXCEPT !.pc = "unavailable"].pc = "unavailable"
      BY <2>0 DEF CallbackRow
    <3>2. callbacks' = [callbacks EXCEPT ![c] = [call EXCEPT !.pc = "unavailable"]]
      BY <2>1 DEF OidcTypeOK
    <3>3. UNCHANGED invites
      BY <1>8 DEF IssueSession
    <3> QED
      BY <2>1, <3>1, <3>2, <3>3, HoldingStep
  <2>2. CASE /\ users' = [users EXCEPT ![w] = call.row]
             /\ signedIn' = signedIn \cup {opened}
             /\ callbacks' = [callbacks EXCEPT ![c] = IdleCallback]
    <3>1. /\ call.row.present /\ call.row.subject = call.who.subject
          /\ \A v \in Present : users[v].subject = call.row.subject => v = w
          /\ w \in Present => users[w].subject \in {NoSubject, call.row.subject}
          /\ \A d \in Callbacks \ {c} : callbacks[d].pc = "session" => callbacks[d].row.subject # call.row.subject
      BY <2>0 DEF SubjectsAreUnique
    <3>2. /\ users'[w] = call.row /\ \A v \in Users \ {w} : users'[v] = users[v]
          /\ Present' = Present \cup {w}
      BY <2>0, <2>2, <3>1 DEF OidcTypeOK, Present
    <3>3. callbacks'[c].pc = "idle" /\ \A d \in Callbacks \ {c} : callbacks'[d] = callbacks[d]
      BY <2>2, IdleShapes DEF OidcTypeOK
    <3>4. Holding' = Holding \ {c} /\ \A d \in Holding' : callbacks'[d] = callbacks[d] /\ callbacks[d].user # w
      <4>1. Holding' = Holding \ {c}
        BY <3>3 DEF Holding
      <4> QED
        BY <2>0, <3>3, <4>1 DEF Holding, AccountsAreHeld
    <3>5. UNCHANGED invites
      BY <1>8 DEF IssueSession
    <3>6. \A i \in Invites : invites[i].pc = "written" =>
            invites[i].user # w /\ invites[i].user \notin Present /\ ~Held(invites[i].user)'
      BY <2>0, <3>3, <3>5 DEF AccountsAreHeld, Held
    <3>7. \A d \in Callbacks : callbacks'[d].pc = "bind" =>
            callbacks'[d].user \in Present' /\ users'[callbacks'[d].user].subject = NoSubject
      <4> SUFFICES ASSUME NEW d \in Callbacks, callbacks'[d].pc = "bind"
                   PROVE  callbacks'[d].user \in Present' /\ users'[callbacks'[d].user].subject = NoSubject
        OBVIOUS
      <4>1. d # c /\ callbacks'[d] = callbacks[d] /\ callbacks[d].user # w /\ callbacks[d].user \in Users
        BY <3>3, <3>4 DEF Holding, OidcTypeOK, CallbackRow
      <4> QED
        BY <3>2, <4>1 DEF AccountsAreHeld
    <3>8. AccountsAreHeld'
      <4>1. \A d, e \in Holding' : callbacks'[d].user = callbacks'[e].user => d = e
        BY <3>4 DEF AccountsAreHeld
      <4> QED
        BY <3>2, <3>5, <3>6, <3>7, <4>1 DEF AccountsAreHeld
    <3>9. \A u, v \in Present' : users'[u].subject = users'[v].subject => u = v \/ users'[u].subject = NoSubject
      BY <3>1, <3>2 DEF SubjectsAreUnique, Present
    <3>10. \A d \in Callbacks : callbacks'[d].pc = "session" =>
             /\ callbacks'[d].row.present
             /\ callbacks'[d].row.subject = callbacks'[d].who.subject
             /\ \A v \in Present' : users'[v].subject = callbacks'[d].row.subject => v = callbacks'[d].user
             /\ callbacks'[d].user \in Present' =>
                  users'[callbacks'[d].user].subject \in {NoSubject, callbacks'[d].row.subject}
      <4> SUFFICES ASSUME NEW d \in Callbacks, callbacks'[d].pc = "session"
                   PROVE  /\ callbacks'[d].row.present
                          /\ callbacks'[d].row.subject = callbacks'[d].who.subject
                          /\ \A v \in Present' : users'[v].subject = callbacks'[d].row.subject => v = callbacks'[d].user
                          /\ callbacks'[d].user \in Present' =>
                               users'[callbacks'[d].user].subject \in {NoSubject, callbacks'[d].row.subject}
        OBVIOUS
      <4>1. d # c /\ callbacks'[d] = callbacks[d] /\ callbacks[d].user # w /\ callbacks[d].user \in Users
        BY <3>3, <3>4 DEF Holding, OidcTypeOK, CallbackRow
      <4>2. \A v \in Present : v \in Users
        BY DEF Present
      <4> QED
        BY <3>1, <3>2, <4>1, <4>2 DEF SubjectsAreUnique
    <3>11. \A d, e \in Callbacks :
             /\ callbacks'[d].pc = "session" /\ callbacks'[e].pc = "session"
             /\ callbacks'[d].row.subject = callbacks'[e].row.subject
             => d = e
      BY <3>3 DEF SubjectsAreUnique
    <3>12. \A s \in signedIn' : s.user \in Present' /\ users'[s.user].subject = s.subject
      <4>1. opened.user = w /\ opened.subject = call.row.subject
        BY <3>1
      <4>2. \A s \in signedIn : s.user \in Present /\ s.user \in Users /\ users[s.user].subject = s.subject
                               /\ s.subject # NoSubject
        BY SubjectsAssumption DEF SubjectsAreUnique, OidcTypeOK, SessionOpened
      <4> HIDE DEF opened
      <4> QED
        BY <2>2, <3>1, <3>2, <4>1, <4>2
    <3> QED
      BY <3>8, <3>9, <3>10, <3>11, <3>12 DEF SubjectsAreUnique
  <2> QED
    BY <1>8, <2>1, <2>2 DEF IssueSession
<1>9. ASSUME NEW i \in Invites, ReadInvite(i) \/ InsertInvited(i) PROVE AccountsAreHeld' /\ SubjectsAreUnique'
  <2>1. UNCHANGED <<callbacks, users, signedIn>>
    BY <1>9 DEF ReadInvite, InsertInvited
  <2>2. UNCHANGED <<Present, Holding>> /\ \A u : Held(u)' = Held(u)
    BY <2>1 DEF Present, Holding, Held
  <2>3. \A j \in Invites \ {i} : invites'[j] = invites[j]
    BY <1>9 DEF ReadInvite, InsertInvited, OidcTypeOK
  <2>4. /\ invites'[i].pc = "written" => Fresh(invites'[i].user)
        /\ invites'[i].pc = "join" => invites'[i].user \in Present
    <3>1. CASE ReadInvite(i)
      <4> DEFINE found == WithEmail(InviteEmail[i])
      <4>1. CASE invites' = [invites EXCEPT ![i].pc = "insert"]
        BY <4>1 DEF OidcTypeOK, InviteRow
      <4>2. CASE (\E s \in signedIn : s.user \in found)
                 /\ invites' = [invites EXCEPT ![i] = [pc |-> "join", user |-> CHOOSE u \in found : TRUE]]
        <5>1. (CHOOSE u \in found : TRUE) \in Present
          BY <4>2 DEF WithEmail
        <5> HIDE DEF found
        <5> QED
          BY <4>2, <5>1 DEF OidcTypeOK
      <4> QED
        BY <3>1, <4>1, <4>2 DEF ReadInvite
    <3>2. CASE InsertInvited(i)
      BY <3>2, IdleShapes DEF InsertInvited, OidcTypeOK
    <3> QED
      BY <1>9, <3>1, <3>2
  <2>5. AccountsAreHeld'
    BY <2>1, <2>2, <2>3, <2>4 DEF AccountsAreHeld, Fresh
  <2>6. SubjectsAreUnique'
    BY <2>1, <2>2 DEF SubjectsAreUnique
  <2> QED
    BY <2>5, <2>6
<1>10. ASSUME NEW i \in Invites, AcceptInvitation(i) PROVE AccountsAreHeld' /\ SubjectsAreUnique'
  <2> DEFINE w == invites[i].user
  <2>1. /\ UNCHANGED <<callbacks, signedIn>>
        /\ invites'[i].pc = "accepted" /\ \A j \in Invites \ {i} : invites'[j] = invites[j]
        /\ w \in Users
    BY <1>10 DEF AcceptInvitation, OidcTypeOK, InviteRow
  <2>2. UNCHANGED Holding /\ \A u : Held(u)' = Held(u)
    BY <2>1 DEF Holding, Held
  <2>3. CASE invites[i].pc = "join"
    <3>1. UNCHANGED <<users, Present>>
      BY <1>10, <2>3 DEF AcceptInvitation, Present
    <3> QED
      BY <2>1, <2>2, <3>1 DEF AccountsAreHeld, SubjectsAreUnique
  <2>4. CASE invites[i].pc = "written"
    <3>1. w \notin Present /\ ~Held(w)
      BY <2>4 DEF AccountsAreHeld
    <3>2. /\ users'[w].present /\ users'[w].subject = NoSubject
          /\ \A v \in Users \ {w} : users'[v] = users[v]
      BY <1>10, <2>1, <2>4 DEF AcceptInvitation, OidcTypeOK
    <3>3. Present' = Present \cup {w}
      BY <2>1, <3>2 DEF Present
    <3>4. \A v \in Present : users'[v] = users[v]
      BY <3>1, <3>2 DEF Present
    <3>5. \A c \in Holding : callbacks[c].user # w
      BY <3>1 DEF Holding, Held
    <3>6. AccountsAreHeld'
      <4>1. \A j \in Invites : invites'[j].pc = "written" => j # i /\ invites'[j] = invites[j] /\ invites[j].user # w
        BY <2>1, <2>4 DEF AccountsAreHeld
      <4> QED
        BY <2>1, <2>2, <3>3, <3>4, <4>1 DEF AccountsAreHeld
    <3>7. \A u, v \in Present' : users'[u].subject = users'[v].subject => u = v \/ users'[u].subject = NoSubject
      BY <3>2, <3>3, <3>4 DEF SubjectsAreUnique
    <3>8. ASSUME NEW c \in Callbacks, callbacks[c].pc = "session"
          PROVE  callbacks[c].row.subject # NoSubject /\ callbacks[c].user # w
      BY <3>5, <3>8, IdentityShape DEF SubjectsAreUnique, Holding
    <3>9. \A s \in signedIn : s.user \in Present
      BY DEF SubjectsAreUnique
    <3> QED
      BY <2>1, <3>2, <3>3, <3>4, <3>6, <3>7, <3>8, <3>9 DEF SubjectsAreUnique
  <2> QED
    BY <1>10, <2>3, <2>4 DEF AcceptInvitation
<1> QED
  BY <1>1, <1>2, <1>3, <1>4, <1>5, <1>6, <1>7, <1>8, <1>9, <1>10
  DEF OidcNext, Start, ExpireAttempt, RemoveMember, RotateKey

LEMMA OidcNextInv == OidcInv /\ [OidcNext]_oidcVars => OidcInv'
<1> SUFFICES ASSUME OidcInv, [OidcNext]_oidcVars PROVE OidcInv'
  OBVIOUS
<1>1. CASE OidcNext
  BY <1>1, OidcShapesStep, AttemptsStep, AccountsStep DEF OidcInv, OidcShapes
<1>2. CASE UNCHANGED oidcVars
  <2>1. UNCHANGED <<Present, UnderWay, Holding>> /\ \A u : Held(u)' = Held(u)
    BY <1>2 DEF oidcVars, Present, UnderWay, Holding, Held
  <2>2. OidcShapes'
    BY <1>2, <2>1 DEF oidcVars, OidcInv, OidcShapes, OidcTypeOK
  <2>3. AttemptsAreTaken' /\ OneSessionPerAttempt'
    BY <1>2, <2>1 DEF oidcVars, OidcInv, AttemptsAreTaken, OneSessionPerAttempt
  <2>4. AccountsAreHeld' /\ SubjectsAreUnique'
    BY <1>2, <2>1 DEF oidcVars, OidcInv, AccountsAreHeld, SubjectsAreUnique
  <2> QED
    BY <2>2, <2>3, <2>4 DEF OidcInv
<1> QED
  BY <1>1, <1>2

\* The types of the callbacks, invitations, accounts and keys; a membership
\* always joins an organization and an account that were committed.
THEOREM OidcTypeCorrect == OidcSpec => []OidcTypeOK
<1>1. OidcInv => OidcTypeOK
  BY DEF OidcInv, OidcShapes
<1> QED
  BY <1>1, OidcInitInv, OidcNextInv, PTL DEF OidcSpec

\* callback: an attempt opens at most one session, for any number of
\* callbacks that present it.
THEOREM OneSessionSafe == OidcSpec => []OneSessionPerAttempt
<1>1. OidcInv => OneSessionPerAttempt
  BY DEF OidcInv
<1> QED
  BY <1>1, OidcInitInv, OidcNextInv, PTL DEF OidcSpec

\* resolve_user: a subject and an account belong together for good, whatever
\* emails the provider asserts and whoever else signs in or is invited.
THEOREM SubjectIsStableSafe == OidcSpec => []SubjectIsStable
<1>1. OidcInv => SubjectIsStable
  <2> SUFFICES ASSUME OidcInv, NEW s \in signedIn, NEW t \in signedIn
               PROVE  s.subject = t.subject <=> s.user = t.user
    BY DEF SubjectIsStable
  <2>1. s.subject # NoSubject
    BY SubjectsAssumption DEF OidcInv, OidcShapes, OidcTypeOK, SessionOpened
  <2> QED
    BY <2>1 DEF OidcInv, SubjectsAreUnique
<1> QED
  BY <1>1, OidcInitInv, OidcNextInv, PTL DEF OidcSpec

=============================================================================
