----------------------------- MODULE Enrollment -----------------------------
(***************************************************************************)
(* How an installation of the client gets its credential, beside the       *)
(* members the credential is bound to: enrollment codes                    *)
(* (create_enrollment_code and enroll in crates/metrune-api/src/app.rs),   *)
(* device authorizations (device_auth.rs), and what remove_member does to  *)
(* them.                                                                   *)
(*                                                                         *)
(* A grant is a row of enrollment_codes or of                              *)
(* device_enrollment_authorizations.  Its owner is checked to be a member  *)
(* by one query and bound to the grant by a later one.  A redemption locks *)
(* the grant's row (FOR UPDATE), inserts the installation and marks the    *)
(* grant, in one transaction.                                              *)
(***************************************************************************)
EXTENDS Membership

CONSTANTS
    Codes,          \* rows of enrollment_codes
    Devices,        \* rows of device_enrollment_authorizations
    NoGrant,        \* the grant of a user or a redemption that has none
    Redeemers       \* requests that redeem a grant

ASSUME EnrollmentAssumption ==
    /\ Codes \cap Devices = {}
    /\ NoGrant \notin Codes \cup Devices

VARIABLES
    grants,         \* the grants
    issuing,        \* the grant each user has been authorized to issue
    redeeming,      \* the grant whose row each redemption has locked
    installations,  \* the installations that were created
    swept           \* installations that a removal in progress has revoked

enrollVars == <<grants, issuing, redeeming, installations, swept>>

Grants == Codes \cup Devices

Installation == [grant : Grants, by : Redeemers, owner : Users, active : BOOLEAN]

\* state: "pending" is a device nobody has decided about, "open" a grant that
\* can be redeemed, "closed" a code remove_member has marked as redeemed.
Grant == [state : {"none", "pending", "open", "denied", "closed", "redeemed"},
          owner : Users, live : BOOLEAN]

EnrollmentTypeOK ==
    /\ MembershipTypeOK
    /\ grants \in [Grants -> Grant]
    /\ issuing \in [Users -> Grants \cup {NoGrant}]
    /\ redeeming \in [Redeemers -> Grants \cup {NoGrant}]
    /\ installations \subseteq Installation
    /\ swept \in [Handlers -> SUBSET (SUBSET Installation)]

EnrollmentInit ==
    /\ MembershipInit
    /\ grants = [g \in Grants |-> [state |-> "none", owner |-> Founder, live |-> TRUE]]
    /\ issuing = [u \in Users |-> NoGrant]
    /\ redeeming = [r \in Redeemers |-> NoGrant]
    /\ installations = {}
    /\ swept = [h \in Handlers |-> {}]

Locked(g) == \E r \in Redeemers : redeeming[r] = g

Revoke(lost) ==
    installations' = {IF i \in lost THEN [i EXCEPT !.active = FALSE] ELSE i : i \in installations}

(***************************************************************************)
(* Issuing a grant.                                                        *)
(***************************************************************************)
\* authorize_device: a client asks, and no user is bound yet.
AuthorizeDevice(g) ==
    /\ g \in Devices /\ grants[g].state = "none"
    /\ grants' = [grants EXCEPT ![g].state = "pending"]
    /\ UNCHANGED <<memberVars, issuing, redeeming, installations, swept>>

\* dashboard_auth or active_organization: the user is a member at this time.
CheckMember(u, g) ==
    /\ issuing[u] = NoGrant
    /\ members[u] # "none"
    /\ grants[g].state = IF g \in Codes THEN "none" ELSE "pending"
    /\ issuing' = [issuing EXCEPT ![u] = g]
    /\ UNCHANGED <<memberVars, grants, redeeming, installations, swept>>

Bind(u, g, state) == grants' = [grants EXCEPT ![g].state = state, ![g].owner = u]

EndIssuing(u) ==
    /\ issuing' = [issuing EXCEPT ![u] = NoGrant]
    /\ UNCHANGED <<memberVars, redeeming, installations, swept>>

\* create_enrollment_code: the INSERT.
CreateEnrollmentCode(u) ==
    LET g == issuing[u]
    IN  /\ g \in Codes /\ grants[g].state = "none"
        /\ Bind(u, g, "open")
        /\ EndIssuing(u)

\* approve_device: the decision about a device that is pending and has not
\* expired; FOR UPDATE makes a second decision wait for the first.
ApproveDevice(u, decision) ==
    LET g == issuing[u]
    IN  /\ g \in Devices
        /\ grants[g].state = "pending" /\ grants[g].live
        /\ Bind(u, g, decision)
        /\ EndIssuing(u)

\* The request fails: 400 for a device that is decided or expired, or an error.
AbortIssuing(u) ==
    /\ issuing[u] # NoGrant
    /\ EndIssuing(u)
    /\ UNCHANGED grants

\* Ten minutes have passed.
ExpireGrant(g) ==
    /\ grants[g].state \in {"pending", "open"} /\ grants[g].live
    /\ grants' = [grants EXCEPT ![g].live = FALSE]
    /\ UNCHANGED <<memberVars, issuing, redeeming, installations, swept>>

(***************************************************************************)
(* Redeeming it: enroll and exchange_device_code.                          *)
(***************************************************************************)
\* Mutant of LockCode: SELECT without FOR UPDATE.
ReadCode(r, g) ==
    /\ redeeming[r] = NoGrant
    /\ g \in Codes /\ grants[g].state = "open" /\ grants[g].live
    /\ redeeming' = [redeeming EXCEPT ![r] = g]
    /\ UNCHANGED <<memberVars, grants, issuing, installations, swept>>

\* enroll: SELECT ... FOR UPDATE of a code that is not redeemed and not expired,
\* which waits for another redemption of it.
LockCode(r, g) ==
    /\ redeeming[r] = NoGrant
    /\ g \in Codes /\ grants[g].state = "open" /\ grants[g].live
    /\ ~Locked(g)
    /\ redeeming' = [redeeming EXCEPT ![r] = g]
    /\ UNCHANGED <<memberVars, grants, issuing, installations, swept>>

\* lock_device_authorization takes the row in any state; the request goes on
\* only with one that is approved and not expired.
LockDevice(r, g) ==
    /\ redeeming[r] = NoGrant
    /\ g \in Devices /\ ~Locked(g)
    /\ grants[g].state = "open" /\ grants[g].live
    /\ redeeming' = [redeeming EXCEPT ![r] = g]
    /\ UNCHANGED <<memberVars, grants, issuing, installations, swept>>

\* INSERT INTO installations and mark the grant.
Install(r, g) ==
    /\ installations' = installations \cup
           {[grant |-> g, by |-> r, owner |-> grants[g].owner, active |-> TRUE]}
    /\ grants' = [grants EXCEPT ![g].state = "redeemed"]

EndRedeem(r) ==
    /\ redeeming' = [redeeming EXCEPT ![r] = NoGrant]
    /\ UNCHANGED <<memberVars, issuing, swept>>

\* The rest of enroll.
Enroll(r) ==
    /\ redeeming[r] \in Codes
    /\ Install(r, redeeming[r])
    /\ EndRedeem(r)

\* The rest of exchange_device_code.
ExchangeDeviceCode(r) ==
    /\ redeeming[r] \in Devices
    /\ Install(r, redeeming[r])
    /\ EndRedeem(r)

AbortRedeem(r) ==
    /\ redeeming[r] # NoGrant
    /\ EndRedeem(r)
    /\ UNCHANGED <<grants, installations>>

\* revoke_my_installation, by an owner who is a member.
RevokeInstallation(i) ==
    /\ i.active /\ members[i.owner] # "none"
    /\ Revoke({i})
    /\ UNCHANGED <<memberVars, grants, issuing, redeeming, swept>>

(***************************************************************************)
(* remove_member after ensure_another_admin.                               *)
(***************************************************************************)
\* UPDATE installations: those of the target that are committed by now.
SweepInstallations(h) ==
    /\ handlers[h].step = "locked" /\ handlers[h].order.kind = "remove"
    /\ swept[h] = {}
    /\ swept' = [swept EXCEPT ![h] =
           {{i \in installations : i.active /\ i.owner = handlers[h].order.target}}]
    /\ UNCHANGED <<memberVars, grants, issuing, redeeming, installations>>

OpenCodes(u) == {g \in Codes : grants[g].state = "open" /\ grants[g].owner = u}

\* Mutant of CompleteRemoval: codes are closed under a redemption's lock.
CompleteRemovalAtOnce(h) ==
    LET target == handlers[h].order.target
        closed == OpenCodes(target)
    IN  /\ swept[h] # {}
        /\ RemoveMember(h)
        /\ IF members[target] = "none" THEN UNCHANGED <<installations, grants>>
           ELSE /\ Revoke(UNION swept[h])
                /\ grants' = [g \in Grants |->
                       IF g \in closed THEN [grants[g] EXCEPT !.state = "closed"] ELSE grants[g]]
        /\ swept' = [swept EXCEPT ![h] = {}]
        /\ UNCHANGED <<issuing, redeeming>>

\* UPDATE enrollment_codes, which waits for a redemption that has one locked,
\* then the DELETE and the commit; a target that is not a member is a 404 and
\* a rollback.  Device authorizations are not looked at.
CompleteRemoval(h) ==
    LET target == handlers[h].order.target
        closed == OpenCodes(target)
    IN  /\ swept[h] # {}
        /\ \A g \in closed : ~Locked(g)
        /\ RemoveMember(h)
        /\ IF members[target] = "none" THEN UNCHANGED <<installations, grants>>
           ELSE /\ Revoke(UNION swept[h])
                /\ grants' = [g \in Grants |->
                       IF g \in closed THEN [grants[g] EXCEPT !.state = "closed"] ELSE grants[g]]
        /\ swept' = [swept EXCEPT ![h] = {}]
        /\ UNCHANGED <<issuing, redeeming>>

\* A step of Membership that is not a removal; a rollback undoes the sweep.
MembershipStep ==
    \/ \E h \in Handlers : /\ HandlerStep(h)
                           /\ swept' = [swept EXCEPT ![h] = {}]
                           /\ UNCHANGED <<grants, issuing, redeeming, installations>>
    \/ \E i \in Invitations : InvitationStep(i) /\ UNCHANGED enrollVars

EnrollmentNext ==
    \/ MembershipStep
    \/ \E g \in Grants : AuthorizeDevice(g) \/ ExpireGrant(g)
    \/ \E u \in Users : \/ \E g \in Grants : CheckMember(u, g)
                        \/ CreateEnrollmentCode(u)
                        \/ \E decision \in {"open", "denied"} : ApproveDevice(u, decision)
                        \/ AbortIssuing(u)
    \/ \E r \in Redeemers : \/ \E g \in Grants : LockCode(r, g) \/ LockDevice(r, g)
                            \/ Enroll(r)
                            \/ ExchangeDeviceCode(r)
                            \/ AbortRedeem(r)
    \/ \E i \in installations : RevokeInstallation(i)
    \/ \E h \in Handlers : SweepInstallations(h) \/ CompleteRemoval(h)

EnrollmentSpec == EnrollmentInit /\ [][EnrollmentNext]_<<memberVars, enrollVars>>

(***************************************************************************)
(* Properties.                                                             *)
(***************************************************************************)
\* However many requests present one code or one device code at once, at most
\* one installation comes of it, and none of a device that was denied or a
\* code that was closed (the FOR UPDATE of enroll and exchange_device_code).
OneInstallationPerGrant ==
    \A i \in installations :
        /\ grants[i.grant].state = "redeemed"
        /\ \A j \in installations : i.grant = j.grant => i = j

\* A grant that is redeemed, denied or closed stays so: neither the approval of
\* a second user nor a redemption that was under way when remove_member closed
\* the code brings it back.
SettledGrantsStay ==
    [][\A g \in Grants : grants[g].state \in {"denied", "closed", "redeemed"}
          => grants'[g].state = grants[g].state]_<<memberVars, enrollVars>>

\* An installation that can still upload belongs to a member ("removal revokes
\* installations"; the comment in remove_member that "without this the removed
\* member's client keeps uploading into the organization indefinitely").
RemovedHasNoInstallation ==
    \A i \in installations : i.active => members[i.owner] # "none"

=============================================================================
