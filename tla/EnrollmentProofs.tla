-------------------------- MODULE EnrollmentProofs --------------------------
(***************************************************************************)
(* Proofs about Enrollment, for every number of accounts, grants, requests *)
(* and redemptions: it leaves the members to Membership, and the row locks *)
(* of the redemptions make a grant a one-time thing.                       *)
(***************************************************************************)
EXTENDS Enrollment, MembershipProofs

\* The row locks: a grant is locked by one redemption at most, and stays
\* redeemable as long as it is locked.
LocksHoldGrants ==
    /\ \A r, q \in Redeemers : redeeming[r] = redeeming[q] /\ r # q => redeeming[r] = NoGrant
    /\ \A r \in Redeemers : redeeming[r] # NoGrant => grants[redeeming[r]].state = "open"

\* Types of the variables Enrollment adds.
GrantTypes ==
    /\ grants \in [Grants -> Grant]
    /\ issuing \in [Users -> Grants \cup {NoGrant}]
    /\ redeeming \in [Redeemers -> Grants \cup {NoGrant}]
    /\ installations \subseteq Installation
    /\ swept \in [Handlers -> SUBSET (SUBSET Installation)]

\* The inductive invariant.
EnrollmentInv == GrantTypes /\ LocksHoldGrants /\ OneInstallationPerGrant

-----------------------------------------------------------------------------
(* Enrollment implements Membership.                                       *)

\* What happens to grants and installations is nothing to the members.
LEMMA EnrollmentStepsMembers ==
    ASSUME [EnrollmentNext]_<<memberVars, enrollVars>>
    PROVE  [MembershipNext]_memberVars
<1>1. CASE MembershipStep
  BY <1>1 DEF MembershipStep, MembershipNext
<1>2. CASE \E g \in Grants : AuthorizeDevice(g) \/ ExpireGrant(g)
  BY <1>2 DEF AuthorizeDevice, ExpireGrant
<1>3. ASSUME NEW u \in Users,
             \/ \E g \in Grants : CheckMember(u, g)
             \/ CreateEnrollmentCode(u)
             \/ \E decision \in {"open", "denied"} : ApproveDevice(u, decision)
             \/ AbortIssuing(u)
      PROVE  UNCHANGED memberVars
  BY <1>3 DEF CheckMember, CreateEnrollmentCode, ApproveDevice, AbortIssuing, EndIssuing
<1>4. ASSUME NEW r \in Redeemers,
             \/ \E g \in Grants : LockCode(r, g) \/ LockDevice(r, g)
             \/ Enroll(r) \/ ExchangeDeviceCode(r) \/ AbortRedeem(r)
      PROVE  UNCHANGED memberVars
  BY <1>4 DEF LockCode, LockDevice, Enroll, ExchangeDeviceCode, AbortRedeem, EndRedeem
<1>5. CASE \E i \in installations : RevokeInstallation(i)
  BY <1>5 DEF RevokeInstallation
<1>6. ASSUME NEW h \in Handlers, SweepInstallations(h) \/ CompleteRemoval(h)
      PROVE  [MembershipNext]_memberVars
  BY <1>6 DEF SweepInstallations, CompleteRemoval, MembershipNext
<1> QED
  BY <1>1, <1>2, <1>3, <1>4, <1>5, <1>6 DEF EnrollmentNext

\* Enrollment does to the members only what Membership allows, so that what is
\* proved of add_member, update_member and remove_member alone holds beside
\* redemptions and removals of installations too.
THEOREM EnrollmentImplementsMembership == EnrollmentSpec => MembershipSpec
<1>1. EnrollmentInit => MembershipInit
  BY DEF EnrollmentInit
<1>2. [EnrollmentNext]_<<memberVars, enrollVars>> => [MembershipNext]_memberVars
  BY EnrollmentStepsMembers
<1> QED
  BY <1>1, <1>2, PTL DEF EnrollmentSpec, MembershipSpec

-----------------------------------------------------------------------------
(* One installation for a grant.                                           *)

\* Revoking changes no grant of an installation and adds none.
LEMMA RevokeKeeps ==
    ASSUME NEW lost, Revoke(lost), installations \subseteq Installation, OneInstallationPerGrant,
           \A i \in installations : grants'[i.grant].state = "redeemed"
    PROVE  installations' \subseteq Installation /\ OneInstallationPerGrant'
<1> DEFINE After(i) == IF i \in lost THEN [i EXCEPT !.active = FALSE] ELSE i
<1>1. \A i \in installations : After(i) \in Installation /\ After(i).grant = i.grant
  BY DEF Installation
<1>2. installations' = {After(i) : i \in installations}
  BY DEF Revoke
<1> HIDE DEF After
<1>3. installations' \subseteq Installation
  BY <1>1, <1>2
<1>4. ASSUME NEW a \in installations'
      PROVE  /\ grants'[a.grant].state = "redeemed"
             /\ \A b \in installations' : a.grant = b.grant => a = b
  <2>1. PICK i \in installations : a = After(i)
    BY <1>2
  <2>2. \A b \in installations' : a.grant = b.grant => a = b
    <3> SUFFICES ASSUME NEW b \in installations', a.grant = b.grant PROVE a = b
      OBVIOUS
    <3>1. PICK j \in installations : b = After(j)
      BY <1>2
    <3> QED
      BY <1>1, <2>1, <3>1 DEF OneInstallationPerGrant
  <2> QED
    BY <1>1, <2>1, <2>2
<1> QED
  BY <1>3, <1>4 DEF OneInstallationPerGrant

\* A grant that is neither redeemed nor about to become anything else keeps the
\* installations as they are: enough for every step that creates none.
LEMMA GrantsKeepInstallations ==
    ASSUME OneInstallationPerGrant, installations \subseteq Installation,
           installations' = installations,
           \A g \in Grants : grants[g].state = "redeemed" => grants'[g].state = "redeemed"
    PROVE  OneInstallationPerGrant'
BY DEF OneInstallationPerGrant, Installation

\* Issuing a grant keeps the invariant.
LEMMA IssuingInv ==
    ASSUME EnrollmentInv, NEW u \in Users,
           \/ \E g \in Grants : CheckMember(u, g)
           \/ CreateEnrollmentCode(u)
           \/ \E decision \in {"open", "denied"} : ApproveDevice(u, decision)
           \/ AbortIssuing(u)
    PROVE  EnrollmentInv'
<1> USE EnrollmentAssumption DEF Grants
<1>0. GrantTypes /\ LocksHoldGrants /\ OneInstallationPerGrant
  BY DEF EnrollmentInv
<1>1. redeeming' = redeeming /\ installations' = installations /\ swept' = swept
  BY DEF CheckMember, CreateEnrollmentCode, ApproveDevice, AbortIssuing, EndIssuing
<1>2. issuing' \in [Users -> Grants \cup {NoGrant}]
  BY <1>0 DEF CheckMember, CreateEnrollmentCode, ApproveDevice, AbortIssuing, EndIssuing,
              GrantTypes
<1> DEFINE Kept ==
        /\ grants' \in [Grants -> Grant]
        /\ \A g \in Grants : grants[g].state \in {"open", "denied", "closed", "redeemed"}
                                => grants'[g] = grants[g]
<1>3. Kept
  <2>1. CASE grants' = grants
    BY <1>0, <2>1 DEF GrantTypes
  <2>2. ASSUME NEW g \in Grants, NEW state \in {"open", "denied"}, Bind(u, g, state),
               grants[g].state \in {"none", "pending"}
        PROVE  Kept
    BY <1>0, <2>2 DEF GrantTypes, Bind, Grant
  <2> QED
    BY <2>1, <2>2 DEF CheckMember, CreateEnrollmentCode, ApproveDevice, AbortIssuing
<1>4. GrantTypes'
  BY <1>0, <1>1, <1>2, <1>3 DEF GrantTypes
<1>5. LocksHoldGrants'
  BY <1>0, <1>1, <1>3 DEF LocksHoldGrants, GrantTypes
<1>6. OneInstallationPerGrant'
  BY <1>0, <1>1, <1>3, GrantsKeepInstallations DEF GrantTypes
<1> QED
  BY <1>4, <1>5, <1>6 DEF EnrollmentInv

\* Locking, redeeming and giving up keep it.
LEMMA RedeemingInv ==
    ASSUME EnrollmentInv, NEW r \in Redeemers,
           \/ \E g \in Grants : LockCode(r, g) \/ LockDevice(r, g)
           \/ Enroll(r) \/ ExchangeDeviceCode(r) \/ AbortRedeem(r)
    PROVE  EnrollmentInv'
<1> USE EnrollmentAssumption DEF Grants
<1>0. GrantTypes /\ LocksHoldGrants /\ OneInstallationPerGrant
  BY DEF EnrollmentInv
<1>1. ASSUME NEW g \in Grants, LockCode(r, g) \/ LockDevice(r, g)
      PROVE  EnrollmentInv'
  <2>1. /\ redeeming' = [redeeming EXCEPT ![r] = g]
        /\ grants[g].state = "open" /\ ~Locked(g)
        /\ grants' = grants /\ issuing' = issuing /\ installations' = installations
        /\ swept' = swept
    BY <1>1 DEF LockCode, LockDevice
  <2>2. GrantTypes'
    BY <1>0, <2>1 DEF GrantTypes
  <2>3. LocksHoldGrants'
    BY <1>0, <2>1 DEF LocksHoldGrants, GrantTypes, Locked
  <2>4. OneInstallationPerGrant'
    BY <1>0, <2>1 DEF OneInstallationPerGrant
  <2> QED
    BY <2>2, <2>3, <2>4 DEF EnrollmentInv
<1>2. CASE Enroll(r) \/ ExchangeDeviceCode(r)
  <2> DEFINE g == redeeming[r]
             new == [grant |-> g, by |-> r, owner |-> grants[g].owner, active |-> TRUE]
  <2>1. /\ g \in Grants /\ g # NoGrant
        /\ installations' = installations \cup {new}
        /\ grants' = [grants EXCEPT ![g].state = "redeemed"]
        /\ redeeming' = [redeeming EXCEPT ![r] = NoGrant]
        /\ issuing' = issuing /\ swept' = swept
    BY <1>2 DEF Enroll, ExchangeDeviceCode, Install, EndRedeem
  <2>2. grants[g].state = "open"
    BY <1>0, <2>1 DEF LocksHoldGrants
  <2>3. new \in Installation
    BY <1>0, <2>1 DEF GrantTypes, Grant, Installation
  <2>4. grants' \in [Grants -> Grant]
    BY <1>0, <2>1 DEF GrantTypes, Grant
  <2>5. GrantTypes'
    BY <1>0, <2>1, <2>3, <2>4 DEF GrantTypes
  <2>6. LocksHoldGrants'
    BY <1>0, <2>1 DEF LocksHoldGrants, GrantTypes, Grant
  <2>7. \A i \in installations : i.grant \in Grants /\ i.grant # g
    BY <1>0, <2>2 DEF OneInstallationPerGrant, GrantTypes, Installation
  <2>8. OneInstallationPerGrant'
    <3>1. grants'[g].state = "redeemed" /\ new.grant = g
      BY <1>0, <2>1 DEF GrantTypes, Grant
    <3>2. \A i \in installations : grants'[i.grant] = grants[i.grant]
      BY <1>0, <2>1, <2>7 DEF GrantTypes
    <3> HIDE DEF new, g
    <3> QED
      BY <1>0, <2>1, <2>7, <3>1, <3>2 DEF OneInstallationPerGrant
  <2> QED
    BY <2>5, <2>6, <2>8 DEF EnrollmentInv
<1>3. CASE AbortRedeem(r)
  <2>1. /\ redeeming' = [redeeming EXCEPT ![r] = NoGrant]
        /\ grants' = grants /\ issuing' = issuing /\ installations' = installations
        /\ swept' = swept
    BY <1>3 DEF AbortRedeem, EndRedeem
  <2> QED
    BY <1>0, <2>1 DEF EnrollmentInv, GrantTypes, LocksHoldGrants, OneInstallationPerGrant
<1> QED
  BY <1>1, <1>2, <1>3

\* The removal of a member keeps it: a code it closes is not locked.
LEMMA RemovalInv ==
    ASSUME EnrollmentInv, NEW h \in Handlers, SweepInstallations(h) \/ CompleteRemoval(h)
    PROVE  EnrollmentInv'
<1> USE EnrollmentAssumption DEF Grants
<1>0. GrantTypes /\ LocksHoldGrants /\ OneInstallationPerGrant
  BY DEF EnrollmentInv
<1>1. CASE SweepInstallations(h)
  <2>1. /\ grants' = grants /\ issuing' = issuing /\ redeeming' = redeeming
        /\ installations' = installations
    BY <1>1 DEF SweepInstallations
  <2>2. swept' \in [Handlers -> SUBSET (SUBSET Installation)]
    BY <1>0, <1>1 DEF SweepInstallations, GrantTypes
  <2> QED
    BY <1>0, <2>1, <2>2 DEF EnrollmentInv, GrantTypes, LocksHoldGrants, OneInstallationPerGrant
<1>2. CASE CompleteRemoval(h)
  <2> DEFINE closed == OpenCodes(handlers[h].order.target)
  <2>1. /\ issuing' = issuing /\ redeeming' = redeeming
        /\ swept' = [swept EXCEPT ![h] = {}]
        /\ \A g \in closed : ~Locked(g)
    BY <1>2 DEF CompleteRemoval
  <2>2. CASE UNCHANGED <<installations, grants>>
    BY <1>0, <2>1, <2>2 DEF EnrollmentInv, GrantTypes, LocksHoldGrants, OneInstallationPerGrant
  <2>3. CASE /\ Revoke(UNION swept[h])
             /\ grants' = [g \in Grants |->
                    IF g \in closed THEN [grants[g] EXCEPT !.state = "closed"] ELSE grants[g]]
    <3>1. /\ grants' \in [Grants -> Grant]
          /\ \A g \in Grants : g \notin closed => grants'[g] = grants[g]
      BY <1>0, <2>3 DEF GrantTypes, Grant
    <3>2. \A g \in closed : grants[g].state = "open"
      BY DEF OpenCodes
    <3>3. \A i \in installations : i.grant \in Grants /\ grants'[i.grant].state = "redeemed"
      BY <1>0, <3>1, <3>2 DEF OneInstallationPerGrant, GrantTypes, Installation
    <3>4. installations' \subseteq Installation /\ OneInstallationPerGrant'
      BY <1>0, <2>3, <3>3, RevokeKeeps DEF GrantTypes
    <3>5. GrantTypes'
      BY <1>0, <2>1, <3>1, <3>4 DEF GrantTypes
    <3>6. LocksHoldGrants'
      BY <1>0, <2>1, <3>1 DEF LocksHoldGrants, GrantTypes, Locked
    <3> QED
      BY <3>4, <3>5, <3>6 DEF EnrollmentInv
  <2> QED
    BY <1>2, <2>2, <2>3 DEF CompleteRemoval
<1> QED
  BY <1>1, <1>2

\* Every step of the specification keeps it.
LEMMA EnrollmentNextInv ==
    ASSUME EnrollmentInv, [EnrollmentNext]_<<memberVars, enrollVars>>
    PROVE  EnrollmentInv'
<1> USE EnrollmentAssumption
<1>0. GrantTypes /\ LocksHoldGrants /\ OneInstallationPerGrant
  BY DEF EnrollmentInv
<1>1. CASE UNCHANGED enrollVars
  BY <1>0, <1>1 DEF enrollVars, EnrollmentInv, GrantTypes, LocksHoldGrants,
                    OneInstallationPerGrant
<1>2. ASSUME NEW h \in Handlers, swept' = [swept EXCEPT ![h] = {}],
             UNCHANGED <<grants, issuing, redeeming, installations>>
      PROVE  EnrollmentInv'
  BY <1>0, <1>2 DEF EnrollmentInv, GrantTypes, LocksHoldGrants, OneInstallationPerGrant
<1>3. ASSUME NEW g \in Grants, AuthorizeDevice(g) \/ ExpireGrant(g)
      PROVE  EnrollmentInv'
  <2>1. /\ issuing' = issuing /\ redeeming' = redeeming
        /\ installations' = installations /\ swept' = swept
    BY <1>3 DEF AuthorizeDevice, ExpireGrant
  <2>2. /\ grants' \in [Grants -> Grant]
        /\ \A k \in Grants : grants[k].state # "none" => grants'[k].state = grants[k].state
    <3>1. grants[g] \in Grant /\ grants \in [Grants -> Grant]
      BY <1>0 DEF GrantTypes
    <3>2. CASE AuthorizeDevice(g)
      <4>1. PICK x : x = [grants[g] EXCEPT !.state = "pending"] /\ grants' = [grants EXCEPT ![g] = x]
        BY <3>1, <3>2 DEF AuthorizeDevice, Grant
      <4>2. x \in Grant /\ grants[g].state = "none"
        BY <3>1, <3>2, <4>1 DEF AuthorizeDevice, Grant
      <4> QED
        BY <3>1, <4>1, <4>2
    <3>3. CASE ExpireGrant(g)
      <4>1. PICK x : x = [grants[g] EXCEPT !.live = FALSE] /\ grants' = [grants EXCEPT ![g] = x]
        BY <3>1, <3>3 DEF ExpireGrant, Grant
      <4>2. x \in Grant /\ x.state = grants[g].state
        BY <3>1, <4>1 DEF Grant
      <4> QED
        BY <3>1, <4>1, <4>2
    <3> QED
      BY <1>3, <3>2, <3>3
  <2>3. GrantTypes'
    BY <1>0, <2>1, <2>2 DEF GrantTypes
  <2>4. LocksHoldGrants'
    BY <1>0, <2>1, <2>2 DEF LocksHoldGrants, GrantTypes
  <2>5. OneInstallationPerGrant'
    BY <1>0, <2>1, <2>2, GrantsKeepInstallations DEF GrantTypes
  <2> QED
    BY <2>3, <2>4, <2>5 DEF EnrollmentInv
<1>4. ASSUME NEW i \in installations, RevokeInstallation(i)
      PROVE  EnrollmentInv'
  <2>1. /\ Revoke({i})
        /\ grants' = grants /\ issuing' = issuing /\ redeeming' = redeeming /\ swept' = swept
    BY <1>4 DEF RevokeInstallation
  <2>2. installations' \subseteq Installation /\ OneInstallationPerGrant'
    BY <1>0, <2>1, RevokeKeeps DEF GrantTypes, OneInstallationPerGrant
  <2> QED
    BY <1>0, <2>1, <2>2 DEF EnrollmentInv, GrantTypes, LocksHoldGrants
<1> QED
  BY <1>1, <1>2, <1>3, <1>4, IssuingInv, RedeemingInv, RemovalInv
  DEF EnrollmentNext, MembershipStep

\* The initial state has no grants and no installations.
LEMMA EnrollmentInitInv == EnrollmentInit => EnrollmentInv
<1> SUFFICES ASSUME EnrollmentInit PROVE EnrollmentInv
  OBVIOUS
<1> QED
  BY MembershipAssumption
  DEF EnrollmentInit, EnrollmentInv, GrantTypes, LocksHoldGrants, OneInstallationPerGrant, Grant

\* However many requests present one enrollment code or one device code, and
\* whatever removals run beside them, the FOR UPDATE of enroll and
\* exchange_device_code lets one installation come of it.
THEOREM OneInstallationSafe == EnrollmentSpec => []OneInstallationPerGrant
<1>1. EnrollmentInv => OneInstallationPerGrant
  BY DEF EnrollmentInv
<1> QED
  BY EnrollmentInitInv, EnrollmentNextInv, <1>1, PTL DEF EnrollmentSpec

\* The type invariant of members, grants, redemptions and installations.
THEOREM EnrollmentTypeCorrect == EnrollmentSpec => []EnrollmentTypeOK
<1>1. EnrollmentInit => MembershipTypeOK
  BY MembershipAssumption DEF EnrollmentInit, MembershipInit, MembershipTypeOK, IdleHandler, NoOrder
<1>2. MembershipTypeOK /\ [EnrollmentNext]_<<memberVars, enrollVars>> => MembershipTypeOK'
  BY EnrollmentStepsMembers, MembershipTypeStep
<1>3. EnrollmentInv /\ MembershipTypeOK => EnrollmentTypeOK
  BY DEF EnrollmentInv, GrantTypes, EnrollmentTypeOK
<1> QED
  BY <1>1, <1>2, <1>3, EnrollmentInitInv, EnrollmentNextInv, PTL DEF EnrollmentSpec

-----------------------------------------------------------------------------
(* A settled grant stays settled.                                          *)

\* The step property behind SettledGrantsStay.
SettledStays ==
    \A g \in Grants : grants[g].state \in {"denied", "closed", "redeemed"}
        => grants'[g].state = grants[g].state

\* No step takes a settled grant back, given the invariant.
LEMMA SettledStep ==
    ASSUME EnrollmentInv, [EnrollmentNext]_<<memberVars, enrollVars>>
    PROVE  SettledStays
<1> USE EnrollmentAssumption DEF Grants
<1>0. GrantTypes /\ LocksHoldGrants
  BY DEF EnrollmentInv
<1>1. CASE grants' = grants
  BY <1>1 DEF SettledStays
<1>2. ASSUME NEW g \in Grants, AuthorizeDevice(g) \/ ExpireGrant(g)
      PROVE  SettledStays
  BY <1>0, <1>2 DEF AuthorizeDevice, ExpireGrant, GrantTypes, Grant, SettledStays
<1>3. ASSUME NEW u \in Users, CreateEnrollmentCode(u) \/ ApproveDevice(u, "open")
                                \/ ApproveDevice(u, "denied")
      PROVE  SettledStays
  BY <1>0, <1>3 DEF CreateEnrollmentCode, ApproveDevice, Bind, GrantTypes, Grant, SettledStays
<1>4. ASSUME NEW r \in Redeemers, Enroll(r) \/ ExchangeDeviceCode(r)
      PROVE  SettledStays
  <2>1. /\ redeeming[r] \in Grants /\ redeeming[r] # NoGrant
        /\ grants' = [grants EXCEPT ![redeeming[r]].state = "redeemed"]
    BY <1>4 DEF Enroll, ExchangeDeviceCode, Install
  <2>2. grants[redeeming[r]].state = "open"
    BY <1>0, <2>1 DEF LocksHoldGrants
  <2> QED
    BY <1>0, <2>1, <2>2 DEF GrantTypes, SettledStays
<1>5. ASSUME NEW h \in Handlers, CompleteRemoval(h), grants' # grants
      PROVE  SettledStays
  <2> DEFINE closed == OpenCodes(handlers[h].order.target)
  <2>1. grants' = [g \in Grants |->
            IF g \in closed THEN [grants[g] EXCEPT !.state = "closed"] ELSE grants[g]]
    BY <1>5 DEF CompleteRemoval
  <2>2. \A g \in closed : grants[g].state = "open"
    BY DEF OpenCodes
  <2> QED
    BY <2>1, <2>2 DEF SettledStays
<1>6. CASE MembershipStep
  BY <1>1, <1>6 DEF MembershipStep, enrollVars
<1> QED
  BY <1>1, <1>2, <1>3, <1>4, <1>5, <1>6
  DEF EnrollmentNext, enrollVars, CheckMember, AbortIssuing, LockCode, LockDevice, AbortRedeem,
      RevokeInstallation, SweepInstallations

\* A grant that was redeemed, denied or closed is never brought back: not by
\* the approval of a second user, and not by a redemption that was under way
\* when remove_member closed the code, because the UPDATE waits for its lock.
THEOREM SettledGrantsSafe == EnrollmentSpec => SettledGrantsStay
<1>1. EnrollmentInv /\ [EnrollmentNext]_<<memberVars, enrollVars>>
          => [SettledStays]_<<memberVars, enrollVars>>
  BY SettledStep
<1> QED
  BY EnrollmentInitInv, EnrollmentNextInv, <1>1, PTL
  DEF EnrollmentSpec, SettledGrantsStay, SettledStays

=============================================================================
