-------------------------- MODULE MembershipProofs --------------------------
(***************************************************************************)
(* Proofs about Membership: as long as add_member and invitations reach    *)
(* accounts that are not members, the organization keeps an administrator, *)
(* for every number of accounts, roles, requests and invitations.          *)
(***************************************************************************)
EXTENDS Membership, TLAPS

\* The initial state has its administrator and no locks.
LEMMA InitInv == MembershipInit => MembershipInv
<1> SUFFICES ASSUME MembershipInit PROVE MembershipInv
  OBVIOUS
<1> USE MembershipAssumption
<1>1. MembershipTypeOK
  BY DEF MembershipInit, MembershipTypeOK, IdleHandler, NoOrder
<1>2. AdminRemains
  BY DEF MembershipInit, AdminRemains, Admins
<1>3. LocksKeepAnAdmin
  BY DEF MembershipInit, LocksKeepAnAdmin, IdleHandler
<1> QED
  BY <1>1, <1>2, <1>3 DEF MembershipInv

\* A request that ends drops its locks and disturbs no others.
LEMMA FinishKeepsLocks ==
    ASSUME MembershipTypeOK, LocksKeepAnAdmin, NEW h \in Handlers, Finish(h),
           \A g \in Handlers \ {h} : \A u \in handlers[g].rows :
               members[u] = "admin" => members'[u] = "admin" \/ u = handlers[g].order.target
    PROVE  LocksKeepAnAdmin'
<1>1. /\ handlers'[h] = IdleHandler
      /\ \A g \in Handlers \ {h} : handlers'[g] = handlers[g]
  BY DEF Finish, MembershipTypeOK
<1> QED
  BY <1>1 DEF LocksKeepAnAdmin, IdleHandler

\* An account that has the administrator's role before and after a step keeps
\* the organization administrated.
LEMMA WitnessKeepsAdmin ==
    ASSUME NEW u \in Users, members'[u] = "admin"
    PROVE  AdminRemains'
BY DEF AdminRemains, Admins

\* Every step of a request keeps the invariant.
LEMMA HandlerStepInv ==
    ASSUME MembershipInv, ~ReaddMembers, NEW h \in Handlers,
           HandlerStep(h) \/ RemoveMember(h)
    PROVE  MembershipInv'
<1> USE MembershipAssumption
<1> DEFINE order == handlers[h].order
<1>0. /\ MembershipTypeOK /\ AdminRemains /\ LocksKeepAnAdmin
      /\ order \in Orders \cup {NoOrder}
      /\ order.target \in Users
  BY DEF MembershipInv, MembershipTypeOK, Orders, NoOrder
<1>1. ASSUME NEW o \in Orders, Authorize(h, o)
      PROVE  MembershipInv'
  <2>1. MembershipTypeOK'
    BY <1>0, <1>1 DEF Authorize, MembershipTypeOK
  <2>2. AdminRemains'
    BY <1>0, <1>1 DEF Authorize, AdminRemains, Admins
  <2>3. LocksKeepAnAdmin'
    BY <1>0, <1>1 DEF Authorize, LocksKeepAnAdmin, MembershipTypeOK
  <2> QED
    BY <2>1, <2>2, <2>3 DEF MembershipInv
<1>2. CASE AddMember(h)
  <2>1. order \in Orders /\ order.role \in Roles
    BY <1>0, <1>2 DEF AddMember, Orders, NoOrder
  <2>2. MembershipTypeOK'
    BY <1>0, <1>2, <2>1 DEF AddMember, Finish, MembershipTypeOK, IdleHandler
  <2>3. \A u \in Users : members[u] = "admin" => members'[u] = "admin"
    BY <1>0, <1>2 DEF AddMember, MayAdd, MembershipTypeOK
  <2>4. AdminRemains'
    BY <1>0, <2>3 DEF AdminRemains, Admins
  <2>5. LocksKeepAnAdmin'
    BY <1>0, <1>2, <2>3, FinishKeepsLocks DEF AddMember, MembershipTypeOK
  <2> QED
    BY <2>2, <2>4, <2>5 DEF MembershipInv
<1>3. CASE PromoteMember(h)
  <2>2. MembershipTypeOK'
    BY <1>0, <1>3 DEF PromoteMember, Finish, MembershipTypeOK, IdleHandler
  <2>3. \A u \in Users : members[u] = "admin" => members'[u] = "admin"
    BY <1>0, <1>3 DEF PromoteMember, MembershipTypeOK
  <2>4. AdminRemains'
    BY <1>0, <2>3 DEF AdminRemains, Admins
  <2>5. LocksKeepAnAdmin'
    BY <1>0, <1>3, <2>3, FinishKeepsLocks DEF PromoteMember, MembershipTypeOK
  <2> QED
    BY <2>2, <2>4, <2>5 DEF MembershipInv
<1>4. CASE EnsureAnotherAdmin(h)
  <2>1. Members \subseteq Users /\ Admins \subseteq Members
    BY DEF Members, Admins
  <2>2. members' = members
    BY <1>4 DEF EnsureAnotherAdmin
  <2>3. MembershipTypeOK'
    BY <1>0, <1>4, <2>1, <2>2 DEF EnsureAnotherAdmin, MembershipTypeOK, IdleHandler
  <2>4. AdminRemains'
    BY <1>0, <2>2 DEF AdminRemains, Admins
  <2>5. CASE Admins = {order.target}
    <3>1. Finish(h)
      BY <1>4, <2>5 DEF EnsureAnotherAdmin, Finish
    <3> QED
      BY <1>0, <2>2, <2>3, <2>4, <3>1, FinishKeepsLocks DEF MembershipInv
  <2>6. CASE Admins # {order.target}
    <3>1. PICK a \in Admins : a # order.target
      BY <1>0, <2>6 DEF AdminRemains
    <3>2. /\ handlers'[h] = [step |-> "locked", order |-> order, rows |-> Members]
          /\ \A g \in Handlers \ {h} : handlers'[g] = handlers[g]
      BY <1>0, <1>4, <2>6 DEF EnsureAnotherAdmin, MembershipTypeOK
    <3>3. \A g \in Handlers \ {h} : handlers[g].rows \cap Members = {}
      BY <1>4 DEF EnsureAnotherAdmin, RowFree
    <3>4. a \in Members /\ members'[a] = "admin"
      BY <2>1, <2>2, <3>1 DEF Admins
    <3>5. LocksKeepAnAdmin'
      BY <1>0, <2>2, <3>1, <3>2, <3>3, <3>4 DEF LocksKeepAnAdmin
    <3> QED
      BY <2>3, <2>4, <3>5 DEF MembershipInv
  <2> QED
    BY <2>5, <2>6
<1>5. CASE DemoteMember(h) \/ RemoveMember(h)
  <2>1. /\ handlers[h].step = "locked" /\ Finish(h) /\ RowFree(order.target, {h})
        /\ invitations' = invitations
        /\ \A u \in Users \ {order.target} : members'[u] = members[u]
    BY <1>0, <1>5 DEF DemoteMember, RemoveMember, MembershipTypeOK
  <2>2. PICK a \in handlers[h].rows : a # order.target /\ members[a] = "admin"
    BY <1>0, <2>1 DEF LocksKeepAnAdmin
  <2>3. a \in Users
    BY <1>0, <2>2 DEF MembershipTypeOK
  <2>4. AdminRemains'
    BY <2>1, <2>2, <2>3, WitnessKeepsAdmin
  <2>5. LocksKeepAnAdmin'
    <3>1. \A g \in Handlers \ {h} : \A u \in handlers[g].rows :
              u \in Users /\ u # order.target
      BY <1>0, <2>1 DEF RowFree, MembershipTypeOK
    <3> QED
      BY <1>0, <2>1, <3>1, FinishKeepsLocks
  <2>6. MembershipTypeOK'
    <3>1. members' \in [Users -> Roles \cup {"none"}]
      <4>1. CASE DemoteMember(h)
        <5>1. order.role \in Roles \cup {"none"}
          BY <1>0 DEF Orders, NoOrder
        <5> QED
          BY <1>0, <4>1, <5>1 DEF DemoteMember, MembershipTypeOK
      <4>2. CASE RemoveMember(h)
        BY <1>0, <4>2 DEF RemoveMember, MembershipTypeOK
      <4> QED
        BY <1>5, <4>1, <4>2
    <3> QED
      BY <1>0, <2>1, <3>1 DEF Finish, MembershipTypeOK, IdleHandler
  <2> QED
    BY <2>4, <2>5, <2>6 DEF MembershipInv
<1>6. CASE AbortHandler(h)
  <2>1. members' = members /\ Finish(h) /\ invitations' = invitations
    BY <1>6 DEF AbortHandler
  <2>2. MembershipTypeOK'
    BY <1>0, <2>1 DEF Finish, MembershipTypeOK, IdleHandler
  <2>3. AdminRemains'
    BY <1>0, <2>1 DEF AdminRemains, Admins
  <2>4. LocksKeepAnAdmin'
    BY <1>0, <2>1, FinishKeepsLocks
  <2> QED
    BY <2>2, <2>3, <2>4 DEF MembershipInv
<1> QED
  BY <1>1, <1>2, <1>3, <1>4, <1>5, <1>6 DEF HandlerStep

\* Every step of an invitation keeps it.
LEMMA InvitationStepInv ==
    ASSUME MembershipInv, ~ReaddMembers, NEW i \in Invitations, InvitationStep(i)
    PROVE  MembershipInv'
<1>0. MembershipTypeOK /\ AdminRemains /\ LocksKeepAnAdmin
  BY DEF MembershipInv
<1>1. handlers' = handlers
  BY DEF InvitationStep, CreateInvitation, ResendInvitation, RevokeInvitation,
         ExpireInvitation, AcceptInvitation
<1>2. MembershipTypeOK'
  <2>1. CASE AcceptInvitation(i)
    BY <1>0, <2>1 DEF AcceptInvitation, SetStatus, MembershipTypeOK
  <2>2. CASE \E u \in Users, role \in Roles : CreateInvitation(i, u, role)
    BY <1>0, <2>2 DEF CreateInvitation, MembershipTypeOK
  <2>3. CASE ResendInvitation(i) \/ RevokeInvitation(i) \/ ExpireInvitation(i)
    BY <1>0, <2>3 DEF ResendInvitation, RevokeInvitation, ExpireInvitation, SetStatus,
                      MembershipTypeOK
  <2> QED
    BY <2>1, <2>2, <2>3 DEF InvitationStep
<1>3. \A u \in Users : members[u] = "admin" => members'[u] = "admin"
  <2>1. CASE AcceptInvitation(i)
    BY <1>0, <2>1, MembershipAssumption DEF AcceptInvitation, MayAdd, MembershipTypeOK
  <2>2. CASE members' = members
    BY <2>2
  <2> QED
    BY <2>1, <2>2 DEF InvitationStep, CreateInvitation, ResendInvitation, RevokeInvitation,
                      ExpireInvitation
<1>4. AdminRemains'
  BY <1>0, <1>3 DEF AdminRemains, Admins
<1>5. LocksKeepAnAdmin'
  BY <1>0, <1>1, <1>3 DEF LocksKeepAnAdmin, MembershipTypeOK
<1> QED
  BY <1>2, <1>4, <1>5 DEF MembershipInv

\* Every step of the specification keeps it.
LEMMA NextInv ==
    ASSUME MembershipInv, ~ReaddMembers, [MembershipNext]_memberVars
    PROVE  MembershipInv'
<1>1. CASE UNCHANGED memberVars
  BY <1>1 DEF memberVars, MembershipInv, MembershipTypeOK, AdminRemains, Admins,
              LocksKeepAnAdmin
<1> QED
  BY <1>1, HandlerStepInv, InvitationStepInv DEF MembershipNext

\* Types alone do not depend on whom adds and invitations reach.
LEMMA MembershipTypeStep ==
    ASSUME MembershipTypeOK, [MembershipNext]_memberVars
    PROVE  MembershipTypeOK'
<1> USE MembershipAssumption
<1>1. ASSUME NEW h \in Handlers, HandlerStep(h) \/ RemoveMember(h)
      PROVE  MembershipTypeOK'
  <2> DEFINE order == handlers[h].order
  <2>0. /\ order \in Orders \cup {NoOrder} /\ order.target \in Users
        /\ order.role \in Roles \cup {"none"}
    BY DEF MembershipTypeOK, Orders, NoOrder
  <2>1. CASE \E o \in Orders : Authorize(h, o)
    BY <2>1 DEF Authorize, MembershipTypeOK
  <2>2. CASE EnsureAnotherAdmin(h)
    BY <2>0, <2>2 DEF EnsureAnotherAdmin, MembershipTypeOK, IdleHandler, Members
  <2>3. CASE AddMember(h) \/ PromoteMember(h) \/ DemoteMember(h) \/ RemoveMember(h)
    <3>1. invitations' = invitations /\ Finish(h)
      BY <2>3 DEF AddMember, PromoteMember, DemoteMember, RemoveMember
    <3>2. members' \in [Users -> Roles \cup {"none"}]
      BY <2>0, <2>3 DEF AddMember, PromoteMember, DemoteMember, RemoveMember, MembershipTypeOK
    <3> QED
      BY <3>1, <3>2 DEF Finish, MembershipTypeOK, IdleHandler
  <2>4. CASE AbortHandler(h)
    BY <2>4 DEF AbortHandler, Finish, MembershipTypeOK, IdleHandler
  <2> QED
    BY <1>1, <2>1, <2>2, <2>3, <2>4 DEF HandlerStep
<1>2. ASSUME NEW i \in Invitations, InvitationStep(i)
      PROVE  MembershipTypeOK'
  <2>1. CASE AcceptInvitation(i)
    BY <2>1 DEF AcceptInvitation, SetStatus, MembershipTypeOK
  <2>2. CASE \E u \in Users, role \in Roles : CreateInvitation(i, u, role)
    BY <2>2 DEF CreateInvitation, MembershipTypeOK
  <2>3. CASE ResendInvitation(i) \/ RevokeInvitation(i) \/ ExpireInvitation(i)
    BY <2>3 DEF ResendInvitation, RevokeInvitation, ExpireInvitation, SetStatus,
                MembershipTypeOK
  <2> QED
    BY <1>2, <2>1, <2>2, <2>3 DEF InvitationStep
<1>3. CASE UNCHANGED memberVars
  BY <1>3 DEF memberVars, MembershipTypeOK
<1> QED
  BY <1>1, <1>2, <1>3 DEF MembershipNext

\* The types of members, requests and invitations, also when adds and
\* invitations reach members.
THEOREM MembershipTypeCorrect == MembershipSpec => []MembershipTypeOK
<1>1. MembershipInit => MembershipTypeOK
  BY InitInv DEF MembershipInv
<1>2. MembershipTypeOK /\ [MembershipNext]_memberVars => MembershipTypeOK'
  BY MembershipTypeStep
<1> QED
  BY <1>1, <1>2, PTL DEF MembershipSpec

\* The organization always has an administrator: requests that demote or
\* remove members at the same time, each after its own check, never leave it
\* without one (ensure_another_admin's locks), provided no add or invitation
\* reaches somebody who is a member already.
THEOREM AdminSafe == ~ReaddMembers /\ MembershipSpec => []AdminRemains
<1> SUFFICES ASSUME ~ReaddMembers PROVE MembershipSpec => []AdminRemains
  OBVIOUS
<1>1. MembershipInv /\ [MembershipNext]_memberVars => MembershipInv'
  BY NextInv
<1>2. MembershipInv => AdminRemains
  BY DEF MembershipInv
<1> QED
  BY InitInv, <1>1, <1>2, PTL DEF MembershipSpec

=============================================================================
