----------------------------- MODULE Membership -----------------------------
(***************************************************************************)
(* Who belongs to one organization: add_member, update_member and          *)
(* remove_member of crates/metrune-api/src/app.rs and the invitations of   *)
(* identity.rs.                                                            *)
(*                                                                         *)
(* A handler authenticates its caller with one query and works in a        *)
(* transaction after it, so handlers interleave: the caller may no longer  *)
(* be an administrator when the change is made.  ensure_another_admin      *)
(* locks the membership rows that exist at that moment; every write to a   *)
(* locked row waits for the transaction.                                   *)
(***************************************************************************)
EXTENDS Naturals

CONSTANTS
    Users,          \* accounts
    Founder,        \* the account that created the organization
    Roles,          \* "admin" and the other roles
    Handlers,       \* member-management requests in progress at once
    Invitations,    \* rows of workspace_invitations
    ServiceToken,   \* TRUE: there is a dashboard token with the admin role
    ReaddMembers    \* TRUE: add_member or an invitation may reach a member

ASSUME MembershipAssumption ==
    /\ Founder \in Users
    /\ "admin" \in Roles /\ "none" \notin Roles
    /\ ServiceToken \in BOOLEAN /\ ReaddMembers \in BOOLEAN

VARIABLES
    members,        \* organization_memberships: the role of each account
    handlers,       \* the requests in progress
    invitations     \* workspace_invitations

memberVars == <<members, handlers, invitations>>

\* What a request asks for; role is the role the target has in the end.
Orders ==
    [kind : {"add", "update"}, target : Users, role : Roles] \cup
    [kind : {"remove"}, target : Users, role : {"none"}]

NoOrder == [kind |-> "none", target |-> Founder, role |-> "none"]

\* rows: the membership rows the request's transaction has locked.
IdleHandler == [step |-> "idle", order |-> NoOrder, rows |-> {}]

MembershipTypeOK ==
    /\ members \in [Users -> Roles \cup {"none"}]
    /\ handlers \in [Handlers -> [step : {"idle", "authorized", "locked"},
                                  order : Orders \cup {NoOrder}, rows : SUBSET Users]]
    /\ invitations \in [Invitations ->
           [status : {"none", "pending", "expired", "revoked", "accepted"},
            user : Users, role : Roles]]

MembershipInit ==
    /\ members = [u \in Users |-> IF u = Founder THEN "admin" ELSE "none"]
    /\ handlers = [h \in Handlers |-> IdleHandler]
    /\ invitations = [i \in Invitations |->
           [status |-> "none", user |-> Founder, role |-> "admin"]]

Members == {u \in Users : members[u] # "none"}
Admins == {u \in Users : members[u] = "admin"}

\* dashboard_auth and require_admin let somebody pass.
MayAdminister == ServiceToken \/ Admins # {}

\* No transaction holds a lock on the account's membership row.
RowFree(u, except) == \A h \in Handlers \ except : u \notin handlers[h].rows

MayAdd(u) == ReaddMembers \/ members[u] = "none"

Finish(h) == handlers' = [handlers EXCEPT ![h] = IdleHandler]

(***************************************************************************)
(* Member management.                                                      *)
(***************************************************************************)
\* The caller is an administrator at this time.
Authorize(h, order) ==
    /\ handlers[h].step = "idle"
    /\ MayAdminister
    /\ handlers' = [handlers EXCEPT ![h] =
           [step |-> "authorized", order |-> order, rows |-> {}]]
    /\ UNCHANGED <<members, invitations>>

\* add_member: one upsert, which gives an existing member the new role.
AddMember(h) ==
    LET order == handlers[h].order
    IN  /\ handlers[h].step = "authorized" /\ order.kind = "add"
        /\ RowFree(order.target, {h}) /\ MayAdd(order.target)
        /\ members' = [members EXCEPT ![order.target] = order.role]
        /\ Finish(h)
        /\ UNCHANGED invitations

\* update_member to admin: an UPDATE of the row, if there is one, without the
\* check.
PromoteMember(h) ==
    LET order == handlers[h].order
    IN  /\ handlers[h].step = "authorized"
        /\ order.kind = "update" /\ order.role = "admin"
        /\ RowFree(order.target, {h})
        /\ members' = [members EXCEPT ![order.target] = IF @ = "none" THEN @ ELSE "admin"]
        /\ Finish(h)
        /\ UNCHANGED invitations

\* Mutant of EnsureAnotherAdmin: the rows are counted and not locked.
CountAdmins(h) ==
    LET order == handlers[h].order
    IN  /\ handlers[h].step = "authorized"
        /\ order.kind = "remove" \/ (order.kind = "update" /\ order.role # "admin")
        /\ handlers' = [handlers EXCEPT ![h] =
               IF Admins = {order.target} THEN IdleHandler
               ELSE [step |-> "locked", order |-> order, rows |-> {}]]
        /\ UNCHANGED <<members, invitations>>

\* ensure_another_admin for a demotion or a removal: lock every membership row,
\* waiting for those that are locked, and refuse (409) if the target is the
\* last administrator.
EnsureAnotherAdmin(h) ==
    LET order == handlers[h].order
    IN  /\ handlers[h].step = "authorized"
        /\ order.kind = "remove" \/ (order.kind = "update" /\ order.role # "admin")
        /\ \A u \in Members : RowFree(u, {h})
        /\ handlers' = [handlers EXCEPT ![h] =
               IF Admins = {order.target} THEN IdleHandler
               ELSE [step |-> "locked", order |-> order, rows |-> Members]]
        /\ UNCHANGED <<members, invitations>>

\* The rest of update_member: 404 if the row is gone.
DemoteMember(h) ==
    LET order == handlers[h].order
    IN  /\ handlers[h].step = "locked" /\ order.kind = "update"
        /\ RowFree(order.target, {h})
        /\ members' = [members EXCEPT ![order.target] = IF @ = "none" THEN @ ELSE order.role]
        /\ Finish(h)
        /\ UNCHANGED invitations

\* The rest of remove_member, as far as the membership goes.
RemoveMember(h) ==
    LET order == handlers[h].order
    IN  /\ handlers[h].step = "locked" /\ order.kind = "remove"
        /\ RowFree(order.target, {h})
        /\ members' = [members EXCEPT ![order.target] = "none"]
        /\ Finish(h)
        /\ UNCHANGED invitations

\* An error, a deadlock PostgreSQL breaks or a dropped connection: rollback.
AbortHandler(h) ==
    /\ handlers[h].step # "idle"
    /\ Finish(h)
    /\ UNCHANGED <<members, invitations>>

(***************************************************************************)
(* Invitations.                                                            *)
(***************************************************************************)
Open(i) == invitations[i].status \in {"pending", "expired"}

SetStatus(i, status) == invitations' = [invitations EXCEPT ![i].status = status]

\* create_invitation: for an address that has no membership and no invitation
\* that is neither accepted nor revoked (a unique index as well).
CreateInvitation(i, u, role) ==
    /\ MayAdminister
    /\ invitations[i].status = "none"
    /\ members[u] = "none"
    /\ \A j \in Invitations : Open(j) => invitations[j].user # u
    /\ invitations' = [invitations EXCEPT ![i] = [status |-> "pending", user |-> u, role |-> role]]
    /\ UNCHANGED <<members, handlers>>

\* resend_invitation rotates the token and starts the lifetime again.
ResendInvitation(i) ==
    /\ MayAdminister /\ Open(i)
    /\ SetStatus(i, "pending")
    /\ UNCHANGED <<members, handlers>>

RevokeInvitation(i) ==
    /\ MayAdminister /\ Open(i)
    /\ SetStatus(i, "revoked")
    /\ UNCHANGED <<members, handlers>>

ExpireInvitation(i) ==
    /\ invitations[i].status = "pending"
    /\ SetStatus(i, "expired")
    /\ UNCHANGED <<members, handlers>>

\* accept_invitation: the same upsert, with the role of the invitation.
AcceptInvitation(i) ==
    LET u == invitations[i].user
    IN  /\ invitations[i].status = "pending"
        /\ RowFree(u, {}) /\ MayAdd(u)
        /\ members' = [members EXCEPT ![u] = invitations[i].role]
        /\ SetStatus(i, "accepted")
        /\ UNCHANGED handlers

HandlerStep(h) ==
    \/ \E order \in Orders : Authorize(h, order)
    \/ AddMember(h)
    \/ PromoteMember(h)
    \/ EnsureAnotherAdmin(h)
    \/ DemoteMember(h)
    \/ AbortHandler(h)

InvitationStep(i) ==
    \/ \E u \in Users, role \in Roles : CreateInvitation(i, u, role)
    \/ ResendInvitation(i)
    \/ RevokeInvitation(i)
    \/ ExpireInvitation(i)
    \/ AcceptInvitation(i)

MembershipNext ==
    \/ \E h \in Handlers : HandlerStep(h) \/ RemoveMember(h)
    \/ \E i \in Invitations : InvitationStep(i)

MembershipSpec == MembershipInit /\ [][MembershipNext]_memberVars

(***************************************************************************)
(* Properties.                                                             *)
(***************************************************************************)
\* The organization always has an administrator, whoever demotes or removes
\* whom at the same time ("the final organization admin cannot be removed or
\* demoted", ensure_another_admin).
AdminRemains == Admins # {}

\* The inductive form: while a demotion or removal holds its locks, one of the
\* rows it locked is an administrator other than its target, and no row is
\* locked twice.
LocksKeepAnAdmin ==
    /\ \A h \in Handlers :
          IF handlers[h].step = "locked"
          THEN \E u \in handlers[h].rows : u # handlers[h].order.target /\ members[u] = "admin"
          ELSE handlers[h].rows = {}
    /\ \A h, g \in Handlers : h # g => handlers[h].rows \cap handlers[g].rows = {}

MembershipInv == MembershipTypeOK /\ AdminRemains /\ LocksKeepAnAdmin

=============================================================================
