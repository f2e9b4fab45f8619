---------------------------- MODULE MCEnrollment ----------------------------
(***************************************************************************)
(* Instances of Membership and of Enrollment for TLC: one behaviour is a   *)
(* behaviour of one of them.                                               *)
(***************************************************************************)
EXTENDS Enrollment, TLC

CONSTANTS u1, u2, u3, h1, h2, i1, i2, c1, d1, r1, r2

VARIABLE part   \* the part that runs

Parts == {"members", "enrollment"}

MCSymmetry == Permutations(Users \ {Founder}) \cup Permutations(Handlers)
              \cup Permutations(Invitations) \cup Permutations(Redeemers)

\* "enrollment": one account beside the founder's, no invitation, and one request
\* that changes members at a time.
OneMember ==
    \E u \in Users \ {Founder}, h \in Handlers :
       /\ \A v \in Users \ {Founder, u} :
             /\ members[v] = "none" /\ issuing[v] = NoGrant
             /\ \A g \in Grants : grants[g].owner # v
       /\ \A i \in Invitations : invitations[i].status = "none"
       /\ \A k \in Handlers \ {h} : handlers[k].step = "idle"
       /\ handlers[h].order.target \in {Founder, u}

MCInit == part \in Parts /\ EnrollmentInit

MCNext ==
    \/ part = "members" /\ MembershipNext /\ UNCHANGED <<part, enrollVars>>
    \/ part = "enrollment" /\ EnrollmentNext /\ OneMember' /\ UNCHANGED part

MCSpec == MCInit /\ [][MCNext]_<<part, memberVars, enrollVars>>

=============================================================================
