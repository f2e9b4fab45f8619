---------------------------- MODULE MCMembership ----------------------------
(***************************************************************************)
(* Instances of Membership for TLC.                                        *)
(***************************************************************************)
EXTENDS Membership, TLC

CONSTANTS u1, u2, u3, h1, h2, i1, i2

MCSymmetry == Permutations(Users \ {Founder}) \cup Permutations(Handlers)
              \cup Permutations(Invitations)

=============================================================================
