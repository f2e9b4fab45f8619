------------------------------ MODULE MCUpload ------------------------------
(***************************************************************************)
(* Instances of Upload for TLC.                                            *)
(***************************************************************************)
EXTENDS Upload, TLC

CONSTANTS s1, s2, watch, manual, q1, q2, q3

MCSymmetry == Permutations(Sessions) \cup Permutations(Requests)

=============================================================================
