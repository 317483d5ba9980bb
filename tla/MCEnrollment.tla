---------------------------- MODULE MCEnrollment ----------------------------
(* Enrollment on a small instance: one template that expires while the     *)
(* invitations are outstanding and one that never does.                    *)
EXTENDS Enrollment, TLC

CONSTANTS k1, k2

MCTemplateExpiry == k1 :> 3 @@ k2 :> 0
MCValidAfter     == k1 :> 0 @@ k2 :> 2
MCSymmetry       == Permutations(Calls) \cup Permutations(Tokens) \cup Permutations(Auths)
=============================================================================
