---------------------------- MODULE MCAdminAccess ----------------------------
(***************************************************************************)
(* AdminAccess with two superadmins and two requests, for TLC.             *)
(***************************************************************************)
EXTENDS AdminAccess, TLC

CONSTANTS w1, w2, root, ann, s1, s2

Symmetry == Permutations(Workers) \union Permutations(Admins)

=============================================================================
