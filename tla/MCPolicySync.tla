---------------------------- MODULE MCPolicySync ----------------------------
(***************************************************************************)
(* PolicySync with a bound on every counter, for TLC.                      *)
(***************************************************************************)
EXTENDS PolicySync, TLC

AdminSymmetry == Permutations(Admins)

=============================================================================
