--------------------------- MODULE MCOneTimeStores ---------------------------
(***************************************************************************)
(* OneTimeStores with two or three certificates and two requests, for TLC. *)
(***************************************************************************)
EXTENDS OneTimeStores, TLC

CONSTANTS w1, w2, s1, s2, s3

Symmetry == Permutations(Workers) \union Permutations(Serials)

=============================================================================
