---------------------------- MODULE MCBulkImport ----------------------------
(***************************************************************************)
(* BulkImport with two employees who share a display name, a file of       *)
(* employees, a file of devices and a reissue, for TLC.                    *)
(***************************************************************************)
EXTENDS BulkImport, TLC

CONSTANTS w1, w2, ann, bob, laptop, phone, staff, gear, both, renew

MCRows == (staff :> <<ann, bob>>) @@ (gear :> <<<<ann, laptop>>, <<bob, laptop>>>>)
          @@ (both :> <<<<ann, laptop>>, <<ann, phone>>>>)

MCDisplay == [e \in Emps |-> "name"]

MCSingles == {<<ann, laptop>>}

Symmetry == Permutations(Workers)

=============================================================================
