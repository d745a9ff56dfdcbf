--------------------------- MODULE MCCertRegistry ---------------------------
(***************************************************************************)
(* CertRegistry on small instances: two forms for one name, the first for  *)
(* a device of the employee.                                               *)
(***************************************************************************)
EXTENDS CertRegistry, TLC

CONSTANTS r1, r2, f1, f2, n1, e1

MCNameOf  == f1 :> n1 @@ f2 :> n1
MCOwnerOf == f1 :> e1 @@ f2 :> NoOne
=============================================================================
