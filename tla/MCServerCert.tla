---------------------------- MODULE MCServerCert ----------------------------
(* The renewal on small bounds, and the mutated definitions of the runs.   *)
EXTENDS ServerCert

=============================================================================
