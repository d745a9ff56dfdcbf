--------------------------- MODULE MCCrlDelivery ---------------------------
(***************************************************************************)
(* CrlDelivery on small instances.                                         *)
(***************************************************************************)
EXTENDS CrlDelivery, TLC
=============================================================================
