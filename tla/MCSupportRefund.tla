-------------------------- MODULE MCSupportRefund --------------------------
(* SupportRefund as TLC's runs instantiate it: the configurations give the constants. *)
EXTENDS SupportRefund
=============================================================================
