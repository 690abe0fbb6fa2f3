----------------------------- MODULE MCOutbound -----------------------------
(* Bounds for checking Outbound.                                           *)
EXTENDS Outbound
=============================================================================
