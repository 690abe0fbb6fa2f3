----------------------------- MODULE MCExtremes -----------------------------
(* Constants for checking Extremes.                                        *)
EXTENDS Extremes

Prices == 1..3
============================================================================
