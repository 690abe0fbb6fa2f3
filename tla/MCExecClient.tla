---------------------------- MODULE MCExecClient ----------------------------
(* Constants for checking ExecClient: one order with a trigger.             *)
EXTENDS ExecClient

CONSTANT stop

OnlyStop == {stop}
AllFaults == {"drop", "duplicate", "reorder"}
=============================================================================
