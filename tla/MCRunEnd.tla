------------------------------ MODULE MCRunEnd ------------------------------
(* RunEnd with one socket and one FaultTape request.                       *)
EXTENDS RunEnd
=============================================================================
