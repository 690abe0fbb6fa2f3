------------------------------ MODULE MCSweep ------------------------------
(* Constants for checking Sweep. *)
EXTENDS Sweep

CONSTANTS a1, a2, l1, l2, k1, k2

\* A socket of one account on the first river; then another one of that
\* account, there or on the second river, or a stranger's on the first.
OneConsumerAndAStranger ==
  {<<l1, a1, k1>>, <<l2, a1, k1>>, <<l2, a1, k2>>, <<l2, a2, k1>>}

\* Only the first river settles.
FirstSettles == [k \in Key |-> IF k = k1 THEN {1} ELSE {}]
============================================================================
