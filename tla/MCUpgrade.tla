----------------------------- MODULE MCUpgrade -----------------------------
(* Constants for checking Upgrade: the default account and one other, boats *)
(* on one river at two speeds.                                              *)
EXTENDS Upgrade

CONSTANTS k1, k2, river1, acc1, acc2, me

\* Both boat keys are the one river.
RiverOf(k) == river1

Dialled(a, callsign, k, named) ==
  [account |-> a, callsign |-> callsign, key |-> k, named |-> named]

\* A consumer whose sockets share a callsign and evict strangers, a socket at
\* another speed that names no account, and another account's on the first boat.
UpgradeRequests ==
  {Dialled(acc1, me, k1, TRUE), Dialled(acc1, NoCallsign, k2, FALSE),
   Dialled(acc2, NoCallsign, k1, TRUE)}
============================================================================
