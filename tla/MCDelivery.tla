----------------------------- MODULE MCDelivery -----------------------------
(* Constants for checking Delivery: two sockets of one account, one of     *)
(* another.                                                                *)
EXTENDS Delivery, TLC

CONSTANTS alice, bob, first, second, other

TwoAccounts == {alice, bob}
ThreeSockets == {first, second, other}
TwoToAlice == (first :> alice @@ second :> alice @@ other :> bob)
Alike == Permutations({first, second})
=============================================================================
