-------------------------------- MODULE Risk --------------------------------
(***************************************************************************)
(* The prop-firm risk ledger of an account (mogwai-venue risk.rs): what a  *)
(* policy remembers between two readings of the account's equity, and what *)
(* one reading costs.                                                      *)
(*                                                                         *)
(* A policy is a record of its rules. A rule names the amount it allows    *)
(* and what a breach does: "lock" until the next daily reset, "terminate", *)
(* or "none" for a rule the policy does not have. A cap of 0 is no cap.    *)
(***************************************************************************)
EXTENDS Integers, Sequences, SequencesExt

CONSTANT Policies   \* the policies an account may be opened under

Rule == [amount : Nat, action : {"lock", "terminate", "none"}]
Policy == [trailing : Rule, basis : {"peak", "end_of_day"}, lockAt : Int,
           daily : Rule, overall : Rule, cap : Nat]

ASSUME RiskAssumption == Policies \subseteq Policy

Ledger == [opening : Int, peak : Int, dayOpen : Int, day : Nat,
           terminated : BOOLEAN, locked : BOOLEAN]

NewLedger(equity, day) ==
  [opening |-> equity, peak |-> equity, dayOpen |-> equity, day |-> day,
   terminated |-> FALSE, locked |-> FALSE]

IsLocked(r) == r.locked \/ r.terminated
Enforced(rule) == rule.action # "none"
Unpoliced(p) == \A rule \in {p.trailing, p.daily, p.overall} : ~Enforced(rule)
----------------------------------------------------------------------------
Larger(a, b) == IF a < b THEN b ELSE a

\* The trailing floor follows the peak, and stops at lockAt once it is there.
TrailingFloor(p, r) == IF r.peak - p.trailing.amount >= p.lockAt THEN p.lockAt
                       ELSE r.peak - p.trailing.amount

\* The actions of the rules whose floor this equity is below.
Fired(p, r, equity) ==
  LET Floors == {<<p.trailing, TrailingFloor(p, r)>>,
                 <<p.daily, r.dayOpen - p.daily.amount>>,
                 <<p.overall, r.opening - p.overall.amount>>}
  IN {floor[1].action : floor \in {f \in Floors : Enforced(f[1]) /\ equity < f[2]}}

\* A reading of another reset period than the last one's opens it: the day's
\* budget is measured from this equity, a lock lifts, and a trail on closing
\* balances takes this one.
DayCrossed(p, r, equity, day) ==
  IF day = r.day THEN r
  ELSE [r EXCEPT !.day = day, !.dayOpen = equity, !.locked = FALSE,
                 !.peak = IF Enforced(p.trailing) /\ p.basis = "end_of_day"
                          THEN Larger(@, equity) ELSE @]

Ratcheted(p, r, equity) ==
  IF Enforced(p.trailing) /\ p.basis = "peak"
  THEN [r EXCEPT !.peak = Larger(@, equity)] ELSE r

\* observe: the boundary first, then the ratchet, then the floors. A terminating
\* rule wins over a lock.
Observe(p, r, equity, day) ==
  LET seen == Ratcheted(p, DayCrossed(p, r, equity, day), equity)
      fired == Fired(p, seen, equity)
  IN IF r.terminated THEN [ledger |-> r, fired |-> FALSE]
     ELSE IF seen.locked \/ fired = {} THEN [ledger |-> seen, fired |-> FALSE]
     ELSE [ledger |-> [seen EXCEPT !.locked = TRUE, !.terminated = "terminate" \in fired],
           fired |-> TRUE]

\* The judgement after each of these readings, oldest first: once one fires the
\* rest are not read.
Judgements(p, r, readings) ==
  LET so[n \in 0..Len(readings)] ==
        IF n = 0 THEN [ledger |-> r, fired |-> FALSE]
        ELSE IF so[n - 1].fired THEN so[n - 1]
        ELSE Observe(p, so[n - 1].ledger, readings[n].equity, readings[n].day)
  IN so

Replay(p, r, readings) == Judgements(p, r, readings)[Len(readings)]
=============================================================================
