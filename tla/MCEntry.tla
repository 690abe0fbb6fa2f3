------------------------------ MODULE MCEntry -------------------------------
EXTENDS Entry, TLC

NoRule == [amount |-> 0, action |-> "none"]
NoPolicy == [trailing |-> NoRule, basis |-> "peak", lockAt |-> 0,
             daily |-> NoRule, overall |-> NoRule, cap |-> 0]
Rule2(amount, action) == [amount |-> amount, action |-> action]

\* A cap with a daily limit; an end-of-day trail under a static drawdown; an
\* intraday trail that stops following at the opening balance.
DailyCapped == [NoPolicy EXCEPT !.daily = Rule2(1, "lock"), !.cap = 2]
EndOfDay == [NoPolicy EXCEPT !.trailing = Rule2(3, "terminate"), !.basis = "end_of_day",
                             !.overall = Rule2(2, "lock"), !.cap = 2]
IntradayTrail == [NoPolicy EXCEPT !.trailing = Rule2(2, "terminate"), !.cap = 3]

AllPolicies == {DailyCapped, EndOfDay, IntradayTrail}

Ask(side, qty, reduceOnly) == [side |-> side, qty |-> qty, reduceOnly |-> reduceOnly]
Asks == {Ask(1, 2, FALSE), Ask(-1, 4, FALSE), Ask(-1, 2, TRUE)}

Moves == {<<>>, <<5>>, <<5, 3, 5>>}
Ids == Permutations(Order) \cup Permutations(Leg)
=============================================================================
