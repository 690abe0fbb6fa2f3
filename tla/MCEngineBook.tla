---------------------------- MODULE MCEngineBook ----------------------------
(* Constants for checking EngineBook: the orders of each run.              *)
EXTENDS EngineBook, TLC

CONSTANTS o1, o2, o3, o4, o5, o6, o7, o8   \* client order ids

\* Which of two outstanding walks is which makes no difference.
Walkers == Permutations(Walker)

Plain(class, side, qty) ==
  [class |-> class, trail |-> FALSE, tif |-> "gtc", postOnly |-> FALSE,
   reduceOnly |-> FALSE, side |-> side, qty |-> qty,
   rule |-> "none", links |-> {}, parent |-> NoId]

Exit(class, sibling, rule) ==
  [Plain(class, -1, 2) EXCEPT !.rule = rule, !.links = {sibling}, !.parent = o1]

Orderings(S) ==
  {f \in [1..Cardinality(S) -> S] : {f[i] : i \in DOMAIN f} = S}

----------------------------------------------------------------------------
(* Bare orders.                                                            *)

\* One order of every kind but the plain limit; o6 is a child of the trailing
\* stop o2.
KindTerms == o1 :> [Plain("limit", 1, 1) EXCEPT !.postOnly = TRUE]
             @@ o2 :> [Plain("stopLimit", -1, 2) EXCEPT !.trail = TRUE]
             @@ o3 :> [Plain("limit", 1, 2) EXCEPT !.tif = "fok"]
             @@ o4 :> [Plain("marketToLimit", -1, 2) EXCEPT !.reduceOnly = TRUE,
                                                           !.tif = "day"]
             @@ o5 :> [Plain("market", 1, 1) EXCEPT !.tif = "ioc"]
             @@ o6 :> [Plain("stopLimit", 1, 1) EXCEPT !.postOnly = TRUE,
                                                      !.parent = o2]
StopAndChild == {<<o2, o6>>}

\* A limit, and a reduce-only limit that closes what it opened.
LimitTerms == o7 :> Plain("limit", 1, 2)
              @@ o8 :> [Plain("limit", -1, 2) EXCEPT !.reduceOnly = TRUE]

BareTerms == KindTerms @@ LimitTerms
BareArms == {PartialFill(o2), PartialFill(o7), RejectCancel, RejectSubmit}

\* The two limits together with two walks, or two of the others at a time with
\* one; one divergence is armed at a time.
Outstanding == {w \in Walker : walks[w] # NoWalk}
LimitsOrKinds ==
  /\ Cardinality(ledger.armed) <= 1
  /\ \/ /\ ledger.seen \subseteq {o7, o8}
        /\ ledger.armed \cap {PartialFill(o2), RejectSubmit} = {}
     \/ /\ ledger.seen \subseteq DOMAIN KindTerms /\ Cardinality(ledger.seen) <= 2
        /\ ledger.armed \subseteq {PartialFill(o2), RejectSubmit}
        /\ Cardinality(Outstanding) <= 1

\* A stop-market beside a limit.
StopTerms == o1 :> Plain("stop", 1, 2) @@ o2 :> Plain("limit", 1, 1)
----------------------------------------------------------------------------
(* Order lists.                                                            *)

\* An entry with two exits that cancel each other, or with two that shrink
\* each other; the entry can be submitted with either pair.
BracketTerms == o1 :> [Plain("limit", 1, 2) EXCEPT !.tif = "gtd"]
                @@ o2 :> Exit("limit", o3, "oco") @@ o3 :> Exit("stopLimit", o2, "oco")
                @@ o4 :> Exit("limit", o5, "ouo") @@ o5 :> Exit("stopLimit", o4, "ouo")
Brackets == Orderings({o1, o2, o3}) \cup Orderings({o1, o4, o5})

============================================================================
