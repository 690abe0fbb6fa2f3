---------------------------- MODULE OrderLedger ----------------------------
(***************************************************************************)
(* The order state of one trading engine (mogwai-engine): the working      *)
(* book, the terminal truth store, the fill store, the cache of holds and  *)
(* the armed divergences, and the operations every handler is composed of. *)
(*                                                                         *)
(* A handler of the engine runs under the engine's lock and calls several  *)
(* of these in a row, so each is written as a function from a ledger       *)
(* record to a ledger record; module EngineBook turns them into actions.   *)
(*                                                                         *)
(* Prices are abstract: an order carries the number px of the level it is  *)
(* waiting for, which changes whenever the level is drawn or stated anew.  *)
(* A unit of quantity is one size increment; a hold is counted in units of *)
(* the quantity it covers.  Instruments, sides of a book and commissions   *)
(* are left out: there is one symbol and one netted position.              *)
(***************************************************************************)
EXTENDS Integers, FiniteSets

CONSTANTS
  Id,            \* client order ids
  NoId,          \* "no parent"
  Terms,         \* the terms each id is submitted with
  EnforceFunds,  \* the engine's enforce_funds switch
  MaxLinked      \* MAX_LINKED_ORDERS

Classes == {"market", "limit", "marketToLimit", "stop", "stopLimit"}
Rules   == {"none", "oco", "oto", "ouo"}
Tifs    == {"gtc", "day", "gtd", "ioc", "fok"}

\* class folds the order types that share a control path: "stop" is every
\* market-on-trigger type, "stopLimit" every limit-on-trigger type.  trail is
\* a trailing order that states an activation level instead of a trigger.
OrderTerms ==
  [class : Classes, trail : BOOLEAN, tif : Tifs, postOnly : BOOLEAN,
   reduceOnly : BOOLEAN, side : {1, -1}, qty : Nat \ {0},
   rule : Rules, links : SUBSET Id, parent : Id \cup {NoId}]

ASSUME TermsAssumption == /\ NoId \notin Id
                          /\ Terms \in [Id -> OrderTerms]
                          /\ \A id \in Id : id \notin Terms[id].links
                          /\ EnforceFunds \in BOOLEAN
                          /\ MaxLinked \in Nat \ {0}
----------------------------------------------------------------------------
Restings == {"absent", "limit", "conditional", "held", "unactivated"}
Statuses == {"open", "filled", "canceled", "expired", "rejected"}

\* One slot of the working book; "absent" when the id is not on it.
Order == [resting : Restings, qty : Nat, leaves : Nat, rev : Nat, px : Nat]
Absent == [resting |-> "absent", qty |-> 0, leaves |-> 0, rev |-> 0, px |-> 0]

\* One row of the terminal truth store; "open" when there is none.
Row == [status : Statuses, filled : Nat]
NoRow == [status |-> "open", filled |-> 0]

\* The divergences that change what the engine does to an order.
\* PartialFillNext names its target, the two rejections do not.
Arm == [kind : {"rejectSubmit", "rejectCancel"}, target : {NoId}]
         \cup [kind : {"partialFill"}, target : Id]
RejectSubmit == [kind |-> "rejectSubmit", target |-> NoId]
RejectCancel == [kind |-> "rejectCancel", target |-> NoId]
PartialFill(id) == [kind |-> "partialFill", target |-> id]

Ledger == [book : [Id -> Order], closed : [Id -> Row], seen : SUBSET Id,
           executed : [Id -> Nat], holds : [Id -> Int], position : Int,
           armed : SUBSET Arm]

EmptyLedger ==
  [book |-> [i \in Id |-> Absent], closed |-> [i \in Id |-> NoRow],
   seen |-> {}, executed |-> [i \in Id |-> 0], holds |-> [i \in Id |-> 0],
   position |-> 0, armed |-> {}]

\* Slip: the last bound wins, though an earlier one is tighter.
LastBound(a, b) == b

Lesser(a, b) == IF a < b THEN a ELSE b

OnBook(L, id) == L.book[id].resting # "absent"
Conditional(id) == Terms[id].class \in {"stop", "stopLimit"}
RestsAsLimit(id) == Terms[id].class \in {"limit", "marketToLimit"}
----------------------------------------------------------------------------
(* The hold cache.                                                         *)

\* What one order holds: nothing while held or unactivated, nothing if it
\* can only reduce, otherwise its leaves.
HoldEntry(id, o) ==
  IF o.resting \in {"absent", "held", "unactivated"} \/ Terms[id].reduceOnly
    THEN 0 ELSE o.leaves

Rest(L, id, o) ==
  [L EXCEPT !.book[id] = o, !.holds[id] = @ + HoldEntry(id, o)]

Take(L, id) ==
  [L EXCEPT !.book[id] = Absent, !.holds[id] = @ - HoldEntry(id, L.book[id])]

\* Slip: the slot is rewritten and its hold is not.
PutUnheld(L, id, o) == [L EXCEPT !.book[id] = o]

\* A slot rewritten in place, its hold refreshed from the copy taken before.
Put(L, id, o) ==
  [L EXCEPT !.book[id] = o,
            !.holds[id] = @ - HoldEntry(id, L.book[id]) + HoldEntry(id, o)]
----------------------------------------------------------------------------
(* Terminal orders, and the held children they orphan.                     *)

RecordClosed(L, id, o, status) ==
  [L EXCEPT !.closed[id] = [status |-> status, filled |-> o.qty - o.leaves]]

HasFilled(L, id) ==
  IF OnBook(L, id) THEN L.book[id].leaves < L.book[id].qty
  ELSE L.closed[id].status = "filled" \/ L.closed[id].filled > 0

HeldChildren(L, parent) ==
  {c \in Id : L.book[c].resting = "held" /\ Terms[c].parent = parent}

\* Every held order below parent, level by level: the least set with the held
\* children of parent and of its own members, which is what the worklist of
\* reap_children_of visits.
HeldBelow(L, parent) ==
  LET held == {c \in Id : L.book[c].resting = "held"}
      Complete(D) == \A p \in D \cup {parent} : HeldChildren(L, p) \subseteq D
  IN  {c \in held : \A D \in SUBSET held : Complete(D) => c \in D}

\* Take a set of orders off the book and record each of them canceled.
CancelAll(L, D) ==
  [L EXCEPT
    !.book   = [i \in Id |-> IF i \in D THEN Absent ELSE L.book[i]],
    !.closed = [i \in Id |->
                 IF i \in D
                   THEN [status |-> "canceled",
                         filled |-> L.book[i].qty - L.book[i].leaves]
                   ELSE L.closed[i]],
    !.holds  = [i \in Id |->
                 IF i \in D THEN L.holds[i] - HoldEntry(i, L.book[i])
                 ELSE L.holds[i]]]

ReapChildren(L, parent) == CancelAll(L, HeldBelow(L, parent))

\* Slip: the held children of an order that never filled are forgotten.
CloseUnrestedAlone(L, id, o, status) == RecordClosed(L, id, o, status)

\* The one home of "an order went terminal": record it and, when it never
\* filled, cancel the children that were waiting for it.
CloseUnrested(L, id, o, status) ==
  LET R == RecordClosed(L, id, o, status)
  IN  IF HasFilled(R, id) THEN R ELSE ReapChildren(R, id)

\* Slip: the order is recorded and stays on the book.
CloseOutInPlace(L, id, o, status) == CloseUnrested(L, id, o, status)

CloseOut(L, id, o, status) == CloseUnrested(Take(L, id), id, o, status)
----------------------------------------------------------------------------
(* Order-list linkage.                                                     *)

\* The state an order takes when it starts to wait for the market.
LiveResting(id) == IF ~Conditional(id) THEN "limit"
                   ELSE IF Terms[id].trail THEN "unactivated" ELSE "conditional"

Released(id, o) ==
  [o EXCEPT !.resting = LiveResting(id), !.px = @ + 1, !.rev = @ + 1]

ReleaseChildren(L, parent) ==
  LET C == HeldChildren(L, parent)
      After(i) == IF i \in C THEN Released(i, L.book[i]) ELSE L.book[i]
  IN  [L EXCEPT
        !.book  = [i \in Id |-> After(i)],
        !.holds = [i \in Id |->
                    L.holds[i] - HoldEntry(i, L.book[i]) + HoldEntry(i, After(i))]]

\* Siblings, and the held children of those that go terminal unfilled.
CancelSiblings(L, S) ==
  CancelAll(L, S \cup UNION {HeldBelow(L, s) : s \in {t \in S : ~HasFilled(L, t)}})

ShrinkSiblings(L, S, q) ==
  LET After(i) == IF i \in S
                    THEN [L.book[i] EXCEPT !.qty = @ - q, !.leaves = @ - q,
                                           !.rev = @ + 1]
                    ELSE L.book[i]
  IN  [L EXCEPT
        !.book  = [i \in Id |-> After(i)],
        !.holds = [i \in Id |->
                    L.holds[i] - HoldEntry(i, L.book[i]) + HoldEntry(i, After(i))]]

\* Slip: a sibling the fill exhausts is neither shrunk nor canceled.
LinkageSparing(L, id, q) ==
  LET R == ReleaseChildren(L, id)
      siblings  == {s \in Terms[id].links : OnBook(R, s)}
      exhausted == {s \in siblings : R.book[s].leaves <= q}
  IN  CASE Terms[id].rule = "oco" -> CancelSiblings(R, siblings)
        [] Terms[id].rule = "ouo" -> ShrinkSiblings(R, siblings \ exhausted, q)
        [] OTHER -> R

\* What a fill of q does to the orders linked to id: the release first, then
\* the rule the order carries.
Linkage(L, id, q) ==
  LET R == ReleaseChildren(L, id)
      siblings  == {s \in Terms[id].links : OnBook(R, s)}
      exhausted == {s \in siblings : R.book[s].leaves <= q}
  IN  CASE Terms[id].rule = "oco" -> CancelSiblings(R, siblings)
        [] Terms[id].rule = "ouo" ->
             CancelSiblings(ShrinkSiblings(R, siblings \ exhausted, q), exhausted)
        [] OTHER -> R
----------------------------------------------------------------------------
(* Fills.                                                                  *)

\* Slip: a flat account caps nothing.
CapUnlessFlat(L, id, remaining) ==
  LET p == L.position * Terms[id].side
  IN  IF Terms[id].reduceOnly /\ p < 0 THEN -p ELSE remaining

\* The netted position a reduce-only order may close; an order without the
\* flag is capped only by what it asks for.
Cap(L, id, remaining) ==
  IF ~Terms[id].reduceOnly THEN remaining
  ELSE LET p == L.position * Terms[id].side IN IF p < 0 THEN -p ELSE 0

\* PartialFillNext at one half, floored onto the size grid.
Planned(L, id, remaining) ==
  IF PartialFill(id) \in L.armed THEN remaining \div 2 ELSE remaining

Spend(L, arm) == [L EXCEPT !.armed = @ \ {arm}]

CommitFill(L, id, q) ==
  [L EXCEPT !.executed[id] = @ + q, !.position = @ + Terms[id].side * q]

Accept(L, id) == [L EXCEPT !.seen = @ \cup {id}]

\* What the market shows an order: whether there is a reading or a book to
\* cross at all, whether the order's own level is reached, what the ladder
\* displays within its price bound, and whether the account can pay.
Market == [live : BOOLEAN, reached : BOOLEAN, depth : Nat, funded : BOOLEAN]
----------------------------------------------------------------------------
(* A triggered conditional (on_trigger) and an activated trail.            *)

\* An order that states a price keeps its remainder; a market-on-trigger
\* remainder is recorded canceled and then put back on the book as it was.
SettleTriggered(L, id, o, capped) ==
  IF o.leaves = 0 THEN CloseUnrested(L, id, o, "filled")
  ELSE IF capped THEN CloseUnrested(L, id, o, "canceled")
  ELSE IF Terms[id].class = "stop"
    THEN Rest(CloseUnrested(L, id, o, "canceled"), id, [o EXCEPT !.rev = @ + 1])
  ELSE Rest(L, id, [o EXCEPT !.resting = "limit", !.px = @ + 2, !.rev = @ + 1])

TriggerTake(L, id, m) ==
  LET o       == L.book[id]
      S       == Spend(L, PartialFill(id))
      planned == Planned(L, id, o.leaves)
      cap     == Cap(L, id, o.leaves)
      q       == Lesser(Lesser(planned, cap), m.depth)
      killed  == Terms[id].tif = "fok" /\ m.depth < o.leaves
  IN  IF ~killed /\ q = 0 /\ Terms[id].class = "stopLimit"
        THEN Put(S, id, [o EXCEPT !.resting = "limit", !.px = @ + 1, !.rev = @ + 1])
      ELSE IF killed \/ q = 0 \/ ~m.funded THEN CloseOut(S, id, o, "canceled")
      ELSE Linkage(SettleTriggered(Take(CommitFill(S, id, q), id), id,
                                   [o EXCEPT !.leaves = @ - q], cap < planned),
                   id, q)

Trigger(L, id, m) ==
  LET o == L.book[id]
      limit == Terms[id].class = "stopLimit"
  IN  IF Cap(L, id, o.leaves) = 0 THEN CloseOut(L, id, o, "canceled")
      ELSE IF ~m.live
        THEN CloseOut(IF limit THEN L ELSE Spend(L, PartialFill(id)),
                      id, o, "canceled")
      ELSE IF limit /\ ~m.reached
        THEN Put(L, id, [o EXCEPT !.resting = "limit", !.px = @ + 1, !.rev = @ + 1])
      ELSE IF limit /\ Terms[id].postOnly
        THEN CloseUnrested(Take(L, id), id, o, "rejected")
      ELSE TriggerTake(L, id, m)

\* The deferred funds question of an unactivated trail.
Activate(L, id, funded) ==
  LET o == L.book[id]
  IN  IF ~funded THEN CloseOut(L, id, o, "canceled")
      ELSE Put(L, id, [o EXCEPT !.resting = "conditional",
                                !.px = @ + 1, !.rev = @ + 1])
----------------------------------------------------------------------------
(* A resting limit the tape printed through (apply_scans_on_clock).  The   *)
(* row recorded at the end is the one on the book, whose leaves the fill   *)
(* has not touched.                                                        *)

SweepFill(L, id, funded) ==
  LET o       == L.book[id]
      S       == Spend(L, PartialFill(id))
      planned == Planned(L, id, o.leaves)
      cap     == Cap(L, id, o.leaves)
      q       == Lesser(planned, cap)
      F       == IF q > 0 THEN Linkage(CommitFill(S, id, q), id, q) ELSE S
      r       == F.book[id]
  IN  IF cap = 0 \/ ~funded THEN CloseOut(S, id, o, "canceled")
      ELSE IF ~OnBook(F, id) THEN F
      ELSE IF q = o.leaves THEN CloseOut(F, id, r, "filled")
      ELSE IF cap < planned THEN CloseOut(F, id, r, "canceled")
      ELSE Put(F, id, [r EXCEPT !.leaves = o.leaves - q, !.rev = @ + 1,
                                !.px = IF q > 0 THEN @ + 1 ELSE @])
============================================================================
