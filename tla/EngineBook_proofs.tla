-------------------------- MODULE EngineBook_proofs --------------------------
(***************************************************************************)
(* Theorems about EngineBook for every set of orders, every frame and      *)
(* every bound.                                                            *)
(*                                                                         *)
(* The first part is one lemma per operation of OrderLedger.  Each keeps a *)
(* well-formed ledger well formed: it has its type, no order has more left *)
(* than it asks for, only accepted ids are on the book, and the hold of    *)
(* each id is the one its order demands.  And each makes one of two things *)
(* of an order: to the one it is about it Deals a fill of some quantity,   *)
(* perhaps none; every other order it Moves: leaves alone, rewrites at a   *)
(* new revision, releases after its parent's fill, or takes off the book   *)
(* canceled with what it has worked off.                                   *)
(*                                                                         *)
(* The second part is about the engine's steps.  It is type correct and    *)
(* its hold cache exact; the inductive invariant is WellFormed: beside the *)
(* two properties it says that no order has more left than it asks for,    *)
(* without which a fill would record a negative quantity, and that only    *)
(* accepted ids are on the book, without which a submit would forget the   *)
(* hold of the order it overwrites.                                        *)
(*                                                                         *)
(* The third part is about what becomes of the orders.  Every step is of   *)
(* one of four kinds: it Passes the orders over, it Links (applies the     *)
(* linkage of an earlier fill), one order Works, or one Arrives.  BInv     *)
(* adds to IInv that the book, the truth store and the fill store agree    *)
(* about each order, that a walk under way asks about the level its order  *)
(* waits for unless the order has moved to a later revision, and that the  *)
(* members a group remembers have executed.                                *)
(*                                                                         *)
(* The fourth part is about order lists.  Of each operation it shows whom  *)
(* it Minds (nothing is left waiting for an order that closed unfilled),   *)
(* what Wanes (no order but its own comes on the book or has more left)    *)
(* and what Yields (the siblings give way to a fill).  Every step is then  *)
(* a ListStep, and three invariants say how a group under way stands:      *)
(* Awaiting, what waits has a live parent or one whose turn or linkage is  *)
(* to come; Whole, no member of it has been or can be refused; Linking,    *)
(* the siblings of what executed gave way or are to.  Each theorem is      *)
(* under the conditions without which it is false of the code, which does  *)
(* not take back the members it accepted before it refuses one.            *)
(***************************************************************************)
EXTENDS EngineBook, SequenceTheorems, FiniteSetTheorems, TLAPS

WellFormedAt(L, i) ==
  /\ L.book[i].leaves <= L.book[i].qty
  /\ OnBook(L, i) => i \in L.seen
  /\ L.holds[i] = HoldEntry(i, L.book[i])

WellFormed(L) == L \in Ledger /\ \A i \in Id : WellFormedAt(L, i)

\* An order a handler may put on the book or record as closed.
Fit(o) == o \in Order /\ o.leaves <= o.qty

\* An id in its own right: what SMT needs of the terms it was submitted with.
LEMMA TermsType ==
  ASSUME NEW id \in Id
  PROVE  /\ Terms[id].side \in {1, -1}
         /\ Terms[id].reduceOnly \in BOOLEAN
         /\ Terms[id].qty \in Nat
         /\ Terms[id].class \in Classes
         /\ Terms[id].links \subseteq Id
BY TermsAssumption DEF OrderTerms

LEMMA HoldEntryType ==
  ASSUME NEW id, NEW o \in Order
  PROVE  HoldEntry(id, o) \in Int
BY DEF HoldEntry, Order

LEMMA EmptyWellFormed == WellFormed(EmptyLedger)
BY DEF WellFormed, WellFormedAt, EmptyLedger, Ledger, Absent, NoRow, Order, Row,
       OnBook, HoldEntry, Restings, Statuses

LEMMA RestWellFormed ==
  ASSUME NEW L, WellFormed(L), NEW id \in Id, NEW o, Fit(o),
         ~OnBook(L, id), id \in L.seen
  PROVE  WellFormed(Rest(L, id, o))
<1>1. HoldEntry(id, o) \in Int /\ L.holds[id] = 0 /\ L.holds[id] \in Int
  BY HoldEntryType DEF WellFormed, WellFormedAt, OnBook, HoldEntry, Fit, Ledger
<1>2. Rest(L, id, o) \in Ledger
  <2>1. L \in Ledger /\ o \in Order /\ L.holds[id] + HoldEntry(id, o) \in Int
    BY <1>1 DEF WellFormed, Fit
  <2> QED BY <2>1 DEF Rest, Ledger
<1>3. ASSUME NEW i \in Id PROVE WellFormedAt(Rest(L, id, o), i)
  BY <1>1 DEF WellFormed, WellFormedAt, Rest, OnBook, HoldEntry, Fit, Ledger
<1> QED BY <1>2, <1>3 DEF WellFormed

LEMMA TakeWellFormed ==
  ASSUME NEW L, WellFormed(L), NEW id \in Id
  PROVE  WellFormed(Take(L, id)) /\ ~OnBook(Take(L, id), id)
         /\ Take(L, id).seen = L.seen
<1>1. HoldEntry(id, L.book[id]) \in Int /\ L.holds[id] \in Int /\ L.book[id] \in Order
  BY HoldEntryType DEF WellFormed, Ledger
<1>2. Absent \in Order
  BY DEF Absent, Order, Restings
<1>3. Take(L, id) \in Ledger
  <2>1. L \in Ledger /\ L.holds[id] - HoldEntry(id, L.book[id]) \in Int
    BY <1>1 DEF WellFormed
  <2> QED BY <1>2, <2>1 DEF Take, Ledger
<1>4. ASSUME NEW i \in Id PROVE WellFormedAt(Take(L, id), i)
  BY <1>1 DEF WellFormed, WellFormedAt, Take, OnBook, HoldEntry, Absent, Ledger
<1>5. ~OnBook(Take(L, id), id) /\ Take(L, id).seen = L.seen
  BY DEF Take, OnBook, Absent, WellFormed, Ledger
<1> QED BY <1>3, <1>4, <1>5 DEF WellFormed

LEMMA PutWellFormed ==
  ASSUME NEW L, WellFormed(L), NEW id \in Id, NEW o, Fit(o), OnBook(L, id)
  PROVE  WellFormed(Put(L, id, o))
<1>1. /\ HoldEntry(id, L.book[id]) \in Int /\ HoldEntry(id, o) \in Int
      /\ L.holds[id] \in Int
  BY HoldEntryType DEF WellFormed, Ledger, Fit
<1>2. Put(L, id, o) \in Ledger
  <2>1. /\ L \in Ledger /\ o \in Order
        /\ L.holds[id] - HoldEntry(id, L.book[id]) + HoldEntry(id, o) \in Int
    BY <1>1 DEF WellFormed, Fit
  <2> QED BY <2>1 DEF Put, Ledger
<1>3. ASSUME NEW i \in Id PROVE WellFormedAt(Put(L, id, o), i)
  BY <1>1 DEF WellFormed, WellFormedAt, Put, OnBook, Fit, Ledger
<1> QED BY <1>2, <1>3 DEF WellFormed

LEMMA RecordClosedWellFormed ==
  ASSUME NEW L, WellFormed(L), NEW id \in Id, NEW o, Fit(o), NEW s \in Statuses
  PROVE  /\ WellFormed(RecordClosed(L, id, o, s))
         /\ RecordClosed(L, id, o, s).book = L.book
         /\ RecordClosed(L, id, o, s).seen = L.seen
<1>1. o.qty - o.leaves \in Nat
  BY DEF Fit, Order
<1>2. RecordClosed(L, id, o, s) \in Ledger
  <2>1. L \in Ledger /\ [status |-> s, filled |-> o.qty - o.leaves] \in Row
    BY <1>1 DEF WellFormed, Row
  <2> QED BY <2>1 DEF RecordClosed, Ledger
<1>3. \A i \in Id : WellFormedAt(RecordClosed(L, id, o, s), i)
  BY DEF WellFormed, WellFormedAt, RecordClosed, OnBook, Ledger
<1> QED BY <1>2, <1>3 DEF WellFormed, RecordClosed, Ledger

LEMMA CancelAllWellFormed ==
  ASSUME NEW L, WellFormed(L), NEW D
  PROVE  /\ WellFormed(CancelAll(L, D))
         /\ CancelAll(L, D).seen = L.seen
         /\ \A i \in Id : ~OnBook(L, i) => ~OnBook(CancelAll(L, D), i)
<1>1. Absent \in Order
  BY DEF Absent, Order, Restings
<1>2. \A i \in Id : /\ L.book[i] \in Order /\ L.holds[i] \in Int
                    /\ HoldEntry(i, L.book[i]) \in Int
                    /\ L.book[i].qty - L.book[i].leaves \in Nat
  BY HoldEntryType DEF WellFormed, WellFormedAt, Ledger, Order
<1>3. CancelAll(L, D) \in Ledger
  <2>1. [i \in Id |-> IF i \in D THEN Absent ELSE L.book[i]] \in [Id -> Order]
    BY <1>1, <1>2
  <2>2. [i \in Id |->
          IF i \in D
            THEN [status |-> "canceled", filled |-> L.book[i].qty - L.book[i].leaves]
            ELSE L.closed[i]] \in [Id -> Row]
    BY <1>2 DEF Row, Statuses, Ledger, WellFormed
  <2>3. [i \in Id |-> IF i \in D THEN L.holds[i] - HoldEntry(i, L.book[i])
                       ELSE L.holds[i]] \in [Id -> Int]
    BY <1>2
  <2> QED BY <2>1, <2>2, <2>3 DEF CancelAll, Ledger, WellFormed
<1>4. ASSUME NEW i \in Id PROVE WellFormedAt(CancelAll(L, D), i)
  BY <1>2 DEF WellFormed, WellFormedAt, CancelAll, OnBook, HoldEntry, Absent, Ledger
<1>5. CancelAll(L, D).seen = L.seen
  BY DEF CancelAll, WellFormed, Ledger
<1>6. \A i \in Id : ~OnBook(L, i) => ~OnBook(CancelAll(L, D), i)
  BY DEF CancelAll, OnBook, Absent, WellFormed, Ledger
<1> QED BY <1>3, <1>4, <1>5, <1>6 DEF WellFormed
----------------------------------------------------------------------------
LEMMA CloseUnrestedWellFormed ==
  ASSUME NEW L, WellFormed(L), NEW id \in Id, NEW o, Fit(o), NEW s \in Statuses
  PROVE  /\ WellFormed(CloseUnrested(L, id, o, s))
         /\ CloseUnrested(L, id, o, s).seen = L.seen
         /\ \A i \in Id : ~OnBook(L, i) => ~OnBook(CloseUnrested(L, id, o, s), i)
<1> DEFINE R == RecordClosed(L, id, o, s)
<1>1. WellFormed(R) /\ R.seen = L.seen /\ R.book = L.book
  BY RecordClosedWellFormed
<1>2. \A i \in Id : ~OnBook(L, i) => ~OnBook(R, i)
  BY <1>1 DEF OnBook
<1>3. /\ WellFormed(ReapChildren(R, id)) /\ ReapChildren(R, id).seen = R.seen
      /\ \A i \in Id : ~OnBook(R, i) => ~OnBook(ReapChildren(R, id), i)
  BY <1>1, CancelAllWellFormed DEF ReapChildren
<1>4. CloseUnrested(L, id, o, s) \in {R, ReapChildren(R, id)}
  BY DEF CloseUnrested
<1> HIDE DEF R
<1> QED BY <1>1, <1>2, <1>3, <1>4

LEMMA CloseOutWellFormed ==
  ASSUME NEW L, WellFormed(L), NEW id \in Id, NEW o, Fit(o), NEW s \in Statuses
  PROVE  WellFormed(CloseOut(L, id, o, s))
BY TakeWellFormed, CloseUnrestedWellFormed DEF CloseOut

LEMMA BookFits ==
  ASSUME NEW L, WellFormed(L), NEW id \in Id
  PROVE  Fit(L.book[id])
BY DEF WellFormed, WellFormedAt, Fit, Ledger

\* Rewriting any set of slots at once, each with its hold refreshed.
LEMMA RewriteWellFormed ==
  ASSUME NEW L, WellFormed(L), NEW after \in [Id -> Order],
         \A i \in Id : Fit(after[i]) /\ (OnBook(L, i) \/ after[i] = L.book[i]),
         NEW holds \in [Id -> Int],
         \A i \in Id :
           holds[i] = L.holds[i] - HoldEntry(i, L.book[i]) + HoldEntry(i, after[i])
  PROVE  WellFormed([L EXCEPT !.book = after, !.holds = holds])
<1> DEFINE M == [L EXCEPT !.book = after, !.holds = holds]
<1>1. \A i \in Id : holds[i] = HoldEntry(i, after[i])
  BY HoldEntryType, BookFits DEF Fit, WellFormed, WellFormedAt
<1>2. M.book = after /\ M.holds = holds /\ M.seen = L.seen /\ M \in Ledger
  BY DEF WellFormed, Ledger
<1>3. ASSUME NEW i \in Id PROVE WellFormedAt(M, i)
  <2>1. OnBook(M, i) => i \in L.seen
    BY <1>2 DEF OnBook, WellFormed, WellFormedAt
  <2> QED BY <1>1, <1>2, <2>1 DEF WellFormedAt, Fit
<1> QED BY <1>2, <1>3 DEF WellFormed

LEMMA ReleasedFits ==
  ASSUME NEW id, NEW o, Fit(o)
  PROVE  Fit(Released(id, o))
<1>1. LiveResting(id) \in Restings
  BY DEF LiveResting, Restings
<1>2. o.px + 1 \in Nat /\ o.rev + 1 \in Nat
  BY DEF Fit, Order
<1> QED BY <1>1, <1>2 DEF Fit, Released, Order

LEMMA ReleaseChildrenWellFormed ==
  ASSUME NEW L, WellFormed(L), NEW parent
  PROVE  WellFormed(ReleaseChildren(L, parent))
<1> DEFINE C == HeldChildren(L, parent)
           after == [i \in Id |-> IF i \in C THEN Released(i, L.book[i]) ELSE L.book[i]]
           holds == [i \in Id |-> L.holds[i] - HoldEntry(i, L.book[i])
                                             + HoldEntry(i, after[i])]
<1>1. \A i \in Id : Fit(L.book[i]) /\ L.holds[i] \in Int
  BY BookFits DEF WellFormed, Ledger
<1>2. \A i \in C : i \in Id /\ OnBook(L, i)
  BY DEF HeldChildren, OnBook
<1>3. \A i \in Id : Fit(Released(i, L.book[i]))
  BY <1>1, ReleasedFits
<1>4. after \in [Id -> Order] /\ \A i \in Id : Fit(after[i])
  BY <1>1, <1>3 DEF Fit
<1>5. holds \in [Id -> Int]
  BY <1>1, <1>4, HoldEntryType DEF Fit
<1>6. ReleaseChildren(L, parent) = [L EXCEPT !.book = after, !.holds = holds]
  BY DEF ReleaseChildren
<1>7. \A i \in Id : OnBook(L, i) \/ after[i] = L.book[i]
  BY <1>2
<1> HIDE DEF after
<1>8. \A i \in Id :
        holds[i] = L.holds[i] - HoldEntry(i, L.book[i]) + HoldEntry(i, after[i])
  OBVIOUS
<1> HIDE DEF holds
<1>9. WellFormed([L EXCEPT !.book = after, !.holds = holds])
  BY <1>4, <1>5, <1>7, <1>8, RewriteWellFormed
<1> QED BY <1>6, <1>9

LEMMA CancelSiblingsWellFormed ==
  ASSUME NEW L, WellFormed(L), NEW S
  PROVE  WellFormed(CancelSiblings(L, S))
BY CancelAllWellFormed DEF CancelSiblings

\* A sibling that still has more left than the fill took is shrunk by it.
LEMMA ShrinkSiblingsWellFormed ==
  ASSUME NEW L, WellFormed(L), NEW q \in Nat, NEW S \in SUBSET Id,
         \A i \in S : OnBook(L, i) /\ q < L.book[i].leaves
  PROVE  WellFormed(ShrinkSiblings(L, S, q))
<1> DEFINE shrunk(i) == [L.book[i] EXCEPT !.qty = @ - q, !.leaves = @ - q, !.rev = @ + 1]
           after == [i \in Id |-> IF i \in S THEN shrunk(i) ELSE L.book[i]]
           holds == [i \in Id |-> L.holds[i] - HoldEntry(i, L.book[i])
                                             + HoldEntry(i, after[i])]
<1>1. \A i \in Id : Fit(L.book[i]) /\ L.holds[i] \in Int
  BY BookFits DEF WellFormed, Ledger
<1>2. ASSUME NEW i \in S PROVE Fit(shrunk(i))
  <2>1. /\ L.book[i] \in Order
        /\ L.book[i].qty - q \in Nat /\ L.book[i].leaves - q \in Nat
        /\ L.book[i].leaves - q <= L.book[i].qty - q /\ L.book[i].rev + 1 \in Nat
    BY <1>1 DEF Fit, Order
  <2> QED BY <2>1 DEF Fit, Order
<1>3. after \in [Id -> Order] /\ \A i \in Id : Fit(after[i])
  <2> HIDE DEF shrunk
  <2> QED BY <1>1, <1>2 DEF Fit
<1>4. holds \in [Id -> Int]
  <2> HIDE DEF after
  <2>1. \A i \in Id : HoldEntry(i, L.book[i]) \in Int /\ HoldEntry(i, after[i]) \in Int
    BY <1>1, <1>3, HoldEntryType DEF Fit
  <2> QED BY <1>1, <2>1
<1>5. ShrinkSiblings(L, S, q) = [L EXCEPT !.book = after, !.holds = holds]
  BY DEF ShrinkSiblings
<1>6. \A i \in Id : OnBook(L, i) \/ after[i] = L.book[i]
  OBVIOUS
<1> HIDE DEF after
<1>7. \A i \in Id :
        holds[i] = L.holds[i] - HoldEntry(i, L.book[i]) + HoldEntry(i, after[i])
  OBVIOUS
<1> HIDE DEF holds
<1>8. WellFormed([L EXCEPT !.book = after, !.holds = holds])
  BY <1>3, <1>4, <1>6, <1>7, RewriteWellFormed
<1> QED BY <1>5, <1>8

LEMMA LinkageWellFormed ==
  ASSUME NEW L, WellFormed(L), NEW id \in Id, NEW q \in Nat
  PROVE  WellFormed(Linkage(L, id, q))
<1> DEFINE R == ReleaseChildren(L, id)
           siblings  == {s \in Terms[id].links : OnBook(R, s)}
           exhausted == {s \in siblings : R.book[s].leaves <= q}
<1>1. WellFormed(R)
  BY ReleaseChildrenWellFormed
<1>2. WellFormed(CancelSiblings(R, siblings))
  BY <1>1, CancelSiblingsWellFormed
<1>3. WellFormed(CancelSiblings(ShrinkSiblings(R, siblings \ exhausted, q), exhausted))
  <2>1. siblings \ exhausted \in SUBSET Id
    BY TermsType
  <2>2. \A i \in siblings \ exhausted : OnBook(R, i) /\ q < R.book[i].leaves
    <3>1. \A i \in Id : R.book[i].leaves \in Nat
      BY <1>1, BookFits DEF Fit, Order
    <3> QED BY <2>1, <3>1
  <2> QED BY <1>1, <2>1, <2>2, ShrinkSiblingsWellFormed, CancelSiblingsWellFormed
<1>4. Linkage(L, id, q) \in
        {R, CancelSiblings(R, siblings),
         CancelSiblings(ShrinkSiblings(R, siblings \ exhausted, q), exhausted)}
  BY DEF Linkage
<1> HIDE DEF R, siblings, exhausted
<1> QED BY <1>1, <1>2, <1>3, <1>4
----------------------------------------------------------------------------
(* Fills, triggers and swept limits.                                       *)

LEMMA SpendWellFormed ==
  ASSUME NEW L, WellFormed(L), NEW arm
  PROVE  /\ WellFormed(Spend(L, arm))
         /\ Spend(L, arm).book = L.book /\ Spend(L, arm).seen = L.seen
<1>1. /\ Spend(L, arm) \in Ledger /\ Spend(L, arm).book = L.book
      /\ Spend(L, arm).seen = L.seen /\ Spend(L, arm).holds = L.holds
  BY DEF Spend, WellFormed, Ledger
<1> QED BY <1>1 DEF WellFormed, WellFormedAt, OnBook

LEMMA CommitFillWellFormed ==
  ASSUME NEW L, WellFormed(L), NEW id \in Id, NEW q \in Nat
  PROVE  /\ WellFormed(CommitFill(L, id, q))
         /\ CommitFill(L, id, q).book = L.book /\ CommitFill(L, id, q).seen = L.seen
<1> DEFINE F == CommitFill(L, id, q)
<1>1. /\ L \in Ledger /\ L.executed[id] + q \in Nat
      /\ L.position + Terms[id].side * q \in Int
  BY TermsType DEF WellFormed, Ledger
<1>2. F \in Ledger /\ F.book = L.book /\ F.seen = L.seen /\ F.holds = L.holds
  BY <1>1 DEF CommitFill, Ledger
<1> QED BY <1>2 DEF WellFormed, WellFormedAt, OnBook

LEMMA AcceptWellFormed ==
  ASSUME NEW L, WellFormed(L), NEW id \in Id
  PROVE  /\ WellFormed(Accept(L, id)) /\ Accept(L, id).book = L.book
         /\ id \in Accept(L, id).seen
<1>1. /\ Accept(L, id) \in Ledger /\ Accept(L, id).book = L.book
      /\ Accept(L, id).seen = L.seen \cup {id} /\ Accept(L, id).holds = L.holds
  BY DEF Accept, WellFormed, Ledger
<1> QED BY <1>1 DEF WellFormed, WellFormedAt, OnBook

\* A fill never takes more than is left of the order, however it is cut.
LEMMA PlannedBounded ==
  ASSUME NEW L, NEW id, NEW n \in Nat
  PROVE  Planned(L, id, n) \in Nat /\ Planned(L, id, n) <= n
BY DEF Planned

LEMMA CapType ==
  ASSUME NEW L, WellFormed(L), NEW id \in Id, NEW n \in Nat
  PROVE  Cap(L, id, n) \in Nat
BY TermsType DEF Cap, WellFormed, Ledger

LEMMA LeastOfThree ==
  ASSUME NEW a \in Nat, NEW b \in Nat, NEW c \in Nat, NEW n \in Nat, a <= n
  PROVE  Lesser(Lesser(a, b), c) \in Nat /\ Lesser(Lesser(a, b), c) <= n
BY DEF Lesser

\* An order with q less left, rewritten to wait for something else.
LEMMA WithFits ==
  ASSUME NEW o, Fit(o), NEW n \in Nat, n <= o.qty,
         NEW r \in Restings, NEW px \in Nat, NEW rev \in Nat
  PROVE  /\ Fit([o EXCEPT !.leaves = n])
         /\ Fit([o EXCEPT !.rev = rev])
         /\ Fit([o EXCEPT !.resting = r, !.px = px, !.rev = rev])
         /\ Fit([o EXCEPT !.leaves = n, !.rev = rev, !.px = px])
BY DEF Fit, Order

LEMMA SettleTriggeredWellFormed ==
  ASSUME NEW L, WellFormed(L), NEW id \in Id, ~OnBook(L, id), id \in L.seen,
         NEW o, Fit(o), NEW capped
  PROVE  WellFormed(SettleTriggered(L, id, o, capped))
<1>1. \A s \in {"filled", "canceled"} :
        LET M == CloseUnrested(L, id, o, s)
        IN  WellFormed(M) /\ ~OnBook(M, id) /\ id \in M.seen
  BY CloseUnrestedWellFormed DEF Statuses
<1>2. o.px + 2 \in Nat /\ o.rev + 1 \in Nat /\ o.leaves \in Nat /\ o.px \in Nat
  BY DEF Fit, Order
<1>3. /\ Fit([o EXCEPT !.rev = @ + 1])
      /\ Fit([o EXCEPT !.resting = "limit", !.px = @ + 2, !.rev = @ + 1])
  BY <1>2, WithFits DEF Restings, Fit
<1>4. WellFormed(Rest(CloseUnrested(L, id, o, "canceled"), id, [o EXCEPT !.rev = @ + 1]))
  BY <1>1, <1>3, RestWellFormed
<1>5. WellFormed(Rest(L, id, [o EXCEPT !.resting = "limit", !.px = @ + 2, !.rev = @ + 1]))
  BY <1>3, RestWellFormed
<1> QED BY <1>1, <1>4, <1>5 DEF SettleTriggered

LEMMA PromotedWellFormed ==
  ASSUME NEW L, WellFormed(L), NEW id \in Id, OnBook(L, id), NEW o, Fit(o),
         NEW r \in Restings
  PROVE  WellFormed(Put(L, id, [o EXCEPT !.resting = r, !.px = @ + 1, !.rev = @ + 1]))
<1>1. o.px + 1 \in Nat /\ o.rev + 1 \in Nat /\ o.leaves \in Nat
  BY DEF Fit, Order
<1>2. Fit([o EXCEPT !.resting = r, !.px = @ + 1, !.rev = @ + 1])
  BY <1>1, WithFits DEF Fit
<1> QED BY <1>2, PutWellFormed

LEMMA TriggerTakeWellFormed ==
  ASSUME NEW L, WellFormed(L), NEW id \in Id, OnBook(L, id), NEW m \in Market
  PROVE  WellFormed(TriggerTake(L, id, m))
<1> DEFINE o       == L.book[id]
           S       == Spend(L, PartialFill(id))
           planned == Planned(L, id, o.leaves)
           cap     == Cap(L, id, o.leaves)
           q       == Lesser(Lesser(planned, cap), m.depth)
           T       == Take(CommitFill(S, id, q), id)
           left    == [o EXCEPT !.leaves = @ - q]
           settled == SettleTriggered(T, id, left, cap < planned)
           rested  == [o EXCEPT !.resting = "limit", !.px = @ + 1, !.rev = @ + 1]
<1>1. Fit(o) /\ o.leaves \in Nat /\ id \in L.seen
  BY BookFits DEF Fit, Order, WellFormed, WellFormedAt
<1>2. WellFormed(S) /\ S.book = L.book /\ S.seen = L.seen /\ OnBook(S, id)
  BY SpendWellFormed DEF OnBook
<1>3. q \in Nat /\ q <= o.leaves
  <2>1. planned \in Nat /\ planned <= o.leaves /\ cap \in Nat /\ m.depth \in Nat
    BY <1>1, PlannedBounded, CapType DEF Market
  <2> HIDE DEF planned, cap
  <2> QED BY <1>1, <2>1, LeastOfThree
<1>4. WellFormed(T) /\ ~OnBook(T, id) /\ id \in T.seen
  BY <1>1, <1>2, <1>3, CommitFillWellFormed, TakeWellFormed
<1>5. Fit(left)
  <2>1. o.leaves - q \in Nat /\ o.leaves - q <= o.qty
    BY <1>1, <1>3 DEF Fit, Order
  <2> QED BY <1>1, <2>1 DEF Fit, Order
<1>6. WellFormed(settled)
  <2> HIDE DEF T, left, planned, cap
  <2> QED BY <1>4, <1>5, SettleTriggeredWellFormed
<1>7. WellFormed(Linkage(settled, id, q))
  BY <1>3, <1>6, LinkageWellFormed
<1>8. WellFormed(CloseOut(S, id, o, "canceled"))
  BY <1>1, <1>2, CloseOutWellFormed DEF Statuses
<1>9. WellFormed(Put(S, id, rested))
  BY <1>1, <1>2, PromotedWellFormed DEF Restings
<1>10. TriggerTake(L, id, m) \in
         {Put(S, id, rested), CloseOut(S, id, o, "canceled"), Linkage(settled, id, q)}
  BY DEF TriggerTake
<1> HIDE DEF S, rested, o, settled, q
<1> QED BY <1>7, <1>8, <1>9, <1>10

LEMMA TriggerWellFormed ==
  ASSUME NEW L, WellFormed(L), NEW id \in Id, OnBook(L, id), NEW m \in Market
  PROVE  WellFormed(Trigger(L, id, m))
<1> DEFINE o == L.book[id]
           S == Spend(L, PartialFill(id))
           rested == [o EXCEPT !.resting = "limit", !.px = @ + 1, !.rev = @ + 1]
<1>1. Fit(o)
  BY BookFits
<1>2. WellFormed(CloseOut(L, id, o, "canceled")) /\ WellFormed(CloseOut(S, id, o, "canceled"))
  BY <1>1, SpendWellFormed, CloseOutWellFormed DEF Statuses
<1>3. WellFormed(Put(L, id, rested))
  BY <1>1, PromotedWellFormed DEF Restings
<1>4. WellFormed(CloseUnrested(Take(L, id), id, o, "rejected"))
  BY <1>1, TakeWellFormed, CloseUnrestedWellFormed DEF Statuses
<1>5. WellFormed(TriggerTake(L, id, m))
  BY TriggerTakeWellFormed
<1>6. Trigger(L, id, m) \in
        {CloseOut(L, id, o, "canceled"), CloseOut(S, id, o, "canceled"),
         Put(L, id, rested), CloseUnrested(Take(L, id), id, o, "rejected"),
         TriggerTake(L, id, m)}
  BY DEF Trigger
<1> HIDE DEF o, S, rested
<1> QED BY <1>2, <1>3, <1>4, <1>5, <1>6

LEMMA ActivateWellFormed ==
  ASSUME NEW L, WellFormed(L), NEW id \in Id, OnBook(L, id), NEW funded \in BOOLEAN
  PROVE  WellFormed(Activate(L, id, funded))
<1>1. Fit(L.book[id])
  BY BookFits
<1>2. WellFormed(CloseOut(L, id, L.book[id], "canceled"))
  BY <1>1, CloseOutWellFormed DEF Statuses
<1>3. WellFormed(Put(L, id, [L.book[id] EXCEPT !.resting = "conditional",
                                               !.px = @ + 1, !.rev = @ + 1]))
  BY <1>1, PromotedWellFormed DEF Restings
<1> QED BY <1>2, <1>3 DEF Activate

\* A fill's linkage cancels the filled order or leaves its quantities alone.
LEMMA LinkageKeepsFilled ==
  ASSUME NEW L, WellFormed(L), NEW id \in Id, NEW q \in Nat,
         OnBook(Linkage(L, id, q), id)
  PROVE  /\ Linkage(L, id, q).book[id].qty = L.book[id].qty
         /\ Linkage(L, id, q).book[id].leaves = L.book[id].leaves
<1> DEFINE R == ReleaseChildren(L, id)
           siblings  == {s \in Terms[id].links : OnBook(R, s)}
           exhausted == {s \in siblings : R.book[s].leaves <= q}
           K == ShrinkSiblings(R, siblings \ exhausted, q)
           Same(M, N) == /\ M.book[id].qty = N.book[id].qty
                         /\ M.book[id].leaves = N.book[id].leaves
<1>1. WellFormed(R)
  BY ReleaseChildrenWellFormed
<1>2. Same(R, L)
  <2>1. /\ Released(id, L.book[id]).qty = L.book[id].qty
        /\ Released(id, L.book[id]).leaves = L.book[id].leaves
    BY BookFits DEF Released, Fit, Order
  <2>2. R.book[id] \in {L.book[id], Released(id, L.book[id])}
    BY DEF ReleaseChildren, WellFormed, Ledger
  <2> QED BY <2>1, <2>2
<1>3. WellFormed(K) /\ Same(K, R)
  <2>1. \A i \in Id : R.book[i].leaves \in Nat
    BY <1>1, BookFits DEF Fit, Order
  <2>2. WellFormed(K)
    BY <1>1, <2>1, TermsType, ShrinkSiblingsWellFormed
  <2>3. K.book[id] = R.book[id]
    BY <1>1, TermsAssumption DEF ShrinkSiblings, WellFormed, Ledger
  <2> QED BY <2>2, <2>3
<1>4. ASSUME NEW M, WellFormed(M), NEW S, OnBook(CancelSiblings(M, S), id)
      PROVE  Same(CancelSiblings(M, S), M)
  BY <1>4 DEF CancelSiblings, CancelAll, OnBook, Absent, WellFormed, Ledger
<1>5. Linkage(L, id, q) \in
        {R, CancelSiblings(R, siblings), CancelSiblings(K, exhausted)}
  BY DEF Linkage
<1> HIDE DEF R, K, siblings, exhausted
<1>6. Same(Linkage(L, id, q), R)
  <2>1. CASE Linkage(L, id, q) = R
    BY <2>1
  <2>2. CASE Linkage(L, id, q) = CancelSiblings(R, siblings)
    BY <1>1, <1>4, <2>2
  <2>3. CASE Linkage(L, id, q) = CancelSiblings(K, exhausted)
    BY <1>3, <1>4, <2>3
  <2> QED BY <1>5, <2>1, <2>2, <2>3
<1> QED BY <1>2, <1>6

\* An order that is not on the book is not put there by a fill's linkage.
LEMMA LinkageAddsNothing ==
  ASSUME NEW L, WellFormed(L), NEW id \in Id, NEW q \in Nat, ~OnBook(L, id)
  PROVE  ~OnBook(Linkage(L, id, q), id) /\ Linkage(L, id, q).seen = L.seen
<1> DEFINE R == ReleaseChildren(L, id)
           siblings  == {s \in Terms[id].links : OnBook(R, s)}
           exhausted == {s \in siblings : R.book[s].leaves <= q}
           K == ShrinkSiblings(R, siblings \ exhausted, q)
<1>1. WellFormed(R) /\ ~OnBook(R, id) /\ R.seen = L.seen
  <2>1. id \notin HeldChildren(L, id)
    BY DEF HeldChildren, OnBook
  <2>2. R.book[id] = L.book[id] /\ R.seen = L.seen
    BY <2>1 DEF ReleaseChildren, WellFormed, Ledger
  <2> QED BY <2>2, ReleaseChildrenWellFormed DEF OnBook
<1>2. WellFormed(K) /\ ~OnBook(K, id) /\ K.seen = L.seen
  <2>1. \A i \in Id : R.book[i].leaves \in Nat
    BY <1>1, BookFits DEF Fit, Order
  <2>2. WellFormed(K)
    BY <1>1, <2>1, TermsType, ShrinkSiblingsWellFormed
  <2>3. K.book[id] = R.book[id] /\ K.seen = R.seen
    BY <1>1, TermsAssumption DEF ShrinkSiblings, WellFormed, Ledger
  <2> QED BY <1>1, <2>2, <2>3 DEF OnBook
<1>3. Linkage(L, id, q) \in
        {R, CancelSiblings(R, siblings), CancelSiblings(K, exhausted)}
  BY DEF Linkage
<1> HIDE DEF R, K, siblings, exhausted
<1> QED BY <1>1, <1>2, <1>3, CancelAllWellFormed DEF CancelSiblings

LEMMA SweepFillWellFormed ==
  ASSUME NEW L, WellFormed(L), NEW id \in Id, OnBook(L, id), NEW funded
  PROVE  WellFormed(SweepFill(L, id, funded))
<1> DEFINE o       == L.book[id]
           S       == Spend(L, PartialFill(id))
           planned == Planned(L, id, o.leaves)
           cap     == Cap(L, id, o.leaves)
           q       == Lesser(planned, cap)
           F       == IF q > 0 THEN Linkage(CommitFill(S, id, q), id, q) ELSE S
           r       == F.book[id]
           partial == [r EXCEPT !.leaves = o.leaves - q, !.rev = @ + 1,
                                !.px = IF q > 0 THEN @ + 1 ELSE @]
<1>1. Fit(o) /\ o.leaves \in Nat
  BY BookFits DEF Fit, Order
<1>2. WellFormed(S) /\ S.book = L.book
  BY SpendWellFormed
<1>3. q \in Nat /\ q <= o.leaves
  <2>1. planned \in Nat /\ planned <= o.leaves /\ cap \in Nat
    BY <1>1, PlannedBounded, CapType
  <2> HIDE DEF planned, cap
  <2> QED BY <1>1, <2>1 DEF Lesser
<1>4. WellFormed(F)
  BY <1>2, <1>3, CommitFillWellFormed, LinkageWellFormed
<1>5. Fit(r)
  BY <1>4, BookFits
<1>6. OnBook(F, id) => r.qty = o.qty
  BY <1>2, <1>3, CommitFillWellFormed, LinkageKeepsFilled
<1> HIDE DEF q, F
<1>7. OnBook(F, id) => Fit(partial)
  <2>1. /\ o.leaves - q \in Nat /\ o.leaves - q <= o.qty
        /\ r.rev + 1 \in Nat /\ (IF q > 0 THEN r.px + 1 ELSE r.px) \in Nat
    <3> HIDE DEF o, r
    <3> QED BY <1>1, <1>3, <1>5 DEF Fit, Order
  <2> HIDE DEF o, r
  <2> QED BY <1>5, <1>6, <2>1 DEF Fit, Order
<1>8. OnBook(F, id) => WellFormed(Put(F, id, partial))
  <2> HIDE DEF partial
  <2> QED BY <1>4, <1>7, PutWellFormed
<1>9. /\ WellFormed(CloseOut(S, id, o, "canceled"))
      /\ WellFormed(CloseOut(F, id, r, "filled"))
      /\ WellFormed(CloseOut(F, id, r, "canceled"))
  <2> HIDE DEF o, S, r
  <2> QED BY <1>1, <1>2, <1>4, <1>5, CloseOutWellFormed DEF Statuses
<1>10. \/ SweepFill(L, id, funded) \in
            {CloseOut(S, id, o, "canceled"), F, CloseOut(F, id, r, "filled"),
             CloseOut(F, id, r, "canceled")}
       \/ OnBook(F, id) /\ SweepFill(L, id, funded) = Put(F, id, partial)
  BY DEF SweepFill, F, q
<1> HIDE DEF S, r, o, partial
<1> QED BY <1>4, <1>8, <1>9, <1>10
----------------------------------------------------------------------------
(* What the operations make of each order.                                 *)

\* How much of an order its slot says it has worked off.
Worked(o) == o.qty - o.leaves

\* What the book says of an order: nothing, of one that is not on it.
WorkedOff(L, id) == IF OnBook(L, id) THEN Worked(L.book[id]) ELSE 0

\* A row of the truth store that tells of a fill.
TellsFill(row) == row.status = "filled" \/ row.filled > 0

Waiting(L, i) == L.book[i].resting = "held"

\* What a handler may do to an order it is not about: leave it on the book
\* with what it has worked off, released only by its parent's fill and
\* rewritten only at a new revision; or take it off, recorded canceled with
\* what it has worked off.
Moves(L, M, i) ==
  /\ OnBook(M, i) =>
       /\ OnBook(L, i)
       /\ M.closed[i] = L.closed[i]
       /\ Worked(M.book[i]) = Worked(L.book[i])
       /\ L.book[i].leaves > 0 => M.book[i].leaves > 0
       /\ Waiting(M, i) => Waiting(L, i)
       /\ Waiting(L, i) /\ ~Waiting(M, i) => M.executed[Terms[i].parent] > 0
       /\ \/ M.book[i].rev > L.book[i].rev
          \/ /\ M.book[i].rev = L.book[i].rev
             /\ M.book[i].px = L.book[i].px
             /\ M.book[i].resting = L.book[i].resting
  /\ ~OnBook(M, i) =>
       M.closed[i] = IF OnBook(L, i)
                       THEN [status |-> "canceled", filled |-> Worked(L.book[i])]
                       ELSE L.closed[i]

\* What a handler does to the order it is about, which fills q of it: the fill
\* is booked once, a reduce-only one within the position it reduces; the order
\* stays on the book with exactly q more worked off and something left, or is
\* recorded terminal, filled only if it has been filled.
Deals(L, M, id, q) ==
  /\ q \in Nat
  /\ M.executed = [L.executed EXCEPT ![id] = @ + q]
  /\ M.position = L.position + Terms[id].side * q
  /\ Terms[id].reduceOnly /\ q > 0 => q <= -(L.position * Terms[id].side)
  /\ \A i \in Id \ {id} : Moves(L, M, i)
  /\ \/ M.closed[id] = L.closed[id]
     \/ TellsFill(M.closed[id]) => WorkedOff(L, id) + q > 0
  /\ OnBook(M, id) =>
       /\ Worked(M.book[id]) = WorkedOff(L, id) + q
       /\ M.book[id].leaves > 0
       /\ Terms[id].class # "stop" => M.closed[id] = L.closed[id]
  /\ ~OnBook(M, id) => M.closed[id].status # "open"

\* What no operation but a fill, an acceptance or an arm touches.
Aside(L, M) ==
  M.seen = L.seen /\ M.executed = L.executed /\ M.position = L.position

Spared(L, M, i) == M.book[i] = L.book[i] /\ M.closed[i] = L.closed[i]

LEMMA MovesSpared ==
  ASSUME NEW L, NEW M, NEW i, Spared(L, M, i)
  PROVE  Moves(L, M, i)
BY DEF Spared, Moves, OnBook, Waiting

LEMMA MovesTransitive ==
  ASSUME NEW L, NEW M, NEW N, WellFormed(L), WellFormed(M), WellFormed(N),
         NEW i \in Id, Moves(L, M, i), Moves(M, N, i), N.executed = M.executed
  PROVE  Moves(L, N, i)
<1>1. /\ L.book[i].rev \in Nat /\ M.book[i].rev \in Nat /\ N.book[i].rev \in Nat
  BY BookFits DEF Fit, Order
<1>2. CASE OnBook(N, i)
  <2>1. OnBook(M, i) /\ OnBook(L, i)
    BY <1>2 DEF Moves
  <2>2. /\ N.closed[i] = L.closed[i] /\ Worked(N.book[i]) = Worked(L.book[i])
        /\ L.book[i].leaves > 0 => N.book[i].leaves > 0
        /\ Waiting(N, i) => Waiting(L, i)
        /\ Waiting(L, i) /\ ~Waiting(N, i) => N.executed[Terms[i].parent] > 0
    BY <1>2, <2>1 DEF Moves
  <2>3. \/ N.book[i].rev > L.book[i].rev
        \/ /\ N.book[i].rev = L.book[i].rev
           /\ N.book[i].px = L.book[i].px
           /\ N.book[i].resting = L.book[i].resting
    BY <1>1, <1>2, <2>1 DEF Moves
  <2> QED BY <1>2, <2>1, <2>2, <2>3 DEF Moves
<1>3. CASE ~OnBook(N, i)
  BY <1>3 DEF Moves
<1> QED BY <1>2, <1>3

LEMMA CancelAllMoves ==
  ASSUME NEW L, WellFormed(L), NEW D, \A i \in Id : i \in D => OnBook(L, i)
  PROVE  /\ Aside(L, CancelAll(L, D))
         /\ \A i \in Id : Moves(L, CancelAll(L, D), i)
         /\ \A i \in Id : i \notin D => Spared(L, CancelAll(L, D), i)
<1> DEFINE M == CancelAll(L, D)
<1>1. /\ M.book = [i \in Id |-> IF i \in D THEN Absent ELSE L.book[i]]
      /\ M.closed = [i \in Id |->
                      IF i \in D
                        THEN [status |-> "canceled",
                              filled |-> L.book[i].qty - L.book[i].leaves]
                        ELSE L.closed[i]]
      /\ Aside(L, M)
  BY DEF CancelAll, WellFormed, Ledger, Aside
<1> HIDE DEF M
<1>2. ASSUME NEW i \in Id, i \notin D PROVE Spared(L, M, i)
  BY <1>1, <1>2 DEF Spared
<1>3. ASSUME NEW i \in Id, i \in D PROVE Moves(L, M, i)
  <2>1. ~OnBook(M, i)
    BY <1>1, <1>3 DEF OnBook, Absent
  <2>2. M.closed[i] = [status |-> "canceled", filled |-> Worked(L.book[i])]
    BY <1>1, <1>3 DEF Worked
  <2> QED BY <1>3, <2>1, <2>2 DEF Moves
<1>4. \A i \in Id : Moves(L, M, i)
  BY <1>2, <1>3, MovesSpared
<1> QED BY <1>1, <1>2, <1>4 DEF M

\* Only held orders are below an order.
LEMMA HeldBelowWaits ==
  ASSUME NEW L, NEW parent, NEW c \in HeldBelow(L, parent)
  PROVE  c \in Id /\ Waiting(L, c) /\ OnBook(L, c)
BY DEF HeldBelow, Waiting, OnBook

LEMMA ReapChildrenMoves ==
  ASSUME NEW L, WellFormed(L), NEW parent
  PROVE  /\ Aside(L, ReapChildren(L, parent))
         /\ \A i \in Id : Moves(L, ReapChildren(L, parent), i)
         /\ \A i \in Id : ~Waiting(L, i) => Spared(L, ReapChildren(L, parent), i)
BY HeldBelowWaits, CancelAllMoves DEF ReapChildren

LEMMA CancelSiblingsMoves ==
  ASSUME NEW L, WellFormed(L), NEW S, \A s \in S : OnBook(L, s)
  PROVE  /\ Aside(L, CancelSiblings(L, S))
         /\ \A i \in Id : Moves(L, CancelSiblings(L, S), i)
         /\ \A i \in Id : i \notin S /\ ~Waiting(L, i) =>
              Spared(L, CancelSiblings(L, S), i)
<1> DEFINE D == S \cup UNION {HeldBelow(L, s) : s \in {t \in S : ~HasFilled(L, t)}}
<1>1. \A i \in D : i \in S \/ (Waiting(L, i) /\ OnBook(L, i))
  BY HeldBelowWaits
<1>2. CancelSiblings(L, S) = CancelAll(L, D)
  BY DEF CancelSiblings
<1> HIDE DEF D
<1> QED BY <1>1, <1>2, CancelAllMoves

\* Released by a parent that has filled.
LEMMA ReleaseChildrenMoves ==
  ASSUME NEW L, WellFormed(L), NEW parent, L.executed[parent] > 0
  PROVE  /\ Aside(L, ReleaseChildren(L, parent))
         /\ \A i \in Id : Moves(L, ReleaseChildren(L, parent), i)
         /\ \A i \in Id : ~Waiting(L, i) => Spared(L, ReleaseChildren(L, parent), i)
         /\ \A i \in Id : OnBook(ReleaseChildren(L, parent), i) <=> OnBook(L, i)
<1> DEFINE M == ReleaseChildren(L, parent)
           C == HeldChildren(L, parent)
<1>1. /\ M.book = [i \in Id |-> IF i \in C THEN Released(i, L.book[i]) ELSE L.book[i]]
      /\ M.closed = L.closed
      /\ Aside(L, M)
  BY DEF ReleaseChildren, WellFormed, Ledger, Aside
<1> HIDE DEF M
<1>2. ASSUME NEW i \in Id, i \notin C PROVE Spared(L, M, i)
  BY <1>1, <1>2 DEF Spared
<1>3. ASSUME NEW i \in C PROVE Moves(L, M, i) /\ OnBook(M, i) /\ OnBook(L, i)
  <2> DEFINE o == L.book[i]
  <2>1. i \in Id /\ Waiting(L, i) /\ OnBook(L, i) /\ Terms[i].parent = parent
    BY DEF HeldChildren, Waiting, OnBook
  <2>2. M.book[i] = [o EXCEPT !.resting = LiveResting(i), !.px = @ + 1, !.rev = @ + 1]
    BY <1>1, <2>1 DEF Released
  <2>3. o \in Order /\ o.rev \in Nat
    BY <2>1, BookFits DEF Fit, Order
  <2>4. LiveResting(i) \notin {"held", "absent"}
    BY DEF LiveResting
  <2>5. /\ M.book[i].resting = LiveResting(i) /\ M.book[i].rev = o.rev + 1
        /\ M.book[i].qty = o.qty /\ M.book[i].leaves = o.leaves
    BY <2>2, <2>3 DEF Order
  <2>6. ~Waiting(M, i) /\ OnBook(M, i) /\ M.book[i].rev > L.book[i].rev
    BY <2>3, <2>4, <2>5 DEF Waiting, OnBook
  <2>7. M.executed[Terms[i].parent] > 0 /\ M.closed[i] = L.closed[i]
    BY <1>1, <2>1 DEF Aside
  <2>8. /\ Worked(M.book[i]) = Worked(L.book[i])
        /\ L.book[i].leaves > 0 => M.book[i].leaves > 0
    BY <2>5 DEF Worked
  <2> QED BY <2>1, <2>6, <2>7, <2>8 DEF Moves
<1>4. \A i \in Id : Moves(L, M, i)
  BY <1>2, <1>3, MovesSpared
<1>5. \A i \in Id : ~Waiting(L, i) => Spared(L, M, i)
  BY <1>2 DEF HeldChildren, Waiting
<1>6. \A i \in Id : OnBook(M, i) <=> OnBook(L, i)
  BY <1>2, <1>3 DEF Spared, OnBook
<1> QED BY <1>1, <1>4, <1>5, <1>6 DEF M

LEMMA ShrinkSiblingsMoves ==
  ASSUME NEW L, WellFormed(L), NEW q \in Nat, NEW S \in SUBSET Id,
         \A i \in S : OnBook(L, i) /\ q < L.book[i].leaves
  PROVE  /\ Aside(L, ShrinkSiblings(L, S, q))
         /\ \A i \in Id : Moves(L, ShrinkSiblings(L, S, q), i)
         /\ \A i \in Id : i \notin S => Spared(L, ShrinkSiblings(L, S, q), i)
         /\ \A i \in Id : /\ OnBook(ShrinkSiblings(L, S, q), i) <=> OnBook(L, i)
                          /\ Waiting(ShrinkSiblings(L, S, q), i) <=> Waiting(L, i)
<1> DEFINE M == ShrinkSiblings(L, S, q)
           shrunk(i) == [L.book[i] EXCEPT !.qty = @ - q, !.leaves = @ - q, !.rev = @ + 1]
<1>1. /\ M.book = [i \in Id |-> IF i \in S THEN shrunk(i) ELSE L.book[i]]
      /\ M.closed = L.closed
      /\ Aside(L, M)
  BY DEF ShrinkSiblings, WellFormed, Ledger, Aside
<1> HIDE DEF M
<1>2. ASSUME NEW i \in Id, i \notin S PROVE Spared(L, M, i)
  BY <1>1, <1>2 DEF Spared
<1>3. ASSUME NEW i \in S
      PROVE  /\ Moves(L, M, i) /\ OnBook(M, i) /\ OnBook(L, i)
             /\ Waiting(M, i) <=> Waiting(L, i)
  <2> DEFINE o == L.book[i]
  <2>1. i \in Id /\ OnBook(L, i)
    OBVIOUS
  <2>2. /\ o \in Order /\ o.rev \in Nat /\ o.qty \in Nat /\ o.leaves \in Nat
        /\ q < o.leaves
    BY <2>1, BookFits DEF Fit, Order
  <2>3. /\ M.book[i].resting = o.resting /\ M.book[i].rev = o.rev + 1
        /\ M.book[i].qty = o.qty - q /\ M.book[i].leaves = o.leaves - q
    BY <1>1, <2>1, <2>2 DEF Order
  <2>4. /\ M.book[i].rev > L.book[i].rev
        /\ Worked(M.book[i]) = Worked(L.book[i]) /\ M.book[i].leaves > 0
    BY <2>2, <2>3 DEF Worked
  <2>5. (OnBook(M, i) <=> OnBook(L, i)) /\ (Waiting(M, i) <=> Waiting(L, i))
    BY <2>3 DEF OnBook, Waiting
  <2>6. M.closed[i] = L.closed[i]
    BY <1>1
  <2> QED BY <2>1, <2>4, <2>5, <2>6 DEF Moves
<1>4. \A i \in Id : Moves(L, M, i)
  BY <1>2, <1>3, MovesSpared
<1>5. \A i \in Id : /\ OnBook(M, i) <=> OnBook(L, i)
                    /\ Waiting(M, i) <=> Waiting(L, i)
  BY <1>2, <1>3 DEF Spared, OnBook, Waiting
<1> QED BY <1>1, <1>2, <1>4, <1>5 DEF M

\* A fill's linkage, booked after the fill: it takes nothing from the filled
\* order itself.
LEMMA LinkageMoves ==
  ASSUME NEW L, WellFormed(L), NEW id \in Id, NEW q \in Nat, L.executed[id] > 0
  PROVE  /\ Aside(L, Linkage(L, id, q))
         /\ \A i \in Id : Moves(L, Linkage(L, id, q), i)
         /\ ~Waiting(L, id) => Spared(L, Linkage(L, id, q), id)
<1> DEFINE R == ReleaseChildren(L, id)
           siblings  == {s \in Terms[id].links : OnBook(R, s)}
           exhausted == {s \in siblings : R.book[s].leaves <= q}
           K == ShrinkSiblings(R, siblings \ exhausted, q)
<1>1. /\ WellFormed(R) /\ Aside(L, R) /\ \A i \in Id : Moves(L, R, i)
      /\ ~Waiting(L, id) => Spared(L, R, id)
  BY ReleaseChildrenWellFormed, ReleaseChildrenMoves
<1>2. siblings \in SUBSET Id /\ id \notin siblings /\ \A s \in siblings : OnBook(R, s)
  BY TermsType, TermsAssumption
<1>3. /\ WellFormed(K) /\ Aside(R, K) /\ \A i \in Id : Moves(R, K, i)
      /\ Spared(R, K, id)
      /\ \A s \in siblings : OnBook(K, s)
      /\ Waiting(K, id) <=> Waiting(R, id)
  <2>1. \A i \in siblings \ exhausted : OnBook(R, i) /\ q < R.book[i].leaves
    <3>1. \A i \in Id : R.book[i].leaves \in Nat
      BY <1>1, BookFits DEF Fit, Order
    <3> QED BY <1>2, <3>1
  <2>2. siblings \ exhausted \in SUBSET Id /\ id \notin siblings \ exhausted
    BY <1>2
  <2> HIDE DEF R, exhausted
  <2> QED BY <1>1, <1>2, <2>1, <2>2, ShrinkSiblingsWellFormed, ShrinkSiblingsMoves
<1> DEFINE M == Linkage(L, id, q)
<1>4. M \in {R, CancelSiblings(R, siblings), CancelSiblings(K, exhausted)}
  BY DEF Linkage
<1>5. exhausted \subseteq siblings
  OBVIOUS
<1> HIDE DEF R, K, siblings, exhausted, M
<1>6. /\ WellFormed(M) /\ Aside(R, M) /\ \A i \in Id : Moves(R, M, i)
      /\ ~Waiting(R, id) => Spared(R, M, id)
  <2>1. CASE M = R
    BY <1>1, <2>1, MovesSpared DEF Aside, Spared
  <2>2. CASE M = CancelSiblings(R, siblings)
    BY <1>1, <1>2, <2>2, CancelSiblingsWellFormed, CancelSiblingsMoves
  <2>3. CASE M = CancelSiblings(K, exhausted)
    <3>1. id \notin exhausted /\ \A s \in exhausted : OnBook(K, s)
      BY <1>2, <1>3, <1>5
    <3>2. /\ WellFormed(M) /\ Aside(K, M) /\ \A i \in Id : Moves(K, M, i)
          /\ ~Waiting(K, id) => Spared(K, M, id)
      BY <1>3, <2>3, <3>1, CancelSiblingsWellFormed, CancelSiblingsMoves
    <3>3. \A i \in Id : Moves(R, M, i)
      BY <1>1, <1>3, <3>2, MovesTransitive DEF Aside
    <3> QED BY <1>3, <3>2, <3>3 DEF Aside, Spared
  <2> QED BY <1>4, <2>1, <2>2, <2>3
<1>7. \A i \in Id : Moves(L, M, i)
  BY <1>1, <1>6, MovesTransitive DEF Aside
<1>8. ~Waiting(L, id) => Spared(L, M, id)
  BY <1>1, <1>6 DEF Spared, Waiting
<1> QED BY <1>1, <1>6, <1>7, <1>8 DEF Aside, M

\* An order that goes terminal off the book takes only held children with it.
LEMMA CloseUnrestedMoves ==
  ASSUME NEW L, WellFormed(L), NEW id \in Id, ~OnBook(L, id), NEW o, Fit(o),
         NEW s \in Statuses
  PROVE  LET M == CloseUnrested(L, id, o, s)
         IN  /\ Aside(L, M) /\ ~OnBook(M, id)
             /\ \A i \in Id \ {id} : Moves(L, M, i)
             /\ M.closed[id] = [status |-> s, filled |-> Worked(o)]
<1> DEFINE R == RecordClosed(L, id, o, s)
           M == CloseUnrested(L, id, o, s)
<1>1. /\ WellFormed(R) /\ R.book = L.book
      /\ R.closed = [L.closed EXCEPT ![id] = [status |-> s, filled |-> Worked(o)]]
      /\ Aside(L, R)
  BY RecordClosedWellFormed DEF RecordClosed, Worked, Aside, WellFormed, Ledger
<1>2. R.closed[id] = [status |-> s, filled |-> Worked(o)]
  BY <1>1 DEF WellFormed, Ledger
<1>3. \A i \in Id \ {id} : Spared(L, R, i)
  BY <1>1 DEF Spared, WellFormed, Ledger
<1>4. ~OnBook(R, id) /\ ~Waiting(R, id)
  BY <1>1 DEF OnBook, Waiting
<1>5. M \in {R, ReapChildren(R, id)}
  BY DEF CloseUnrested
<1> HIDE DEF R, M
<1>6. /\ Aside(R, M) /\ Spared(R, M, id) /\ \A i \in Id : Moves(R, M, i)
  <2>1. CASE M = R
    BY <2>1, MovesSpared DEF Aside, Spared
  <2>2. CASE M = ReapChildren(R, id)
    BY <1>1, <1>4, <2>2, ReapChildrenMoves
  <2> QED BY <1>5, <2>1, <2>2
<1>7. ASSUME NEW i \in Id \ {id} PROVE Moves(L, M, i)
  BY <1>3, <1>6 DEF Spared, Moves, OnBook, Waiting
<1>8. Aside(L, M) /\ ~OnBook(M, id)
  BY <1>1, <1>4, <1>6 DEF Aside, Spared, OnBook
<1>9. M.closed[id] = [status |-> s, filled |-> Worked(o)]
  BY <1>2, <1>6 DEF Spared
<1> QED BY <1>7, <1>8, <1>9 DEF M

\* Two ledgers alike but for the slot of id, which has the same worked off.
Alike(K, L, id) ==
  /\ L.executed = K.executed /\ L.position = K.position /\ L.closed = K.closed
  /\ WorkedOff(L, id) = WorkedOff(K, id)
  /\ \A i \in Id \ {id} : L.book[i] = K.book[i]

LEMMA DealsAlike ==
  ASSUME NEW K, NEW L, NEW M, NEW id \in Id, NEW q, Alike(K, L, id),
         Deals(L, M, id, q)
  PROVE  Deals(K, M, id, q)
<1>1. ASSUME NEW i \in Id \ {id} PROVE Moves(K, M, i)
  <2>1. Moves(L, M, i) /\ L.book[i] = K.book[i] /\ L.closed = K.closed
    BY DEF Deals, Alike
  <2> QED BY <2>1 DEF Moves, OnBook, Waiting
<1> QED BY <1>1 DEF Deals, Alike

LEMMA TakeAside ==
  ASSUME NEW L, WellFormed(L), NEW id \in Id
  PROVE  /\ Aside(L, Take(L, id)) /\ Take(L, id).closed = L.closed
         /\ \A i \in Id \ {id} : Take(L, id).book[i] = L.book[i]
BY DEF Take, Aside, WellFormed, Ledger

LEMMA CloseOutMoves ==
  ASSUME NEW L, WellFormed(L), NEW id \in Id, NEW o, Fit(o), NEW s \in Statuses
  PROVE  LET M == CloseOut(L, id, o, s)
         IN  /\ Aside(L, M) /\ ~OnBook(M, id) /\ WellFormed(M)
             /\ \A i \in Id \ {id} : Moves(L, M, i)
             /\ M.closed[id] = [status |-> s, filled |-> Worked(o)]
<1> DEFINE T == Take(L, id)
           M == CloseUnrested(T, id, o, s)
<1>1. WellFormed(T) /\ ~OnBook(T, id)
  BY TakeWellFormed
<1>2. /\ Aside(L, T) /\ T.closed = L.closed
      /\ \A i \in Id \ {id} : T.book[i] = L.book[i]
  BY TakeAside
<1> HIDE DEF T
<1>3. /\ Aside(T, M) /\ ~OnBook(M, id)
      /\ \A i \in Id \ {id} : Moves(T, M, i)
      /\ M.closed[id] = [status |-> s, filled |-> Worked(o)]
  BY <1>1, CloseUnrestedMoves
<1>4. WellFormed(M)
  BY <1>1, CloseUnrestedWellFormed
<1> HIDE DEF M
<1>5. Aside(L, M)
  BY <1>2, <1>3 DEF Aside
<1>6. ASSUME NEW i \in Id \ {id} PROVE Moves(L, M, i)
  BY <1>2, <1>3 DEF Moves, OnBook, Waiting
<1> QED BY <1>3, <1>4, <1>5, <1>6 DEF M, T, CloseOut

\* A cancel, an expiry or a rejection of an order on the book.
LEMMA CloseOutDeals ==
  ASSUME NEW L, WellFormed(L), NEW id \in Id, OnBook(L, id),
         NEW s \in {"canceled", "expired", "rejected"}
  PROVE  LET M == CloseOut(L, id, L.book[id], s)
         IN  Deals(L, M, id, 0) /\ ~OnBook(M, id) /\ M.seen = L.seen
<1> DEFINE o == L.book[id]
           M == CloseOut(L, id, o, s)
<1>1. Fit(o) /\ Worked(o) \in Nat /\ s \in Statuses
  BY BookFits DEF Worked, Fit, Order, Statuses
<1>2. /\ Aside(L, M) /\ ~OnBook(M, id)
      /\ \A i \in Id \ {id} : Moves(L, M, i)
      /\ M.closed[id] = [status |-> s, filled |-> Worked(o)]
  <2> HIDE DEF o
  <2> QED BY <1>1, CloseOutMoves
<1> HIDE DEF M
<1>3. /\ M.closed[id].status # "open"
      /\ TellsFill(M.closed[id]) => Worked(o) > 0
  BY <1>2 DEF TellsFill
<1>4. /\ M.executed = [L.executed EXCEPT ![id] = @ + 0]
      /\ M.position = L.position + Terms[id].side * 0
  <2>1. L.executed \in [Id -> Nat] /\ L.position \in Int
    BY DEF WellFormed, Ledger
  <2> QED BY <1>2, <2>1, TermsType DEF Aside
<1>5. Deals(L, M, id, 0)
  BY <1>1, <1>2, <1>3, <1>4 DEF Deals, WorkedOff
<1> QED BY <1>2, <1>5 DEF Aside, M

\* A slot rewritten with the same worked off.
LEMMA PutDeals ==
  ASSUME NEW L, WellFormed(L), NEW id \in Id, OnBook(L, id), NEW o,
         Worked(o) = Worked(L.book[id]), o.leaves > 0, o.resting # "absent"
  PROVE  LET M == Put(L, id, o)
         IN  Deals(L, M, id, 0) /\ M.book[id] = o /\ M.seen = L.seen
<1> DEFINE M == Put(L, id, o)
<1>1. /\ M.closed = L.closed /\ M.book = [L.book EXCEPT ![id] = o]
      /\ Aside(L, M)
  BY DEF Put, Aside, WellFormed, Ledger
<1> HIDE DEF M
<1>2. M.book[id] = o /\ \A i \in Id \ {id} : Spared(L, M, i)
  BY <1>1 DEF Spared, WellFormed, Ledger
<1>3. \A i \in Id \ {id} : Moves(L, M, i)
  BY <1>2, MovesSpared
<1>4. /\ M.executed = [L.executed EXCEPT ![id] = @ + 0]
      /\ M.position = L.position + Terms[id].side * 0
  <2>1. L.executed \in [Id -> Nat] /\ L.position \in Int
    BY DEF WellFormed, Ledger
  <2> QED BY <1>1, <2>1, TermsType DEF Aside
<1>5. Worked(L.book[id]) \in Int
  BY BookFits DEF Worked, Fit, Order
<1>6. OnBook(M, id)
  BY <1>2 DEF OnBook
<1>7. Deals(L, M, id, 0)
  BY <1>1, <1>2, <1>3, <1>4, <1>5, <1>6 DEF Deals, WorkedOff
<1> QED BY <1>1, <1>2, <1>7 DEF Aside, M
----------------------------------------------------------------------------
(* What a trigger, an activation and a sweep do to the order they are      *)
(* about, and to every other.                                              *)

\* A handler about a working order leaves it working at a new revision.
Acts(L, M, id, q) ==
  /\ Deals(L, M, id, q)
  /\ M.seen = L.seen
  /\ OnBook(M, id) => ~Waiting(M, id) /\ M.book[id].rev > L.book[id].rev

LEMMA CloseOutActs ==
  ASSUME NEW K, NEW L, WellFormed(L), NEW id \in Id, OnBook(L, id),
         Alike(K, L, id), L.seen = K.seen
  PROVE  Acts(K, CloseOut(L, id, L.book[id], "canceled"), id, 0)
<1> DEFINE M == CloseOut(L, id, L.book[id], "canceled")
<1>1. Deals(L, M, id, 0) /\ ~OnBook(M, id) /\ M.seen = L.seen
  BY CloseOutDeals
<1> HIDE DEF M
<1>2. Deals(K, M, id, 0)
  BY <1>1, DealsAlike
<1>3. Acts(K, M, id, 0)
  BY <1>1, <1>2 DEF Acts
<1> QED BY <1>3 DEF M

\* Promoted to wait for something else.
LEMMA PromotedActs ==
  ASSUME NEW K, NEW L, WellFormed(L), NEW id \in Id, OnBook(L, id),
         L.book = K.book, Alike(K, L, id), L.seen = K.seen,
         L.book[id].leaves > 0, NEW r \in {"limit", "conditional"}
  PROVE  Acts(K, Put(L, id, [L.book[id] EXCEPT !.resting = r, !.px = @ + 1,
                                               !.rev = @ + 1]), id, 0)
<1> DEFINE o == L.book[id]
           n == [o EXCEPT !.resting = r, !.px = @ + 1, !.rev = @ + 1]
<1>1. o \in Order /\ o.rev \in Nat
  BY BookFits DEF Fit, Order
<1>2. /\ n.resting = r /\ n.rev = o.rev + 1 /\ n.leaves = o.leaves
      /\ n.qty = o.qty
  BY <1>1 DEF Order
<1> HIDE DEF n
<1>3. Worked(n) = Worked(o) /\ n.leaves > 0 /\ n.resting # "absent" /\ n.rev > o.rev
  BY <1>1, <1>2 DEF Worked
<1>4. /\ Deals(L, Put(L, id, n), id, 0) /\ Put(L, id, n).book[id] = n
      /\ Put(L, id, n).seen = L.seen
  BY <1>3, PutDeals
<1>5. Deals(K, Put(L, id, n), id, 0)
  BY <1>4, DealsAlike
<1> QED BY <1>2, <1>3, <1>4, <1>5 DEF Acts, Waiting, n

\* The end of a trigger's fill, the order taken off the book with o left to
\* settle.
LEMMA SettleTriggeredMoves ==
  ASSUME NEW L, WellFormed(L), NEW id \in Id, ~OnBook(L, id), id \in L.seen,
         NEW o, Fit(o), o.resting \notin {"absent", "held"}, NEW capped
  PROVE  LET M == SettleTriggered(L, id, o, capped)
         IN  /\ Aside(L, M)
             /\ \A i \in Id \ {id} : Moves(L, M, i)
             /\ OnBook(M, id) =>
                  /\ Worked(M.book[id]) = Worked(o) /\ M.book[id].leaves > 0
                  /\ ~Waiting(M, id) /\ M.book[id].rev > o.rev
                  /\ Terms[id].class # "stop" => M.closed[id] = L.closed[id]
             /\ ~OnBook(M, id) => M.closed[id].status # "open"
             /\ ~Waiting(M, id)
<1> DEFINE M == SettleTriggered(L, id, o, capped)
           C(s) == CloseUnrested(L, id, o, s)
           again == [o EXCEPT !.rev = @ + 1]
           limit == [o EXCEPT !.resting = "limit", !.px = @ + 2, !.rev = @ + 1]
<1>1. o \in Order /\ o.rev \in Nat /\ o.leaves \in Nat /\ o.qty \in Nat
  BY DEF Fit, Order
<1>2. /\ again.resting = o.resting /\ again.rev = o.rev + 1
      /\ again.leaves = o.leaves /\ again.qty = o.qty
      /\ limit.resting = "limit" /\ limit.rev = o.rev + 1
      /\ limit.leaves = o.leaves /\ limit.qty = o.qty
  BY <1>1 DEF Order
<1>3. ASSUME NEW s \in {"filled", "canceled"}
      PROVE  /\ WellFormed(C(s)) /\ Aside(L, C(s)) /\ ~OnBook(C(s), id)
             /\ \A i \in Id \ {id} : Moves(L, C(s), i)
             /\ C(s).closed[id].status = s
  <2>1. s \in Statuses
    BY DEF Statuses
  <2>2. WellFormed(C(s))
    BY <2>1, CloseUnrestedWellFormed
  <2>3. /\ Aside(L, C(s)) /\ ~OnBook(C(s), id)
        /\ \A i \in Id \ {id} : Moves(L, C(s), i)
        /\ C(s).closed[id] = [status |-> s, filled |-> Worked(o)]
    BY <2>1, CloseUnrestedMoves
  <2> HIDE DEF C
  <2> QED BY <2>2, <2>3
<1>4. ASSUME NEW K, WellFormed(K), NEW n
      PROVE  /\ Aside(K, Rest(K, id, n)) /\ Rest(K, id, n).closed = K.closed
             /\ Rest(K, id, n).book[id] = n
             /\ \A i \in Id \ {id} : Spared(K, Rest(K, id, n), i)
  BY <1>4 DEF Rest, Aside, Spared, WellFormed, Ledger
<1> HIDE DEF C, again, limit
<1>5. CASE o.leaves = 0 \/ capped
  <2>1. M \in {C("filled"), C("canceled")}
    BY <1>5 DEF SettleTriggered, C
  <2> HIDE DEF M
  <2> QED BY <1>3, <2>1 DEF M, Waiting, OnBook
<1>6. CASE o.leaves # 0 /\ ~capped /\ Terms[id].class = "stop"
  <2>1. M = Rest(C("canceled"), id, again)
    BY <1>6 DEF SettleTriggered, C, again
  <2>2. M.book[id] = again /\ Aside(L, M)
    BY <1>3, <1>4, <2>1 DEF Aside
  <2>3. ASSUME NEW i \in Id \ {id} PROVE Moves(L, M, i)
    <3>1. Moves(L, C("canceled"), i) /\ Spared(C("canceled"), M, i)
          /\ M.executed = C("canceled").executed
      BY <1>3, <1>4, <2>1 DEF Aside
    <3> QED BY <3>1 DEF Moves, Spared, OnBook, Waiting
  <2> HIDE DEF M
  <2>4. OnBook(M, id) /\ ~Waiting(M, id)
    BY <1>2, <2>2 DEF OnBook, Waiting
  <2>5. /\ Worked(M.book[id]) = Worked(o) /\ M.book[id].leaves > 0
        /\ M.book[id].rev > o.rev
    BY <1>1, <1>2, <1>6, <2>2 DEF Worked
  <2> QED BY <1>6, <2>2, <2>3, <2>4, <2>5 DEF M
<1>7. CASE o.leaves # 0 /\ ~capped /\ Terms[id].class # "stop"
  <2>1. M = Rest(L, id, limit)
    BY <1>7 DEF SettleTriggered, limit
  <2>2. /\ M.book[id] = limit /\ Aside(L, M) /\ M.closed = L.closed
        /\ \A i \in Id \ {id} : Moves(L, M, i)
    BY <1>4, <2>1, MovesSpared
  <2> HIDE DEF M
  <2>3. OnBook(M, id) /\ ~Waiting(M, id)
    BY <1>2, <2>2 DEF OnBook, Waiting
  <2>4. /\ Worked(M.book[id]) = Worked(o) /\ M.book[id].leaves > 0
        /\ M.book[id].rev > o.rev
    BY <1>1, <1>2, <1>7, <2>2 DEF Worked
  <2> QED BY <2>2, <2>3, <2>4 DEF M
<1> QED BY <1>5, <1>6, <1>7

\* What a fill of q booked on a ledger like L leaves to be dealt with.
LEMMA CommitFillAside ==
  ASSUME NEW L, WellFormed(L), NEW id \in Id, NEW q \in Nat
  PROVE  LET S == Spend(L, PartialFill(id))
             C == CommitFill(S, id, q)
         IN  /\ WellFormed(S) /\ Aside(L, S) /\ S.book = L.book /\ S.closed = L.closed
             /\ WellFormed(C) /\ C.book = L.book /\ C.closed = L.closed
             /\ C.seen = L.seen
             /\ C.executed = [L.executed EXCEPT ![id] = @ + q]
             /\ C.position = L.position + Terms[id].side * q
             /\ q > 0 => C.executed[id] > 0
<1> DEFINE S == Spend(L, PartialFill(id))
           C == CommitFill(S, id, q)
<1>1. WellFormed(S) /\ Aside(L, S) /\ S.book = L.book /\ S.closed = L.closed
  <2>1. Aside(L, S) /\ S.closed = L.closed
    BY DEF Spend, Aside, WellFormed, Ledger
  <2> QED BY <2>1, SpendWellFormed
<1> HIDE DEF S
<1>2. WellFormed(C) /\ C.book = S.book /\ C.seen = S.seen
  BY <1>1, CommitFillWellFormed
<1>3. /\ C.executed = [S.executed EXCEPT ![id] = @ + q]
      /\ C.position = S.position + Terms[id].side * q
      /\ C.closed = S.closed
  BY <1>1 DEF CommitFill, WellFormed, Ledger
<1>4. L.executed \in [Id -> Nat]
  BY DEF WellFormed, Ledger
<1> HIDE DEF C
<1>5. q > 0 => C.executed[id] > 0
  BY <1>1, <1>3, <1>4 DEF Aside
<1> QED BY <1>1, <1>2, <1>3, <1>5 DEF Aside, S, C

\* What is planned never outruns what a reduce-only order may close.
LEMMA CapReduces ==
  ASSUME NEW L, WellFormed(L), NEW id \in Id, NEW n \in Nat, NEW q \in Nat,
         q <= Cap(L, id, n), Terms[id].reduceOnly, q > 0
  PROVE  q <= -(L.position * Terms[id].side)
BY TermsType DEF Cap, WellFormed, Ledger

LEMMA TriggerTakeActs ==
  ASSUME NEW L, WellFormed(L), NEW id \in Id, OnBook(L, id), ~Waiting(L, id),
         L.book[id].leaves > 0, NEW m \in Market
  PROVE  \E q \in Nat : Acts(L, TriggerTake(L, id, m), id, q)
<1> DEFINE o       == L.book[id]
           S       == Spend(L, PartialFill(id))
           planned == Planned(L, id, o.leaves)
           cap     == Cap(L, id, o.leaves)
           q       == Lesser(Lesser(planned, cap), m.depth)
           C       == CommitFill(S, id, q)
           T       == Take(C, id)
           left    == [o EXCEPT !.leaves = @ - q]
           Z       == SettleTriggered(T, id, left, cap < planned)
           M       == Linkage(Z, id, q)
           rested  == [o EXCEPT !.resting = "limit", !.px = @ + 1, !.rev = @ + 1]
<1>1. o \in Order /\ Fit(o) /\ o.leaves \in Nat /\ o.qty \in Nat /\ id \in L.seen
  BY BookFits DEF Fit, Order, WellFormed, WellFormedAt
<1>2. q \in Nat /\ q <= o.leaves /\ q <= cap
  <2>1. planned \in Nat /\ planned <= o.leaves /\ cap \in Nat /\ m.depth \in Nat
    BY <1>1, PlannedBounded, CapType DEF Market
  <2> HIDE DEF planned, cap, o
  <2> QED BY <1>1, <2>1 DEF Lesser
<1>3. /\ WellFormed(S) /\ Aside(L, S) /\ S.book = L.book /\ S.closed = L.closed
      /\ WellFormed(C) /\ C.book = L.book /\ C.closed = L.closed
      /\ C.seen = L.seen
      /\ C.executed = [L.executed EXCEPT ![id] = @ + q]
      /\ C.position = L.position + Terms[id].side * q
      /\ q > 0 => C.executed[id] > 0
  BY <1>2, CommitFillAside
<1>4. Alike(L, S, id) /\ S.seen = L.seen /\ OnBook(S, id)
  BY <1>3 DEF Alike, Aside, WorkedOff, OnBook
<1>5. Acts(L, CloseOut(S, id, o, "canceled"), id, 0)
  BY <1>3, <1>4, CloseOutActs
<1>6. Acts(L, Put(S, id, rested), id, 0)
  <2> HIDE DEF S
  <2> QED BY <1>3, <1>4, PromotedActs
<1>7. /\ Terms[id].reduceOnly /\ q > 0 => q <= -(L.position * Terms[id].side)
  <2> HIDE DEF q, o
  <2> QED BY <1>1, <1>2, CapReduces
<1> DEFINE capped == cap < planned
<1> HIDE DEF S, planned, cap, q, rested
<1>8. /\ WellFormed(T) /\ ~OnBook(T, id) /\ id \in T.seen
      /\ Aside(C, T) /\ T.closed = L.closed
      /\ \A i \in Id \ {id} : T.book[i] = L.book[i]
  <2> HIDE DEF C
  <2> QED BY <1>1, <1>3, TakeWellFormed, TakeAside DEF Aside
<1>9. /\ Fit(left) /\ left.resting = o.resting /\ left.rev = o.rev
      /\ Worked(left) = Worked(o) + q
  <2>1. o.leaves - q \in Nat /\ o.leaves - q <= o.qty
    BY <1>1, <1>2 DEF Fit, Order
  <2> HIDE DEF o
  <2>2. left \in Order /\ left.leaves = o.leaves - q /\ left.qty = o.qty
        /\ left.resting = o.resting /\ left.rev = o.rev
    BY <1>1, <2>1 DEF Order
  <2> HIDE DEF left
  <2>3. Worked(left) = Worked(o) + q
    BY <1>1, <1>2, <2>2 DEF Worked
  <2> QED BY <2>1, <2>2, <2>3 DEF Fit
<1>10. left.resting \notin {"absent", "held"}
  BY <1>9 DEF OnBook, Waiting
<1> HIDE DEF T, left, C, capped
<1>11. /\ WellFormed(Z) /\ Aside(T, Z) /\ \A i \in Id \ {id} : Moves(T, Z, i)
       /\ OnBook(Z, id) =>
            /\ Worked(Z.book[id]) = Worked(left) /\ Z.book[id].leaves > 0
            /\ ~Waiting(Z, id) /\ Z.book[id].rev > left.rev
            /\ Terms[id].class # "stop" => Z.closed[id] = T.closed[id]
       /\ ~OnBook(Z, id) => Z.closed[id].status # "open"
       /\ ~Waiting(Z, id)
  <2>1. Z = SettleTriggered(T, id, left, capped)
    BY DEF capped
  <2> HIDE DEF Z
  <2> QED BY <1>8, <1>9, <1>10, <2>1, SettleTriggeredMoves, SettleTriggeredWellFormed
<1> HIDE DEF Z
<1>12. ASSUME q > 0 PROVE Acts(L, M, id, q)
  <2>1. Z.executed[id] > 0
    BY <1>3, <1>8, <1>11, <1>12 DEF Aside
  <2>2. /\ WellFormed(M) /\ Aside(Z, M) /\ \A i \in Id : Moves(Z, M, i)
        /\ Spared(Z, M, id)
    BY <1>2, <1>11, <2>1, LinkageMoves, LinkageWellFormed
  <2> HIDE DEF M
  <2>3. ASSUME NEW i \in Id \ {id} PROVE Moves(L, M, i)
    <3>1. Moves(T, M, i)
      BY <1>8, <1>11, <2>2, MovesTransitive DEF Aside
    <3> QED BY <1>8, <3>1 DEF Moves, OnBook, Waiting
  <2>4. /\ M.executed = [L.executed EXCEPT ![id] = @ + q]
        /\ M.position = L.position + Terms[id].side * q
        /\ M.seen = L.seen
    BY <1>3, <1>8, <1>11, <2>2 DEF Aside
  <2>5. M.book[id] = Z.book[id] /\ M.closed[id] = Z.closed[id]
    BY <2>2 DEF Spared
  <2>6. Worked(L.book[id]) \in Nat
    BY <1>1 DEF Worked, Fit
  <2>7. OnBook(M, id) =>
          /\ Worked(M.book[id]) = Worked(L.book[id]) + q /\ M.book[id].leaves > 0
          /\ ~Waiting(M, id) /\ M.book[id].rev > L.book[id].rev
          /\ Terms[id].class # "stop" => M.closed[id] = L.closed[id]
    BY <1>8, <1>9, <1>11, <2>5 DEF OnBook, Waiting
  <2>8. ~OnBook(M, id) => M.closed[id].status # "open"
    BY <1>11, <2>5 DEF OnBook
  <2>9. Worked(L.book[id]) + q > 0
    BY <1>2, <1>12, <2>6
  <2>10. Deals(L, M, id, q)
    BY <1>2, <1>7, <2>3, <2>4, <2>7, <2>8, <2>9 DEF Deals, WorkedOff
  <2> QED BY <2>4, <2>7, <2>10 DEF Acts
<1>13. \/ TriggerTake(L, id, m) \in {Put(S, id, rested), CloseOut(S, id, o, "canceled")}
       \/ q # 0 /\ TriggerTake(L, id, m) = M
  BY DEF TriggerTake, S, rested, q, planned, cap, Z, T, C, left
<1>14. q # 0 => q > 0
  BY <1>2
<1> HIDE DEF M, o
<1> QED BY <1>2, <1>5, <1>6, <1>12, <1>13, <1>14

LEMMA TriggerActs ==
  ASSUME NEW L, WellFormed(L), NEW id \in Id, OnBook(L, id), ~Waiting(L, id),
         L.book[id].leaves > 0, NEW m \in Market
  PROVE  \E q \in Nat : Acts(L, Trigger(L, id, m), id, q)
<1> DEFINE o == L.book[id]
           S == Spend(L, PartialFill(id))
           rested == [o EXCEPT !.resting = "limit", !.px = @ + 1, !.rev = @ + 1]
<1>1. Alike(L, L, id)
  BY DEF Alike
<1>2. /\ WellFormed(S) /\ Alike(L, S, id) /\ S.seen = L.seen /\ S.book = L.book
      /\ OnBook(S, id)
  <2>1. /\ WellFormed(S) /\ Aside(L, S) /\ S.book = L.book /\ S.closed = L.closed
    BY CommitFillAside
  <2> HIDE DEF S
  <2> QED BY <2>1 DEF Alike, Aside, WorkedOff, OnBook
<1>3. Acts(L, CloseOut(L, id, o, "canceled"), id, 0)
  BY <1>1, CloseOutActs
<1>4. Acts(L, CloseOut(S, id, o, "canceled"), id, 0)
  <2>1. o = S.book[id]
    BY <1>2
  <2> HIDE DEF S, o
  <2> QED BY <1>2, <2>1, CloseOutActs
<1>5. Acts(L, Put(L, id, rested), id, 0)
  BY <1>1, PromotedActs
<1>6. Acts(L, CloseUnrested(Take(L, id), id, o, "rejected"), id, 0)
  <2> DEFINE M == CloseOut(L, id, o, "rejected")
  <2>1. Deals(L, M, id, 0) /\ ~OnBook(M, id) /\ M.seen = L.seen
    BY CloseOutDeals
  <2>2. M = CloseUnrested(Take(L, id), id, o, "rejected")
    BY DEF CloseOut
  <2> HIDE DEF M
  <2> QED BY <2>1, <2>2 DEF Acts
<1>7. Trigger(L, id, m) \in
        {CloseOut(L, id, o, "canceled"), CloseOut(S, id, o, "canceled"),
         Put(L, id, rested), CloseUnrested(Take(L, id), id, o, "rejected"),
         TriggerTake(L, id, m)}
  BY DEF Trigger
<1> HIDE DEF o, S, rested
<1> QED BY <1>3, <1>4, <1>5, <1>6, <1>7, TriggerTakeActs DEF o

LEMMA ActivateActs ==
  ASSUME NEW L, WellFormed(L), NEW id \in Id, OnBook(L, id),
         L.book[id].leaves > 0, NEW funded \in BOOLEAN
  PROVE  Acts(L, Activate(L, id, funded), id, 0)
<1>1. Alike(L, L, id)
  BY DEF Alike
<1>2. Acts(L, CloseOut(L, id, L.book[id], "canceled"), id, 0)
  BY <1>1, CloseOutActs
<1>3. Acts(L, Put(L, id, [L.book[id] EXCEPT !.resting = "conditional",
                                            !.px = @ + 1, !.rev = @ + 1]), id, 0)
  BY <1>1, PromotedActs
<1> QED BY <1>2, <1>3 DEF Activate

LEMMA SweepFillActs ==
  ASSUME NEW L, WellFormed(L), NEW id \in Id, OnBook(L, id), ~Waiting(L, id),
         L.book[id].leaves > 0, NEW funded
  PROVE  \E q \in Nat : Acts(L, SweepFill(L, id, funded), id, q)
<1> DEFINE o       == L.book[id]
           S       == Spend(L, PartialFill(id))
           planned == Planned(L, id, o.leaves)
           cap     == Cap(L, id, o.leaves)
           q       == Lesser(planned, cap)
           C       == CommitFill(S, id, q)
           F       == IF q > 0 THEN Linkage(C, id, q) ELSE S
           r       == F.book[id]
           partial == [r EXCEPT !.leaves = o.leaves - q, !.rev = @ + 1,
                                !.px = IF q > 0 THEN @ + 1 ELSE @]
           P       == Put(F, id, partial)
<1>1. o \in Order /\ Fit(o) /\ o.leaves \in Nat /\ o.qty \in Nat /\ o.rev \in Nat
      /\ Worked(o) \in Nat
  BY BookFits DEF Fit, Order, Worked
<1>2. q \in Nat /\ q <= o.leaves /\ q <= cap
  <2>1. planned \in Nat /\ planned <= o.leaves /\ cap \in Nat
    BY <1>1, PlannedBounded, CapType
  <2> HIDE DEF planned, cap, o
  <2> QED BY <1>1, <2>1 DEF Lesser
<1>3. /\ WellFormed(S) /\ Aside(L, S) /\ S.book = L.book /\ S.closed = L.closed
      /\ WellFormed(C) /\ C.book = L.book /\ C.closed = L.closed
      /\ C.seen = L.seen
      /\ C.executed = [L.executed EXCEPT ![id] = @ + q]
      /\ C.position = L.position + Terms[id].side * q
      /\ q > 0 => C.executed[id] > 0
  BY <1>2, CommitFillAside
<1>4. Terms[id].reduceOnly /\ q > 0 => q <= -(L.position * Terms[id].side)
  <2> HIDE DEF q, o
  <2> QED BY <1>1, <1>2, CapReduces
<1>5. Acts(L, CloseOut(S, id, o, "canceled"), id, 0)
  <2>1. Alike(L, S, id) /\ S.seen = L.seen /\ OnBook(S, id) /\ S.book[id] = o
    BY <1>3 DEF Alike, Aside, WorkedOff, OnBook
  <2> HIDE DEF S, o
  <2> QED BY <1>3, <2>1, CloseOutActs
<1> HIDE DEF planned, cap, q, C
<1>6. /\ WellFormed(F) /\ F.seen = L.seen
      /\ F.executed = [L.executed EXCEPT ![id] = @ + q]
      /\ F.position = L.position + Terms[id].side * q
      /\ F.closed[id] = L.closed[id] /\ r = o
      /\ \A i \in Id \ {id} : Moves(L, F, i)
  <2>1. CASE q > 0
    <3>1. ~Waiting(C, id) /\ C.executed[id] > 0
      BY <1>3, <2>1 DEF Waiting
    <3>2. /\ WellFormed(F) /\ Aside(C, F) /\ Spared(C, F, id)
          /\ \A i \in Id : Moves(C, F, i)
      BY <1>2, <1>3, <2>1, <3>1, LinkageMoves, LinkageWellFormed
    <3> HIDE DEF F
    <3>3. ASSUME NEW i \in Id PROVE Moves(L, F, i)
      BY <1>3, <3>2 DEF Moves, OnBook, Waiting
    <3> QED BY <1>3, <3>2, <3>3 DEF Aside, Spared
  <2>2. CASE q = 0
    <3>1. F = S
      BY <2>2
    <3>2. \A i \in Id : Moves(L, S, i)
      BY <1>3, MovesSpared DEF Spared
    <3>3. /\ L.executed = [L.executed EXCEPT ![id] = @ + q]
          /\ L.position = L.position + Terms[id].side * q
      <4>1. L.executed \in [Id -> Nat] /\ L.position \in Int
        BY DEF WellFormed, Ledger
      <4> QED BY <2>2, <4>1, TermsType
    <3> HIDE DEF F, S
    <3> QED BY <1>3, <3>1, <3>2, <3>3 DEF Aside
  <2> QED BY <1>2, <2>1, <2>2
<1>7. OnBook(F, id)
  BY <1>6 DEF OnBook
<1> DEFINE Out(s) == CloseOut(F, id, r, s)
<1> HIDE DEF F
<1>8. ASSUME NEW s \in {"filled", "canceled"}, s = "filled" => q = o.leaves
      PROVE  Acts(L, Out(s), id, q)
  <2> DEFINE M == Out(s)
  <2>1. s \in Statuses /\ Fit(r)
    BY <1>1, <1>6 DEF Statuses
  <2>2. /\ Aside(F, M) /\ ~OnBook(M, id) /\ WellFormed(M)
        /\ \A i \in Id \ {id} : Moves(F, M, i)
        /\ M.closed[id] = [status |-> s, filled |-> Worked(r)]
    <3> HIDE DEF r
    <3> QED BY <1>6, <2>1, CloseOutMoves
  <2> HIDE DEF M
  <2>3. \A i \in Id \ {id} : Moves(L, M, i)
    BY <1>6, <2>2, MovesTransitive DEF Aside
  <2>4. M.closed[id].status = s /\ M.closed[id].filled = Worked(o)
    BY <1>6, <2>2
  <2>5. TellsFill(M.closed[id]) => Worked(o) + q > 0
    BY <1>1, <1>2, <1>8, <2>4 DEF TellsFill
  <2>6. M.closed[id].status # "open"
    BY <2>4
  <2>7. /\ M.executed = [L.executed EXCEPT ![id] = @ + q]
        /\ M.position = L.position + Terms[id].side * q
        /\ M.seen = L.seen
    BY <1>6, <2>2 DEF Aside
  <2>8. Deals(L, M, id, q)
    BY <1>2, <1>4, <2>2, <2>3, <2>5, <2>6, <2>7 DEF Deals, WorkedOff
  <2>9. Acts(L, M, id, q)
    BY <2>2, <2>7, <2>8 DEF Acts
  <2> QED BY <2>9 DEF M
<1>9. ASSUME q # o.leaves PROVE Acts(L, P, id, q)
  <2>1. /\ partial.resting = o.resting /\ partial.rev = o.rev + 1
        /\ partial.leaves = o.leaves - q /\ partial.qty = o.qty
    <3> HIDE DEF o
    <3> QED BY <1>1, <1>6 DEF Order
  <2>2. Worked(partial) = Worked(o) + q /\ partial.leaves > 0 /\ partial.rev > o.rev
    <3> HIDE DEF partial, o
    <3> QED BY <1>1, <1>2, <1>9, <2>1 DEF Worked
  <2> HIDE DEF partial
  <2>3. /\ Aside(F, P) /\ P.closed = F.closed /\ P.book[id] = partial
        /\ \A i \in Id \ {id} : Spared(F, P, i)
    BY <1>6 DEF Put, Aside, Spared, WellFormed, Ledger
  <2> HIDE DEF P
  <2>4. ASSUME NEW i \in Id \ {id} PROVE Moves(L, P, i)
    <3>1. Moves(L, F, i) /\ Spared(F, P, i) /\ P.executed = F.executed
      BY <1>6, <2>3 DEF Aside
    <3> QED BY <3>1 DEF Moves, Spared, OnBook, Waiting
  <2>5. OnBook(P, id) /\ ~Waiting(P, id)
    BY <2>1, <2>3 DEF OnBook, Waiting
  <2>6. P.closed[id] = L.closed[id]
    BY <1>6, <2>3
  <2>7. /\ P.executed = [L.executed EXCEPT ![id] = @ + q]
        /\ P.position = L.position + Terms[id].side * q
        /\ P.seen = L.seen
    BY <1>6, <2>3 DEF Aside
  <2>8. /\ Worked(P.book[id]) = Worked(L.book[id]) + q /\ P.book[id].leaves > 0
        /\ P.book[id].rev > L.book[id].rev
    BY <2>2, <2>3
  <2>9. Deals(L, P, id, q)
    BY <1>2, <1>4, <2>4, <2>5, <2>6, <2>7, <2>8 DEF Deals, WorkedOff
  <2> QED BY <2>5, <2>7, <2>8, <2>9 DEF Acts
<1>10. \/ SweepFill(L, id, funded) = CloseOut(S, id, o, "canceled")
       \/ q = o.leaves /\ SweepFill(L, id, funded) = Out("filled")
       \/ SweepFill(L, id, funded) = Out("canceled")
       \/ q # o.leaves /\ SweepFill(L, id, funded) = P
  BY <1>7 DEF SweepFill, F, C, q, planned, cap
<1> HIDE DEF Out, P, S, o
<1> QED BY <1>2, <1>5, <1>8, <1>9, <1>10
----------------------------------------------------------------------------
(* The engine.                                                             *)

IInv == /\ WellFormed(ledger)
        /\ group \in Group
        /\ walks \in [Walker -> Walk]
        /\ \A w \in Walker : walks[w] # NoWalk => walks[w].id \in Id

LEMMA InitIInv == Init => IInv
<1> SUFFICES ASSUME Init PROVE IInv
  OBVIOUS
<1>1. WellFormed(ledger)
  BY EmptyWellFormed DEF Init
<1>2. group \in Group
  BY DEF Init, Idle, Group
<1>3. /\ walks \in [Walker -> Walk]
      /\ \A w \in Walker : walks[w] = NoWalk
  BY DEF Init, NoWalk, Walk, Restings
<1> QED BY <1>1, <1>2, <1>3 DEF IInv

LEMMA IInvImplies == IInv => TypeOK /\ HoldsExact
BY DEF IInv, TypeOK, HoldsExact, WellFormed, WellFormedAt

----------------------------------------------------------------------------
(* Submits.                                                                *)

\* The end of a submit keeps the invariant whatever well-formed ledger the
\* handler made of it.
LEMMA SubmittedIInv ==
  ASSUME IInv, NEW id \in Id, NEW L, WellFormed(L), NEW booked \in Nat,
         Submitted(id, L, booked)
  PROVE  IInv'
<1>1. ledger' = L /\ walks' = walks
  BY DEF Submitted
<1>2. group' \in Group
  <2>1. CASE ~Member
    BY <2>1 DEF Submitted, IInv
  <2>2. CASE Member
    <3>1. group.todo \in Seq(Id) /\ group.todo # <<>>
      BY <2>2 DEF IInv, Group, Member
    <3>2. Tail(group.todo) \in Seq(Id)
      BY <3>1, HeadTailProperties
    <3>3. /\ group.filled \in Seq([id : Id, qty : Nat])
          /\ [id |-> id, qty |-> booked] \in [id : Id, qty : Nat]
      BY DEF IInv, Group
    <3>4. Append(group.filled, [id |-> id, qty |-> booked]) \in Seq([id : Id, qty : Nat])
      BY <3>3, AppendProperties
    <3> QED BY <2>2, <3>2, <3>3, <3>4 DEF Submitted, IInv, Group
  <2> QED BY <2>1, <2>2
<1> QED BY <1>1, <1>2 DEF IInv

LEMMA NewOrderFits ==
  ASSUME NEW id \in Id, NEW r \in Restings
  PROVE  Fit(NewOrder(id, r))
BY TermsType DEF Fit, NewOrder, Order

\* An admissible order is not on the book: accepting it takes no slot that
\* another order holds.
LEMMA AcceptedRests ==
  ASSUME IInv, NEW id \in Id, Admissible(id), NEW r \in Restings
  PROVE  /\ WellFormed(Accept(ledger, id)) /\ ~OnBook(Accept(ledger, id), id)
         /\ id \in Accept(ledger, id).seen
         /\ WellFormed(Rest(Accept(ledger, id), id, NewOrder(id, r)))
<1>1. WellFormed(ledger) /\ ~OnBook(ledger, id)
  BY DEF IInv, Admissible, WellFormed, WellFormedAt
<1>2. /\ WellFormed(Accept(ledger, id)) /\ ~OnBook(Accept(ledger, id), id)
      /\ id \in Accept(ledger, id).seen
  BY <1>1, AcceptWellFormed DEF OnBook
<1> QED BY <1>2, NewOrderFits, RestWellFormed

LEMMA MarketInputs ==
  /\ \A funded \in Funded : funded \in BOOLEAN
  /\ \A depth \in 0..MaxDepth : depth \in Nat
<1>1. \A funded \in Funded : funded \in BOOLEAN
  BY Zenon DEF Funded
<1>2. \A depth \in 0..MaxDepth : depth \in Nat
  BY BookAssumption
<1> QED BY <1>1, <1>2

LEMMA ArriveHeldIInv ==
  ASSUME IInv, NEW id \in Id, Admissible(id), ArriveHeld(id)
  PROVE  IInv'
BY AcceptedRests, SubmittedIInv DEF ArriveHeld, Restings

LEMMA ArriveConditionalIInv ==
  ASSUME IInv, NEW id \in Id, Admissible(id), ArriveConditional(id)
  PROVE  IInv'
<1> DEFINE R == Rest(Accept(ledger, id), id, NewOrder(id, LiveResting(id)))
<1>1. LiveResting(id) \in Restings /\ LiveResting(id) # "absent"
  BY DEF LiveResting, Restings
<1>2. WellFormed(R) /\ OnBook(R, id)
  <2>1. WellFormed(R)
    BY <1>1, AcceptedRests
  <2>2. R.book[id] = NewOrder(id, LiveResting(id))
    BY DEF Rest, Accept, IInv, WellFormed, Ledger
  <2> QED BY <1>1, <2>1, <2>2 DEF OnBook, NewOrder
<1>3. CASE Submitted(id, R, 0)
  BY <1>2, <1>3, SubmittedIInv
<1>4. ASSUME NEW reached \in BOOLEAN, NEW depth \in 0..MaxDepth, NEW funded \in Funded,
             Submitted(id,
               IF Terms[id].trail THEN Activate(R, id, funded)
               ELSE Trigger(R, id, [live |-> TRUE, reached |-> reached,
                                    depth |-> depth, funded |-> funded]),
               0)
      PROVE  IInv'
  <2>1. funded \in BOOLEAN /\ depth \in Nat
    BY MarketInputs
  <2> DEFINE m == [live |-> TRUE, reached |-> reached, depth |-> depth, funded |-> funded]
  <2>2. m \in Market
    BY <2>1 DEF Market
  <2> HIDE DEF R, m
  <2>3. WellFormed(Activate(R, id, funded)) /\ WellFormed(Trigger(R, id, m))
    BY <1>2, <2>1, <2>2, ActivateWellFormed, TriggerWellFormed
  <2>4. WellFormed(IF Terms[id].trail THEN Activate(R, id, funded) ELSE Trigger(R, id, m))
    BY <2>3
  <2> QED BY <1>4, <2>4, SubmittedIInv DEF m
<1> QED BY <1>3, <1>4 DEF ArriveConditional

LEMMA ArriveRestingIInv ==
  ASSUME IInv, NEW id \in Id, Admissible(id), ArriveResting(id)
  PROVE  IInv'
<1> DEFINE o == NewOrder(id, "limit")
           A == Accept(ledger, id)
           spent  == Spend(ledger, PartialFill(id))
           lapsed == CloseUnrested(A, id, o, "canceled")
           rested == Rest(A, id, o)
           L == CASE Terms[id].tif = "fok" -> spent
                  [] Terms[id].tif = "ioc" -> lapsed
                  [] OTHER -> rested
<1>1. WellFormed(spent)
  BY SpendWellFormed DEF IInv
<1>2. WellFormed(lapsed) /\ WellFormed(rested)
  BY AcceptedRests, NewOrderFits, CloseUnrestedWellFormed DEF Restings, Statuses
<1>3. L \in {spent, lapsed, rested}
  OBVIOUS
<1>4. Submitted(id, L, 0)
  BY DEF ArriveResting
<1> HIDE DEF L, spent, lapsed, rested
<1> QED BY <1>1, <1>2, <1>3, <1>4, SubmittedIInv

LEMMA SettleTakenWellFormed ==
  ASSUME NEW L, WellFormed(L), NEW id \in Id, ~OnBook(L, id), id \in L.seen,
         NEW o, Fit(o), NEW lapses
  PROVE  WellFormed(SettleTaken(L, id, o, lapses))
BY CloseUnrestedWellFormed, RestWellFormed DEF SettleTaken, Statuses

LEMMA ArriveTakingIInv ==
  ASSUME IInv, NEW id \in Id, Admissible(id), ArriveTaking(id)
  PROVE  IInv'
<1>1. PICK depth \in 0..MaxDepth, funded \in Funded :
       LET o       == NewOrder(id, "limit")
           S       == Spend(ledger, PartialFill(id))
           planned == Planned(ledger, id, o.qty)
           cap     == Cap(ledger, id, o.qty)
           q       == Lesser(Lesser(planned, cap), depth)
           refused == (q > 0 /\ ~funded) \/ (Terms[id].tif = "fok" /\ depth < o.qty)
           F       == IF q = 0 THEN Accept(S, id)
                      ELSE CommitFill(Accept(S, id), id, q)
           lapses  == \/ cap = 0 \/ cap < planned
                      \/ Terms[id].class = "market"
                      \/ Terms[id].tif \in {"ioc", "fok"}
           rest    == [o EXCEPT !.leaves = @ - q, !.px = IF q > 0 THEN 1 ELSE 0]
       IN  \/ refused /\ Submitted(id, S, 0)
           \/ /\ ~refused
              /\ Submitted(id,
                   SettleTaken(IF q > 0 /\ ~Member THEN Linkage(F, id, q) ELSE F,
                               id, rest, lapses),
                   q)
  BY Zenon DEF ArriveTaking
<1> DEFINE o       == NewOrder(id, "limit")
           S       == Spend(ledger, PartialFill(id))
           planned == Planned(ledger, id, o.qty)
           cap     == Cap(ledger, id, o.qty)
           q       == Lesser(Lesser(planned, cap), depth)
           A       == Accept(S, id)
           F       == IF q = 0 THEN A ELSE CommitFill(A, id, q)
           M       == IF q > 0 /\ ~Member THEN Linkage(F, id, q) ELSE F
           lapses  == \/ cap = 0 \/ cap < planned
                      \/ Terms[id].class = "market"
                      \/ Terms[id].tif \in {"ioc", "fok"}
           rest    == [o EXCEPT !.leaves = @ - q, !.px = IF q > 0 THEN 1 ELSE 0]
           L       == SettleTaken(M, id, rest, lapses)
<1>2. Fit(o) /\ o.qty \in Nat /\ o.leaves = o.qty
  BY NewOrderFits DEF Restings, Fit, Order, NewOrder
<1>3. q \in Nat /\ q <= o.qty
  <2>1. depth \in Nat
    BY MarketInputs
  <2>2. planned \in Nat /\ planned <= o.qty /\ cap \in Nat
    BY <1>2, PlannedBounded, CapType DEF IInv
  <2> HIDE DEF planned, cap, o
  <2> QED BY <1>2, <2>1, <2>2, LeastOfThree
<1>4. WellFormed(S) /\ ~OnBook(S, id)
  BY SpendWellFormed DEF IInv, Admissible, WellFormed, WellFormedAt, OnBook
<1>5. WellFormed(A) /\ ~OnBook(A, id) /\ id \in A.seen
  <2> HIDE DEF S
  <2> QED BY <1>4, AcceptWellFormed DEF OnBook
<1> HIDE DEF q, A
<1>6. WellFormed(F) /\ ~OnBook(F, id) /\ id \in F.seen
  BY <1>3, <1>5, CommitFillWellFormed DEF OnBook
<1>7. WellFormed(M) /\ ~OnBook(M, id) /\ id \in M.seen
  <2> HIDE DEF F
  <2> QED BY <1>3, <1>6, LinkageWellFormed, LinkageAddsNothing
<1>8. Fit(rest)
  <2>1. o.leaves - q \in Nat /\ o.leaves - q <= o.qty
    BY <1>2, <1>3
  <2> HIDE DEF o
  <2> QED BY <1>2, <2>1 DEF Fit, Order
<1>9. WellFormed(L)
  <2> HIDE DEF M, rest, lapses
  <2> QED BY <1>7, <1>8, SettleTakenWellFormed
<1>10. Submitted(id, S, 0) \/ Submitted(id, L, q)
  BY <1>1 DEF q, A
<1> HIDE DEF S, L
<1> QED BY <1>3, <1>4, <1>9, <1>10, SubmittedIInv

LEMMA SubmitIInv ==
  ASSUME IInv, NEW id \in Id, Submit(id)
  PROVE  IInv'
<1>1. Admissible(id)
  BY DEF Submit
<1>2. CASE ArmedReject(id)
  BY <1>2, SpendWellFormed, SubmittedIInv DEF ArmedReject, IInv
<1>3. CASE ArriveBlind(id) \/ ArrivePostOnly(id)
  BY <1>3, SubmittedIInv DEF ArriveBlind, ArrivePostOnly, IInv
<1> QED BY <1>1, <1>2, <1>3, ArriveHeldIInv, ArriveConditionalIInv,
           ArriveRestingIInv, ArriveTakingIInv DEF Submit
----------------------------------------------------------------------------
(* Groups, cancels, amends and walks.                                      *)

LEMMA GroupSubmitIInv ==
  ASSUME IInv, NEW f \in Frames, GroupSubmit(f)
  PROVE  IInv'
<1>1. WellFormed(ledger') /\ walks' = walks
  BY SpendWellFormed DEF GroupSubmit, IInv
<1>2. group' \in Group
  <2>1. CASE UNCHANGED group
    BY <2>1 DEF IInv
  <2>2. ASSUME NEW blind \in BOOLEAN,
               group' = [frame |-> FrameIds(f), todo |-> f, filled |-> <<>>,
                         blind |-> blind]
        PROVE  group' \in Group
    <3>1. f \in Seq(Id)
      BY BookAssumption
    <3>2. FrameIds(f) \subseteq Id
      BY <3>1 DEF FrameIds
    <3>3. <<>> \in Seq([id : Id, qty : Nat])
      OBVIOUS
    <3> HIDE DEF FrameIds
    <3> QED BY <2>2, <3>1, <3>2, <3>3 DEF Group
  <2> QED BY <2>1, <2>2 DEF GroupSubmit
<1> QED BY <1>1, <1>2 DEF IInv

LEMMA MemberRefusedIInv ==
  ASSUME IInv, NEW id \in Id, MemberRefused(id)
  PROVE  IInv'
BY SubmittedIInv DEF MemberRefused, IInv

LEMMA GroupCloseIInv ==
  ASSUME IInv, GroupClose
  PROVE  IInv'
<1>1. CASE group.filled = <<>>
  <2>1. group' = Idle /\ ledger' = ledger /\ walks' = walks
    BY <1>1 DEF GroupClose
  <2>2. Idle \in Group
    BY DEF Idle, Group
  <2> QED BY <2>1, <2>2 DEF IInv
<1>2. CASE group.filled # <<>>
  <2> DEFINE h == Head(group.filled)
  <2>1. group.filled \in Seq([id : Id, qty : Nat])
    BY DEF IInv, Group
  <2>2. h \in [id : Id, qty : Nat] /\ Tail(group.filled) \in Seq([id : Id, qty : Nat])
    BY <1>2, <2>1, HeadTailProperties
  <2>3. /\ ledger' = Linkage(ledger, h.id, h.qty) /\ walks' = walks
        /\ group' = [group EXCEPT !.filled = Tail(@)]
    BY <1>2 DEF GroupClose
  <2>4. WellFormed(ledger')
    <3> HIDE DEF h
    <3> QED BY <2>2, <2>3, LinkageWellFormed DEF IInv
  <2>5. group' \in Group
    BY <2>2, <2>3 DEF IInv, Group
  <2> QED BY <2>3, <2>4, <2>5 DEF IInv
<1> QED BY <1>1, <1>2

\* A cancel, a venue cancel or an expiry.
LEMMA CloseIInv ==
  ASSUME IInv, NEW id \in Id, Cancel(id) \/ VenueCancel(id) \/ Expire(id)
  PROVE  IInv'
<1>1. Fit(ledger.book[id])
  BY BookFits DEF IInv
<1>2. /\ WellFormed(CloseOut(ledger, id, ledger.book[id], "canceled"))
      /\ WellFormed(CloseOut(ledger, id, ledger.book[id], "expired"))
      /\ WellFormed(Spend(ledger, RejectCancel))
  BY <1>1, CloseOutWellFormed, SpendWellFormed DEF IInv, Statuses
<1>3. WellFormed(ledger') /\ group' = group /\ walks' = walks
  BY <1>2 DEF Cancel, VenueCancel, Expire
<1> QED BY <1>3 DEF IInv

LEMMA ModifyIInv ==
  ASSUME IInv, NEW id \in Id, NEW qty \in Nat, NEW newLevel \in BOOLEAN,
         Modify(id, qty, newLevel)
  PROVE  IInv'
<1> DEFINE o == ledger.book[id]
           px == IF newLevel THEN o.px + 1 ELSE o.px
<1>1. /\ OnBook(ledger, id) /\ qty > Filled(o)
      /\ ledger' = Put(ledger, id, Amended(o, qty, newLevel))
      /\ group' = group /\ walks' = walks
  BY DEF Modify, Holds
<1>2. Fit(o)
  BY BookFits DEF IInv
<1>3. Fit(Amended(o, qty, newLevel))
  <2>1. /\ qty - Filled(o) \in Nat /\ qty - Filled(o) <= qty
        /\ o.rev + 1 \in Nat /\ px \in Nat /\ o \in Order
    <3> HIDE DEF o
    <3> QED BY <1>1, <1>2 DEF Fit, Order, Filled
  <2> HIDE DEF o
  <2> QED BY <2>1 DEF Fit, Order, Amended
<1>4. WellFormed(ledger')
  BY <1>1, <1>3, PutWellFormed DEF IInv
<1> QED BY <1>1, <1>4 DEF IInv

LEMMA RatchetIInv ==
  ASSUME IInv, NEW id \in Id, Ratchet(id)
  PROVE  IInv'
<1> DEFINE o == ledger.book[id]
<1>1. Fit(o)
  BY BookFits DEF IInv
<1>2. Fit(Ratcheted(o))
  <2>1. o.px + 1 \in Nat /\ o.rev + 1 \in Nat
    BY <1>1 DEF Fit, Order
  <2> HIDE DEF o
  <2> QED BY <1>1, <2>1 DEF Fit, Order, Ratcheted
<1>3. /\ OnBook(ledger, id) /\ ledger' = Put(ledger, id, Ratcheted(o))
      /\ group' = group /\ walks' = walks
  BY DEF Ratchet, Holds
<1>4. WellFormed(ledger')
  BY <1>2, <1>3, PutWellFormed DEF IInv
<1> QED BY <1>3, <1>4 DEF IInv

LEMMA ArmIInv ==
  ASSUME IInv, NEW arm \in Arms, ArmDivergence(arm)
  PROVE  IInv'
<1>1. /\ ledger' = [ledger EXCEPT !.armed = @ \cup {arm}]
      /\ group' = group /\ walks' = walks
  BY DEF ArmDivergence
<1>2. /\ ledger' \in Ledger /\ ledger'.book = ledger.book
      /\ ledger'.seen = ledger.seen /\ ledger'.holds = ledger.holds
  BY <1>1, BookAssumption DEF IInv, WellFormed, Ledger
<1>3. WellFormed(ledger')
  BY <1>2 DEF IInv, WellFormed, WellFormedAt, OnBook
<1> QED BY <1>1, <1>3 DEF IInv

\* Advancing a walked order's revision is all an empty walk does.
LEMMA AdvancedWellFormed ==
  ASSUME NEW L, WellFormed(L), NEW id \in Id, OnBook(L, id)
  PROVE  LET M == [L EXCEPT !.book[id].rev = @ + 1]
         IN  WellFormed(M) /\ OnBook(M, id)
<1> DEFINE o == L.book[id]
           M == [L EXCEPT !.book[id].rev = @ + 1]
<1>1. Fit(o) /\ o.rev + 1 \in Nat
  BY BookFits DEF Fit, Order
<1>2. [o EXCEPT !.rev = @ + 1] \in Order
  <2> HIDE DEF o
  <2> QED BY <1>1 DEF Fit, Order
<1>3. M = [L EXCEPT !.book[id] = [o EXCEPT !.rev = @ + 1]]
  OBVIOUS
<1>4. M \in Ledger
  BY <1>2, <1>3 DEF WellFormed, Ledger
<1>5. /\ \A i \in Id : /\ M.book[i].leaves = L.book[i].leaves
                       /\ M.book[i].qty = L.book[i].qty
                       /\ M.book[i].resting = L.book[i].resting
      /\ M.holds = L.holds /\ M.seen = L.seen
  BY DEF WellFormed, Ledger, Order
<1> HIDE DEF M
<1>6. ASSUME NEW i \in Id PROVE WellFormedAt(M, i)
  BY <1>5 DEF WellFormed, WellFormedAt, OnBook, HoldEntry
<1>7. WellFormed(M) /\ OnBook(M, id)
  BY <1>4, <1>5, <1>6 DEF WellFormed, OnBook
<1> QED BY <1>7 DEF M

LEMMA PlanScanIInv ==
  ASSUME IInv, NEW w \in Walker, NEW id \in Id, PlanScan(w, id)
  PROVE  IInv'
<1> DEFINE o == ledger.book[id]
           scan == [id |-> id, rev |-> o.rev, px |-> o.px, resting |-> o.resting]
<1>1. /\ walks' = [walks EXCEPT ![w] = scan] /\ ledger' = ledger /\ group' = group
  BY DEF PlanScan
<1>2. scan \in Walk
  BY BookFits DEF IInv, Fit, Order, Walk
<1> QED BY <1>1, <1>2 DEF IInv

LEMMA ReportedIInv ==
  ASSUME IInv, NEW w \in Walker, WellFormed(ledger'), Reported(w)
  PROVE  IInv'
<1>1. NoWalk \in Walk
  BY DEF NoWalk, Walk, Restings
<1> QED BY <1>1 DEF Reported, IInv

LEMMA WalkedId ==
  ASSUME IInv, NEW w \in Walker, Current(w)
  PROVE  walks[w].id \in Id /\ OnBook(ledger, walks[w].id)
BY DEF IInv, Current

LEMMA ScanMissIInv ==
  ASSUME IInv, NEW w \in Walker, ScanMiss(w)
  PROVE  IInv'
<1>1. walks[w].id \in Id /\ OnBook(ledger, walks[w].id)
  BY WalkedId DEF ScanMiss
<1>2. WellFormed(ledger')
  BY <1>1, AdvancedWellFormed DEF ScanMiss, IInv
<1> QED BY <1>2, ReportedIInv DEF ScanMiss

LEMMA ScanHitIInv ==
  ASSUME IInv, NEW w \in Walker, ScanHit(w)
  PROVE  IInv'
<1> DEFINE id == walks[w].id
           advanced == [ledger EXCEPT !.book[id].rev = @ + 1]
<1>1. id \in Id /\ OnBook(ledger, id)
  BY WalkedId DEF ScanHit
<1>2. ASSUME NEW live \in BOOLEAN, NEW reached \in BOOLEAN, NEW depth \in 0..MaxDepth,
             NEW funded \in Funded,
             ledger' = Trigger(ledger, id, [live |-> live, reached |-> reached,
                                            depth |-> depth, funded |-> funded])
      PROVE  WellFormed(ledger')
  <2> DEFINE m == [live |-> live, reached |-> reached, depth |-> depth, funded |-> funded]
  <2>1. m \in Market
    BY MarketInputs DEF Market
  <2> HIDE DEF id, m
  <2>2. WellFormed(Trigger(ledger, id, m))
    BY <1>1, <2>1, TriggerWellFormed DEF IInv
  <2> QED BY <1>2, <2>2 DEF m
<1>3. ASSUME NEW funded \in Funded, ledger' = Activate(ledger, id, funded)
      PROVE  WellFormed(ledger')
  BY <1>1, <1>3, MarketInputs, ActivateWellFormed DEF IInv
<1>4. ASSUME NEW funded \in Funded, ledger' = SweepFill(advanced, id, funded)
      PROVE  WellFormed(ledger')
  <2>1. WellFormed(advanced) /\ OnBook(advanced, id)
    BY <1>1, AdvancedWellFormed DEF IInv
  <2> HIDE DEF id, advanced
  <2> QED BY <1>1, <1>4, <2>1, SweepFillWellFormed
<1>5. WellFormed(ledger')
  BY <1>2, <1>3, <1>4 DEF ScanHit
<1> QED BY <1>5, ReportedIInv DEF ScanHit

LEMMA ScanVoidIInv ==
  ASSUME IInv, NEW w \in Walker, ScanStale(w) \/ ScanDropped(w)
  PROVE  IInv'
BY ReportedIInv DEF ScanStale, ScanDropped, IInv
----------------------------------------------------------------------------

LEMMA NextIInv ==
  ASSUME IInv, [Next]_vars
  PROVE  IInv'
<1>1. ASSUME NEW id \in Id, Submit(id) PROVE IInv'
  BY <1>1, SubmitIInv
<1>2. ASSUME NEW id \in Id, MemberRefused(id) PROVE IInv'
  BY <1>2, MemberRefusedIInv
<1>3. ASSUME NEW id \in Id, Cancel(id) \/ VenueCancel(id) \/ Expire(id) PROVE IInv'
  BY <1>3, CloseIInv
<1>4. ASSUME NEW id \in Id, Ratchet(id) PROVE IInv'
  BY <1>4, RatchetIInv
<1>5. ASSUME NEW id \in Id, NEW qty \in AmendTo \cup {ledger.book[id].qty},
             NEW newLevel \in BOOLEAN, Modify(id, qty, newLevel)
      PROVE  IInv'
  <2>1. Fit(ledger.book[id])
    BY BookFits DEF IInv
  <2>2. ledger.book[id].qty \in Nat
    BY <2>1 DEF Fit, Order
  <2>3. AmendTo \subseteq Nat
    BY BookAssumption
  <2>4. qty \in Nat
    BY <2>2, <2>3
  <2> QED BY <1>5, <2>4, ModifyIInv
<1>6. ASSUME NEW f \in Frames, GroupSubmit(f) PROVE IInv'
  BY <1>6, GroupSubmitIInv
<1>7. CASE GroupClose
  BY <1>7, GroupCloseIInv
<1>8. ASSUME NEW arm \in Arms, ArmDivergence(arm) PROVE IInv'
  BY <1>8, ArmIInv
<1>9. ASSUME NEW w \in Walker, NEW id \in Id, PlanScan(w, id) PROVE IInv'
  BY <1>9, PlanScanIInv
<1>10. ASSUME NEW w \in Walker, ScanMiss(w) PROVE IInv'
  BY <1>10, ScanMissIInv
<1>11. ASSUME NEW w \in Walker, ScanHit(w) PROVE IInv'
  BY <1>11, ScanHitIInv
<1>12. ASSUME NEW w \in Walker, ScanStale(w) \/ ScanDropped(w) PROVE IInv'
  BY <1>12, ScanVoidIInv
<1>13. CASE UNCHANGED vars
  BY <1>13 DEF vars, IInv
<1> QED BY <1>1, <1>2, <1>3, <1>4, <1>5, <1>6, <1>7, <1>8, <1>9, <1>10, <1>11,
           <1>12, <1>13 DEF Next

\* Every handler leaves the engine's state well typed: no submit, amend,
\* trigger, fill, linkage or cancel records a negative quantity or leaves a
\* slot half written.
THEOREM TypeCorrect == Spec => []TypeOK
<1>1. IInv => TypeOK
  BY IInvImplies
<1> QED BY InitIInv, NextIInv, <1>1, PTL DEF Spec

\* The hold cache that rest_open, take_open and refresh_open_hold maintain
\* one order at a time is, after every handler, the fold over the book that
\* reconcile_order_holds compares it with.
THEOREM HoldsExactAlways == Spec => []HoldsExact
<1>1. IInv => HoldsExact
  BY IInvImplies
<1> QED BY InitIInv, NextIInv, <1>1, PTL DEF Spec
----------------------------------------------------------------------------
(* What becomes of the orders.                                             *)

\* A handler about an order on the book, which it leaves there at a new
\* revision or takes off.
Works(L, M, id, q) ==
  /\ Deals(L, M, id, q)
  /\ OnBook(L, id) /\ M.seen = L.seen
  /\ Waiting(L, id) => q = 0
  /\ OnBook(M, id) => /\ M.book[id].rev > L.book[id].rev
                      /\ Waiting(M, id) <=> Waiting(L, id)

\* A handler that accepts an order: one whose parent has not filled waits.
Arrives(L, M, id, q) ==
  /\ Deals(L, M, id, q)
  /\ id \notin L.seen /\ M.seen = L.seen \cup {id}
  /\ IF Terms[id].parent # NoId /\ ~HasFilled(L, Terms[id].parent)
       THEN q = 0 /\ Waiting(M, id)
       ELSE ~Waiting(M, id)

Passes(L, M) ==
  /\ M.book = L.book /\ M.closed = L.closed /\ M.seen = L.seen
  /\ M.executed = L.executed /\ M.position = L.position

\* The linkage of an earlier fill, which fills nothing.
Links(L, M) ==
  /\ M.seen = L.seen /\ M.executed = L.executed /\ M.position = L.position
  /\ \A i \in Id : Moves(L, M, i)

\* What the store of fills, the truth store and the book say of an order
\* agree: the order's row on the book is what it has executed, with something
\* left; an order not accepted has no trace; a terminal row tells only of fills
\* that happened; and but for the remainders of triggered stops an accepted
\* order is on the book or in the truth store, never both.
TrueOf(L, i) ==
  /\ OnBook(L, i) =>
       /\ L.executed[i] = Worked(L.book[i])
       /\ L.book[i].leaves > 0
  /\ i \notin L.seen => L.executed[i] = 0 /\ L.closed[i] = NoRow
  /\ TellsFill(L.closed[i]) => L.executed[i] > 0
  /\ i \in L.seen /\ ~OnBook(L, i) => L.closed[i].status # "open"
  /\ OnBook(L, i) /\ Terms[i].class # "stop" => L.closed[i].status = "open"

Truthful == \A i \in Id : TrueOf(ledger, i)

\* A walk under way was asked of an order the book has moved on from, or of
\* the level the order still waits for.
AskedOf(L, k) ==
  k # NoWalk =>
    /\ k.id \in L.seen /\ k.resting # "held"
    /\ OnBook(L, k.id) =>
         \/ L.book[k.id].rev > k.rev
         \/ /\ L.book[k.id].rev = k.rev
            /\ L.book[k.id].px = k.px
            /\ L.book[k.id].resting = k.resting

Asked == \A w \in Walker : AskedOf(ledger, walks[w])

\* A member remembered for the closing pass has executed.
Booked == \A k \in DOMAIN group.filled : ledger.executed[group.filled[k].id] > 0

BInv == IInv /\ Truthful /\ Asked /\ Booked
----------------------------------------------------------------------------
(* What a submit does.                                                     *)

LEMMA SpendPasses ==
  ASSUME NEW L, WellFormed(L), NEW arm
  PROVE  Passes(L, Spend(L, arm))
BY DEF Passes, Spend, WellFormed, Ledger

LEMMA NewOrderType ==
  ASSUME NEW id \in Id, NEW r
  PROVE  /\ NewOrder(id, r).resting = r /\ NewOrder(id, r).rev = 0
         /\ NewOrder(id, r).qty = Terms[id].qty
         /\ NewOrder(id, r).leaves = Terms[id].qty
         /\ Terms[id].qty \in Nat /\ Terms[id].qty > 0
         /\ Worked(NewOrder(id, r)) = 0
<1>1. Terms[id].qty \in Nat /\ Terms[id].qty > 0
  BY TermsAssumption DEF OrderTerms
<1> QED BY <1>1 DEF NewOrder, Worked

LEMMA AcceptAlike ==
  ASSUME NEW L, WellFormed(L), NEW id \in Id, id \notin L.seen
  PROVE  LET A == Accept(L, id)
         IN  /\ WellFormed(A) /\ Alike(L, A, id) /\ A.book = L.book
             /\ A.seen = L.seen \cup {id} /\ ~OnBook(L, id) /\ ~OnBook(A, id)
             /\ WorkedOff(L, id) = 0
<1> DEFINE A == Accept(L, id)
<1>1. ~OnBook(L, id)
  BY DEF WellFormed, WellFormedAt
<1>2. WellFormed(A) /\ A.book = L.book
  BY AcceptWellFormed
<1>3. /\ A.executed = L.executed /\ A.position = L.position /\ A.closed = L.closed
      /\ A.seen = L.seen \cup {id}
  BY DEF Accept, WellFormed, Ledger
<1> HIDE DEF A
<1>4. ~OnBook(A, id) /\ Alike(L, A, id)
  BY <1>1, <1>2, <1>3 DEF Alike, OnBook, WorkedOff
<1> QED BY <1>1, <1>2, <1>3, <1>4 DEF A, WorkedOff

\* An order put to rest on arrival.
LEMMA RestArrives ==
  ASSUME NEW L, WellFormed(L), NEW id \in Id, id \notin L.seen,
         NEW r \in Restings, r # "absent"
  PROVE  LET R == Rest(Accept(L, id), id, NewOrder(id, r))
         IN  /\ WellFormed(R) /\ OnBook(R, id) /\ R.book[id] = NewOrder(id, r)
             /\ Deals(L, R, id, 0) /\ Alike(L, R, id)
             /\ R.seen = L.seen \cup {id} /\ R.book[id].leaves > 0
<1> DEFINE A == Accept(L, id)
           n == NewOrder(id, r)
           R == Rest(A, id, n)
<1>1. /\ WellFormed(A) /\ Alike(L, A, id) /\ A.book = L.book
      /\ A.seen = L.seen \cup {id} /\ ~OnBook(L, id) /\ ~OnBook(A, id)
      /\ WorkedOff(L, id) = 0
  BY AcceptAlike
<1>2. Fit(n) /\ n.resting = r /\ n.leaves > 0 /\ Worked(n) = 0
  BY NewOrderFits, NewOrderType
<1> HIDE DEF A, n
<1>3. WellFormed(R)
  BY <1>1, <1>2, RestWellFormed
<1>4. /\ R.book[id] = n /\ R.closed = A.closed /\ Aside(A, R)
      /\ \A i \in Id \ {id} : Spared(A, R, i)
  BY <1>1 DEF Rest, Aside, Spared, WellFormed, Ledger
<1> HIDE DEF R
<1>5. OnBook(R, id) /\ WorkedOff(R, id) = 0
  BY <1>2, <1>4 DEF OnBook, WorkedOff
<1>6. Alike(L, R, id)
  BY <1>1, <1>4, <1>5 DEF Alike, Aside, Spared
<1>7. \A i \in Id \ {id} : Moves(L, R, i)
  <2>1. \A i \in Id \ {id} : Spared(L, R, i)
    BY <1>1, <1>4 DEF Spared, Alike
  <2> QED BY <2>1, MovesSpared
<1>8. /\ R.executed = [L.executed EXCEPT ![id] = @ + 0]
      /\ R.position = L.position + Terms[id].side * 0
  <2>1. L.executed \in [Id -> Nat] /\ L.position \in Int
    BY DEF WellFormed, Ledger
  <2> QED BY <1>6, <2>1, TermsType DEF Alike
<1>9. Deals(L, R, id, 0)
  BY <1>1, <1>2, <1>4, <1>5, <1>6, <1>7, <1>8 DEF Deals, Alike
<1>10. R.seen = L.seen \cup {id}
  BY <1>1, <1>4 DEF Aside
<1> QED BY <1>2, <1>3, <1>4, <1>5, <1>6, <1>9, <1>10 DEF R, A, n

LEMMA ArriveHeldCase ==
  ASSUME IInv, NEW id \in Id, Admissible(id), ArriveHeld(id)
  PROVE  Arrives(ledger, ledger', id, 0)
<1> DEFINE R == Rest(Accept(ledger, id), id, NewOrder(id, "held"))
<1>1. WellFormed(ledger) /\ id \notin ledger.seen
  BY DEF IInv, Admissible
<1>2. /\ Deals(ledger, R, id, 0) /\ R.book[id] = NewOrder(id, "held")
      /\ R.seen = ledger.seen \cup {id}
  BY <1>1, RestArrives DEF Restings
<1>3. ledger' = R
  BY DEF ArriveHeld, Submitted
<1> HIDE DEF R
<1>4. Waiting(R, id)
  BY <1>2, NewOrderType DEF Waiting
<1>5. Terms[id].parent # NoId /\ ~HasFilled(ledger, Terms[id].parent)
  BY DEF ArriveHeld, WaitsForParent
<1>6. Arrives(ledger, R, id, 0)
  BY <1>1, <1>2, <1>4, <1>5 DEF Arrives
<1> QED BY <1>3, <1>6

LEMMA ArriveConditionalCase ==
  ASSUME IInv, NEW id \in Id, Admissible(id), ArriveConditional(id)
  PROVE  \E q \in Nat : Arrives(ledger, ledger', id, q)
<1> DEFINE R == Rest(Accept(ledger, id), id, NewOrder(id, LiveResting(id)))
<1>1. WellFormed(ledger) /\ id \notin ledger.seen
  BY DEF IInv, Admissible
<1>2. LiveResting(id) \in Restings /\ LiveResting(id) \notin {"absent", "held"}
  BY DEF LiveResting, Restings
<1>3. /\ WellFormed(R) /\ OnBook(R, id) /\ R.book[id] = NewOrder(id, LiveResting(id))
      /\ Deals(ledger, R, id, 0) /\ Alike(ledger, R, id)
      /\ R.seen = ledger.seen \cup {id} /\ R.book[id].leaves > 0
  BY <1>1, <1>2, RestArrives
<1>4. ~(Terms[id].parent # NoId /\ ~HasFilled(ledger, Terms[id].parent))
  BY DEF ArriveConditional, WaitsForParent
<1>5. \/ ledger' = R
      \/ \E reached \in BOOLEAN, depth \in 0..MaxDepth, funded \in Funded :
           ledger' = IF Terms[id].trail THEN Activate(R, id, funded)
                     ELSE Trigger(R, id, [live |-> TRUE, reached |-> reached,
                                          depth |-> depth, funded |-> funded])
  BY DEF ArriveConditional, Submitted
<1> HIDE DEF R
<1>6. ~Waiting(R, id)
  BY <1>2, <1>3, NewOrderType DEF Waiting
<1>7. CASE ledger' = R
  <2>1. Arrives(ledger, R, id, 0)
    BY <1>1, <1>3, <1>4, <1>6 DEF Arrives
  <2> QED BY <1>7, <2>1
<1>8. ASSUME NEW M, NEW q \in Nat, Acts(R, M, id, q)
      PROVE  Arrives(ledger, M, id, q)
  <2>1. Deals(ledger, M, id, q)
    BY <1>3, <1>8, DealsAlike DEF Acts
  <2>2. M.seen = ledger.seen \cup {id} /\ ~Waiting(M, id)
    BY <1>3, <1>8 DEF Acts, OnBook, Waiting
  <2> QED BY <1>1, <1>4, <2>1, <2>2 DEF Arrives
<1>9. ASSUME NEW reached \in BOOLEAN, NEW depth \in 0..MaxDepth, NEW funded \in Funded,
             ledger' = IF Terms[id].trail THEN Activate(R, id, funded)
                       ELSE Trigger(R, id, [live |-> TRUE, reached |-> reached,
                                            depth |-> depth, funded |-> funded])
      PROVE  \E q \in Nat : Arrives(ledger, ledger', id, q)
  <2> DEFINE m == [live |-> TRUE, reached |-> reached, depth |-> depth, funded |-> funded]
  <2>1. funded \in BOOLEAN /\ depth \in Nat
    BY MarketInputs
  <2>2. m \in Market
    BY <2>1 DEF Market
  <2>3. ledger' \in {Activate(R, id, funded), Trigger(R, id, m)}
    BY <1>9
  <2> HIDE DEF m
  <2>4. Acts(R, Activate(R, id, funded), id, 0)
    BY <1>3, <2>1, ActivateActs
  <2>5. PICK q \in Nat : Acts(R, Trigger(R, id, m), id, q)
    BY <1>3, <1>6, <2>2, TriggerActs
  <2>6. /\ Arrives(ledger, Activate(R, id, funded), id, 0)
        /\ Arrives(ledger, Trigger(R, id, m), id, q)
    BY <1>8, <2>4, <2>5
  <2> QED BY <2>3, <2>6
<1> QED BY <1>5, <1>7, <1>9

\* A new order that ends its submit off the book, closed with what it took.
LEMMA ClosedOnArrival ==
  ASSUME NEW L, NEW K, WellFormed(K), NEW id \in Id, ~OnBook(L, id), ~OnBook(K, id),
         NEW q \in Nat, NEW o, Fit(o), Worked(o) = q,
         NEW s \in {"filled", "canceled"}, s = "filled" => q > 0,
         K.executed = [L.executed EXCEPT ![id] = @ + q],
         K.position = L.position + Terms[id].side * q,
         Terms[id].reduceOnly /\ q > 0 => q <= -(L.position * Terms[id].side),
         WellFormed(L), \A i \in Id \ {id} : Moves(L, K, i)
  PROVE  LET M == CloseUnrested(K, id, o, s)
         IN  Deals(L, M, id, q) /\ M.seen = K.seen /\ ~OnBook(M, id)
<1> DEFINE M == CloseUnrested(K, id, o, s)
<1>1. s \in Statuses
  BY DEF Statuses
<1>2. /\ Aside(K, M) /\ ~OnBook(M, id) /\ \A i \in Id \ {id} : Moves(K, M, i)
      /\ M.closed[id] = [status |-> s, filled |-> q]
  BY <1>1, CloseUnrestedMoves
<1>3. WellFormed(M)
  BY <1>1, CloseUnrestedWellFormed
<1> HIDE DEF M
<1>4. \A i \in Id \ {id} : Moves(L, M, i)
  BY <1>2, <1>3, MovesTransitive DEF Aside
<1>5. /\ M.closed[id].status # "open"
      /\ TellsFill(M.closed[id]) => WorkedOff(L, id) + q > 0
  BY <1>2 DEF TellsFill, WorkedOff
<1>6. Deals(L, M, id, q)
  BY <1>2, <1>4, <1>5 DEF Deals, Aside
<1> QED BY <1>2, <1>6 DEF Aside, M

LEMMA ArriveRestingCase ==
  ASSUME IInv, NEW id \in Id, Admissible(id), ArriveResting(id)
  PROVE  Passes(ledger, ledger') \/ \E q \in Nat : Arrives(ledger, ledger', id, q)
<1> DEFINE o == NewOrder(id, "limit")
           A == Accept(ledger, id)
           spent  == Spend(ledger, PartialFill(id))
           lapsed == CloseUnrested(A, id, o, "canceled")
           rested == Rest(A, id, o)
<1>1. WellFormed(ledger) /\ id \notin ledger.seen
  BY DEF IInv, Admissible
<1>2. ~(Terms[id].parent # NoId /\ ~HasFilled(ledger, Terms[id].parent))
  BY DEF ArriveResting, WaitsForParent
<1>3. Passes(ledger, spent)
  BY <1>1, SpendPasses
<1>4. Arrives(ledger, rested, id, 0)
  <2>1. /\ rested.book[id] = o /\ Deals(ledger, rested, id, 0)
        /\ rested.seen = ledger.seen \cup {id}
    BY <1>1, RestArrives DEF Restings
  <2> HIDE DEF rested
  <2>2. ~Waiting(rested, id)
    BY <2>1, NewOrderType DEF Waiting
  <2> QED BY <1>1, <1>2, <2>1, <2>2 DEF Arrives
<1>5. Arrives(ledger, lapsed, id, 0)
  <2>1. Fit(o) /\ Worked(o) = 0
    BY NewOrderFits, NewOrderType DEF Restings
  <2>2. /\ WellFormed(A) /\ Alike(ledger, A, id) /\ A.book = ledger.book
        /\ A.seen = ledger.seen \cup {id} /\ ~OnBook(ledger, id) /\ ~OnBook(A, id)
    BY <1>1, AcceptAlike
  <2> HIDE DEF A, o
  <2>3. /\ A.executed = [ledger.executed EXCEPT ![id] = @ + 0]
        /\ A.position = ledger.position + Terms[id].side * 0
    <3>1. ledger.executed \in [Id -> Nat] /\ ledger.position \in Int
      BY <1>1 DEF WellFormed, Ledger
    <3> QED BY <2>2, <3>1, TermsType DEF Alike
  <2>4. \A i \in Id \ {id} : Moves(ledger, A, i)
    BY <2>2, MovesSpared DEF Spared, Alike
  <2>5. Deals(ledger, lapsed, id, 0) /\ lapsed.seen = A.seen /\ ~OnBook(lapsed, id)
    BY <1>1, <2>1, <2>2, <2>3, <2>4, ClosedOnArrival
  <2> HIDE DEF lapsed
  <2>6. ~Waiting(lapsed, id)
    BY <2>5 DEF Waiting, OnBook
  <2> QED BY <1>1, <1>2, <2>2, <2>5, <2>6 DEF Arrives
<1>6. ledger' \in {spent, lapsed, rested}
  BY DEF ArriveResting, Submitted
<1> HIDE DEF spent, lapsed, rested
<1> QED BY <1>3, <1>4, <1>5, <1>6

\* The taking order before it settles: accepted, its fill booked and, alone,
\* its linkage applied.
LEMMA TakenMoves ==
  ASSUME NEW L, WellFormed(L), NEW id \in Id, id \notin L.seen, NEW q \in Nat,
         NEW M,
         LET A == Accept(Spend(L, PartialFill(id)), id)
             F == IF q = 0 THEN A ELSE CommitFill(A, id, q)
         IN  M = F \/ (q > 0 /\ M = Linkage(F, id, q))
  PROVE  /\ WellFormed(M) /\ ~OnBook(M, id) /\ M.seen = L.seen \cup {id}
         /\ M.executed = [L.executed EXCEPT ![id] = @ + q]
         /\ M.position = L.position + Terms[id].side * q
         /\ M.closed[id] = L.closed[id]
         /\ \A i \in Id \ {id} : Moves(L, M, i)
<1> DEFINE S == Spend(L, PartialFill(id))
           A == Accept(S, id)
           C == CommitFill(A, id, q)
           F == IF q = 0 THEN A ELSE C
<1>1. M = F \/ (q > 0 /\ M = Linkage(F, id, q))
  OBVIOUS
<1>2. WellFormed(S) /\ Passes(L, S)
  BY SpendPasses, SpendWellFormed
<1> HIDE DEF S
<1>3. /\ WellFormed(A) /\ Alike(S, A, id) /\ A.book = S.book
      /\ A.seen = S.seen \cup {id} /\ ~OnBook(A, id)
  BY <1>2, AcceptAlike DEF Passes
<1>4. /\ WellFormed(A) /\ A.book = L.book /\ A.seen = L.seen \cup {id}
      /\ A.executed = L.executed /\ A.position = L.position /\ A.closed = L.closed
      /\ ~OnBook(A, id)
  BY <1>2, <1>3 DEF Passes, Alike
<1> HIDE DEF A
<1>5. WellFormed(C) /\ C.book = L.book /\ C.seen = L.seen \cup {id}
  BY <1>4, CommitFillWellFormed
<1>6. /\ C.executed = [L.executed EXCEPT ![id] = @ + q]
      /\ C.position = L.position + Terms[id].side * q
      /\ C.closed = L.closed
  BY <1>4 DEF CommitFill, WellFormed, Ledger
<1>7. L.executed \in [Id -> Nat] /\ L.position \in Int
  BY DEF WellFormed, Ledger
<1> HIDE DEF C
<1>8. /\ WellFormed(F) /\ F.book = L.book /\ F.seen = L.seen \cup {id}
      /\ F.executed = [L.executed EXCEPT ![id] = @ + q]
      /\ F.position = L.position + Terms[id].side * q
      /\ F.closed = L.closed
  <2>1. CASE q = 0
    <3>1. F = A
      BY <2>1
    <3> HIDE DEF F
    <3>2. /\ L.executed = [L.executed EXCEPT ![id] = @ + q]
          /\ L.position = L.position + Terms[id].side * q
      BY <1>7, <2>1, TermsType
    <3> QED BY <1>4, <3>1, <3>2
  <2>2. CASE q # 0
    BY <1>5, <1>6, <2>2
  <2> QED BY <2>1, <2>2
<1> HIDE DEF F
<1>9. ~OnBook(F, id) /\ ~Waiting(F, id)
  BY <1>4, <1>8 DEF OnBook, Waiting
<1>10. \A i \in Id : Moves(L, F, i)
  BY <1>8, MovesSpared DEF Spared
<1>11. CASE M = F
  BY <1>8, <1>9, <1>10, <1>11
<1>12. CASE q > 0 /\ M = Linkage(F, id, q)
  <2>1. F.executed[id] > 0
    BY <1>7, <1>8, <1>12
  <2>2. /\ WellFormed(M) /\ Aside(F, M) /\ Spared(F, M, id)
        /\ \A i \in Id : Moves(F, M, i)
    BY <1>8, <1>9, <1>12, <2>1, LinkageMoves, LinkageWellFormed
  <2>3. \A i \in Id : Moves(L, M, i)
    BY <1>8, <1>10, <2>2, MovesTransitive DEF Aside
  <2>4. ~OnBook(M, id) /\ M.closed[id] = L.closed[id]
    BY <1>8, <1>9, <2>2 DEF Spared, OnBook
  <2> QED BY <1>8, <2>2, <2>3, <2>4 DEF Aside
<1> QED BY <1>1, <1>11, <1>12

\* The taking order settled.
LEMMA SettleTakenArrives ==
  ASSUME NEW L, WellFormed(L), NEW id \in Id, id \notin L.seen, NEW q \in Nat,
         ~(Terms[id].parent # NoId /\ ~HasFilled(L, Terms[id].parent)),
         Terms[id].reduceOnly /\ q > 0 => q <= -(L.position * Terms[id].side),
         NEW M, WellFormed(M), ~OnBook(M, id), M.seen = L.seen \cup {id},
         M.executed = [L.executed EXCEPT ![id] = @ + q],
         M.position = L.position + Terms[id].side * q,
         M.closed[id] = L.closed[id],
         \A i \in Id \ {id} : Moves(L, M, i),
         NEW o, Fit(o), Worked(o) = q, o.resting = "limit", o.qty > 0, NEW lapses
  PROVE  Arrives(L, SettleTaken(M, id, o, lapses), id, q)
<1> DEFINE N == SettleTaken(M, id, o, lapses)
           C(s) == CloseUnrested(M, id, o, s)
<1>1. ~OnBook(L, id)
  BY DEF WellFormed, WellFormedAt
<1>2. o.leaves \in Nat /\ o.qty \in Nat /\ o.leaves <= o.qty
  BY DEF Fit, Order
<1>3. ASSUME NEW s \in {"filled", "canceled"}, s = "filled" => q > 0
      PROVE  Arrives(L, C(s), id, q)
  <2>1. Deals(L, C(s), id, q) /\ C(s).seen = M.seen /\ ~OnBook(C(s), id)
    BY <1>1, <1>3, ClosedOnArrival
  <2> HIDE DEF C
  <2>2. ~Waiting(C(s), id)
    BY <2>1 DEF Waiting, OnBook
  <2> QED BY <2>1, <2>2 DEF Arrives
<1>4. ASSUME o.leaves # 0
      PROVE  Arrives(L, Rest(M, id, o), id, q)
  <2> DEFINE R == Rest(M, id, o)
  <2>1. /\ R.book[id] = o /\ R.closed = M.closed /\ Aside(M, R)
        /\ \A i \in Id \ {id} : Spared(M, R, i)
    BY DEF Rest, Aside, Spared, WellFormed, Ledger
  <2> HIDE DEF R
  <2>2. OnBook(R, id) /\ ~Waiting(R, id)
    BY <2>1 DEF OnBook, Waiting
  <2>3. ASSUME NEW i \in Id \ {id} PROVE Moves(L, R, i)
    <3>1. Moves(L, M, i) /\ Spared(M, R, i) /\ R.executed = M.executed
      BY <2>1 DEF Aside
    <3> QED BY <3>1 DEF Moves, Spared, OnBook, Waiting
  <2>4. /\ Worked(R.book[id]) = WorkedOff(L, id) + q /\ R.book[id].leaves > 0
    BY <1>1, <1>2, <1>4, <2>1 DEF WorkedOff
  <2>5. Deals(L, R, id, q)
    BY <2>1, <2>2, <2>3, <2>4 DEF Deals, Aside
  <2>6. Arrives(L, R, id, q)
    BY <2>1, <2>2, <2>5 DEF Arrives, Aside
  <2> QED BY <2>6 DEF R
<1>5. \/ o.leaves = 0 /\ N = C("filled")
      \/ N = C("canceled")
      \/ o.leaves # 0 /\ N = Rest(M, id, o)
  BY DEF SettleTaken
<1>6. o.leaves = 0 => q > 0
  BY <1>2 DEF Worked
<1> HIDE DEF N, C
<1>7. Arrives(L, N, id, q)
  BY <1>3, <1>4, <1>5, <1>6
<1> QED BY <1>7 DEF N

LEMMA ArriveTakingCase ==
  ASSUME IInv, NEW id \in Id, Admissible(id), ArriveTaking(id)
  PROVE  \E booked \in Nat :
           /\ Submitted(id, ledger', booked)
           /\ \/ Passes(ledger, ledger') /\ booked = 0
              \/ Arrives(ledger, ledger', id, booked)
<1>1. PICK depth \in 0..MaxDepth, funded \in Funded :
       LET o       == NewOrder(id, "limit")
           S       == Spend(ledger, PartialFill(id))
           planned == Planned(ledger, id, o.qty)
           cap     == Cap(ledger, id, o.qty)
           q       == Lesser(Lesser(planned, cap), depth)
           refused == (q > 0 /\ ~funded) \/ (Terms[id].tif = "fok" /\ depth < o.qty)
           F       == IF q = 0 THEN Accept(S, id)
                      ELSE CommitFill(Accept(S, id), id, q)
           lapses  == \/ cap = 0 \/ cap < planned
                      \/ Terms[id].class = "market"
                      \/ Terms[id].tif \in {"ioc", "fok"}
           rest    == [o EXCEPT !.leaves = @ - q, !.px = IF q > 0 THEN 1 ELSE 0]
       IN  \/ refused /\ Submitted(id, S, 0)
           \/ /\ ~refused
              /\ Submitted(id,
                   SettleTaken(IF q > 0 /\ ~Member THEN Linkage(F, id, q) ELSE F,
                               id, rest, lapses),
                   q)
  BY Zenon DEF ArriveTaking
<1> DEFINE o       == NewOrder(id, "limit")
           S       == Spend(ledger, PartialFill(id))
           planned == Planned(ledger, id, o.qty)
           cap     == Cap(ledger, id, o.qty)
           q       == Lesser(Lesser(planned, cap), depth)
           A       == Accept(S, id)
           F       == IF q = 0 THEN A ELSE CommitFill(A, id, q)
           M       == IF q > 0 /\ ~Member THEN Linkage(F, id, q) ELSE F
           lapses  == \/ cap = 0 \/ cap < planned
                      \/ Terms[id].class = "market"
                      \/ Terms[id].tif \in {"ioc", "fok"}
           rest    == [o EXCEPT !.leaves = @ - q, !.px = IF q > 0 THEN 1 ELSE 0]
           N       == SettleTaken(M, id, rest, lapses)
<1>2. /\ Fit(o) /\ o.qty \in Nat /\ o.qty > 0 /\ o.leaves = o.qty
      /\ o.resting = "limit"
  BY NewOrderFits, NewOrderType DEF Restings
<1>3. q \in Nat /\ q <= o.qty /\ q <= cap
  <2>1. depth \in Nat
    BY MarketInputs
  <2>2. planned \in Nat /\ planned <= o.qty /\ cap \in Nat
    BY <1>2, PlannedBounded, CapType DEF IInv
  <2> HIDE DEF planned, cap, o
  <2> QED BY <1>2, <2>1, <2>2 DEF Lesser
<1>4. WellFormed(ledger) /\ id \notin ledger.seen
  BY DEF IInv, Admissible
<1>5. Terms[id].reduceOnly /\ q > 0 => q <= -(ledger.position * Terms[id].side)
  <2> HIDE DEF q, o
  <2> QED BY <1>2, <1>3, <1>4, CapReduces
<1>6. ~(Terms[id].parent # NoId /\ ~HasFilled(ledger, Terms[id].parent))
  BY DEF ArriveTaking, WaitsForParent
<1>7. Submitted(id, S, 0) \/ Submitted(id, N, q)
  BY <1>1
<1>8. Passes(ledger, S)
  BY <1>4, SpendPasses
<1>9. Fit(rest) /\ Worked(rest) = q /\ rest.resting = "limit" /\ rest.qty > 0
  <2> HIDE DEF q
  <2>1. o.leaves - q \in Nat /\ o.leaves - q <= o.qty /\ o \in Order
    BY <1>2, <1>3 DEF Fit
  <2> HIDE DEF o
  <2>2. /\ rest \in Order /\ rest.leaves = o.leaves - q /\ rest.qty = o.qty
        /\ rest.resting = o.resting
    BY <2>1 DEF Order
  <2> HIDE DEF rest
  <2> QED BY <1>2, <1>3, <2>1, <2>2 DEF Fit, Worked
<1> HIDE DEF q, planned, cap
<1>10. /\ WellFormed(M) /\ ~OnBook(M, id) /\ M.seen = ledger.seen \cup {id}
       /\ M.executed = [ledger.executed EXCEPT ![id] = @ + q]
       /\ M.position = ledger.position + Terms[id].side * q
       /\ M.closed[id] = ledger.closed[id]
       /\ \A i \in Id \ {id} : Moves(ledger, M, i)
  <2>1. M = F \/ (q > 0 /\ M = Linkage(F, id, q))
    OBVIOUS
  <2> HIDE DEF M
  <2> QED BY <1>3, <1>4, <2>1, TakenMoves
<1> HIDE DEF M, rest, lapses
<1>11. Arrives(ledger, N, id, q)
  BY <1>3, <1>4, <1>5, <1>6, <1>9, <1>10, SettleTakenArrives
<1> HIDE DEF N, S
<1>12. CASE Submitted(id, S, 0)
  BY <1>8, <1>12 DEF Submitted
<1>13. CASE Submitted(id, N, q)
  BY <1>3, <1>11, <1>13 DEF Submitted
<1> QED BY <1>7, <1>12, <1>13

\* A submit passes the order over or takes it in, and remembers for the
\* group's closing pass only a fill that is booked.
LEMMA SubmitCase ==
  ASSUME IInv, NEW id \in Id, Submit(id)
  PROVE  /\ Admissible(id)
         /\ \E booked \in Nat :
              /\ Submitted(id, ledger', booked)
              /\ \/ Passes(ledger, ledger') /\ booked = 0
                 \/ booked = 0 /\ \E q \in Nat : Arrives(ledger, ledger', id, q)
                 \/ Arrives(ledger, ledger', id, booked)
<1>1. Admissible(id)
  BY DEF Submit
<1>2. WellFormed(ledger) /\ Passes(ledger, ledger)
  BY DEF IInv, Passes
<1>3. CASE ArmedReject(id)
  <2>1. Submitted(id, Spend(ledger, RejectSubmit), 0)
    BY <1>3 DEF ArmedReject
  <2>2. Passes(ledger, Spend(ledger, RejectSubmit))
    BY <1>2, SpendPasses
  <2>3. ledger' = Spend(ledger, RejectSubmit)
    BY <2>1 DEF Submitted
  <2> QED BY <1>1, <2>1, <2>2, <2>3
<1>4. CASE ArriveBlind(id) \/ ArrivePostOnly(id)
  <2>1. Submitted(id, ledger, 0)
    BY <1>4 DEF ArriveBlind, ArrivePostOnly
  <2>2. ledger' = ledger
    BY <2>1 DEF Submitted
  <2> QED BY <1>1, <1>2, <2>1, <2>2
<1>5. CASE ArriveHeld(id)
  <2>1. Arrives(ledger, ledger', id, 0) /\ Submitted(id, ledger', 0)
    BY <1>1, <1>5, ArriveHeldCase DEF ArriveHeld, Submitted
  <2> QED BY <1>1, <2>1
<1>6. CASE ArriveConditional(id)
  <2>1. \E q \in Nat : Arrives(ledger, ledger', id, q)
    BY <1>1, <1>6, ArriveConditionalCase
  <2>2. Submitted(id, ledger', 0)
    BY <1>6 DEF ArriveConditional, Submitted
  <2> QED BY <1>1, <2>1, <2>2
<1>7. CASE ArriveResting(id)
  <2>1. Passes(ledger, ledger') \/ \E q \in Nat : Arrives(ledger, ledger', id, q)
    BY <1>1, <1>7, ArriveRestingCase
  <2>2. Submitted(id, ledger', 0)
    BY <1>7 DEF ArriveResting, Submitted
  <2> QED BY <1>1, <2>1, <2>2
<1>8. CASE ArriveTaking(id)
  BY <1>1, <1>8, ArriveTakingCase
<1> QED BY <1>3, <1>4, <1>5, <1>6, <1>7, <1>8 DEF Submit
----------------------------------------------------------------------------
(* What the other handlers do.                                             *)

LEMMA ActsWorks ==
  ASSUME NEW L, NEW M, NEW id \in Id, NEW q \in Nat, Acts(L, M, id, q),
         OnBook(L, id), ~Waiting(L, id)
  PROVE  Works(L, M, id, q)
BY DEF Acts, Works

LEMMA CloseCase ==
  ASSUME IInv, NEW id \in Id, Cancel(id) \/ VenueCancel(id) \/ Expire(id)
  PROVE  Passes(ledger, ledger') \/ Works(ledger, ledger', id, 0)
<1> DEFINE C(s) == CloseOut(ledger, id, ledger.book[id], s)
<1>1. WellFormed(ledger) /\ OnBook(ledger, id)
  BY DEF IInv, Cancel, VenueCancel, Expire, Holds
<1>2. Passes(ledger, Spend(ledger, RejectCancel))
  BY <1>1, SpendPasses
<1>3. ASSUME NEW s \in {"canceled", "expired"} PROVE Works(ledger, C(s), id, 0)
  <2>1. Deals(ledger, C(s), id, 0) /\ ~OnBook(C(s), id) /\ C(s).seen = ledger.seen
    BY <1>1, CloseOutDeals
  <2> HIDE DEF C
  <2> QED BY <1>1, <2>1 DEF Works
<1>4. ledger' \in {Spend(ledger, RejectCancel), C("canceled"), C("expired")}
  BY DEF Cancel, VenueCancel, Expire
<1> HIDE DEF C
<1> QED BY <1>2, <1>3, <1>4

\* An order restated on the book with what it has worked off.
LEMMA RestatedWorks ==
  ASSUME NEW L, WellFormed(L), NEW id \in Id, OnBook(L, id), NEW o,
         Worked(o) = Worked(L.book[id]), o.leaves > 0,
         o.resting = L.book[id].resting, o.rev > L.book[id].rev
  PROVE  Works(L, Put(L, id, o), id, 0)
<1> DEFINE M == Put(L, id, o)
<1>1. o.resting # "absent"
  BY DEF OnBook
<1>2. Deals(L, M, id, 0) /\ M.book[id] = o /\ M.seen = L.seen
  BY <1>1, PutDeals
<1> HIDE DEF M
<1>3. Works(L, M, id, 0)
  BY <1>2 DEF Works, Waiting
<1> QED BY <1>3 DEF M

LEMMA ModifyCase ==
  ASSUME IInv, NEW id \in Id, NEW qty \in Nat, NEW newLevel \in BOOLEAN,
         Modify(id, qty, newLevel)
  PROVE  Works(ledger, ledger', id, 0)
<1> DEFINE o == ledger.book[id]
           n == Amended(o, qty, newLevel)
<1>1. /\ WellFormed(ledger) /\ OnBook(ledger, id) /\ qty > Filled(o)
      /\ ledger' = Put(ledger, id, n)
  BY DEF IInv, Modify, Holds
<1>2. o \in Order /\ o.rev \in Nat /\ Worked(o) \in Nat
  BY <1>1, BookFits DEF Fit, Order, Worked
<1> HIDE DEF o
<1>3. /\ n.qty = qty /\ n.leaves = qty - Filled(o) /\ n.resting = o.resting
      /\ n.rev = o.rev + 1
  BY <1>2 DEF Amended, Order
<1> HIDE DEF n
<1>4. Worked(n) = Worked(o) /\ n.leaves > 0 /\ n.rev > o.rev
  BY <1>1, <1>2, <1>3 DEF Worked, Filled
<1>5. Works(ledger, Put(ledger, id, n), id, 0)
  BY <1>1, <1>3, <1>4, RestatedWorks DEF o
<1> QED BY <1>1, <1>5

LEMMA RatchetCase ==
  ASSUME IInv, Truthful, NEW id \in Id, Ratchet(id)
  PROVE  Works(ledger, ledger', id, 0)
<1> DEFINE o == ledger.book[id]
           n == Ratcheted(o)
<1>1. /\ WellFormed(ledger) /\ OnBook(ledger, id) /\ o.leaves > 0
      /\ ledger' = Put(ledger, id, n)
  BY DEF IInv, Ratchet, Holds, Truthful, TrueOf
<1>2. o \in Order /\ o.rev \in Nat
  BY <1>1, BookFits DEF Fit, Order
<1> HIDE DEF o
<1>3. /\ n.qty = o.qty /\ n.leaves = o.leaves /\ n.resting = o.resting
      /\ n.rev = o.rev + 1
  BY <1>2 DEF Ratcheted, Order
<1> HIDE DEF n
<1>4. Worked(n) = Worked(o) /\ n.leaves > 0 /\ n.rev > o.rev
  BY <1>1, <1>2, <1>3 DEF Worked
<1>5. Works(ledger, Put(ledger, id, n), id, 0)
  BY <1>1, <1>3, <1>4, RestatedWorks DEF o
<1> QED BY <1>1, <1>5

LEMMA AdvancedAlike ==
  ASSUME NEW L, WellFormed(L), NEW id \in Id, OnBook(L, id)
  PROVE  LET M == [L EXCEPT !.book[id].rev = @ + 1]
         IN  /\ WellFormed(M) /\ OnBook(M, id) /\ Alike(L, M, id) /\ M.seen = L.seen
             /\ M.book[id].resting = L.book[id].resting
             /\ M.book[id].leaves = L.book[id].leaves
             /\ M.book[id].rev > L.book[id].rev
             /\ Worked(M.book[id]) = Worked(L.book[id])
             /\ \A i \in Id \ {id} : Spared(L, M, i)
<1> DEFINE M == [L EXCEPT !.book[id].rev = @ + 1]
<1>1. WellFormed(M) /\ OnBook(M, id)
  BY AdvancedWellFormed
<1>2. L.book[id] \in Order /\ L.book[id].rev \in Nat
  BY BookFits DEF Fit, Order
<1>3. /\ M.closed = L.closed /\ M.seen = L.seen /\ M.executed = L.executed
      /\ M.position = L.position
      /\ M.book = [L.book EXCEPT ![id] = [L.book[id] EXCEPT !.rev = @ + 1]]
  BY DEF WellFormed, Ledger
<1> HIDE DEF M
<1>4. /\ M.book[id] = [L.book[id] EXCEPT !.rev = @ + 1]
      /\ \A i \in Id \ {id} : M.book[i] = L.book[i]
  BY <1>3 DEF WellFormed, Ledger
<1>5. /\ M.book[id].resting = L.book[id].resting
      /\ M.book[id].leaves = L.book[id].leaves /\ M.book[id].qty = L.book[id].qty
      /\ M.book[id].rev > L.book[id].rev
  BY <1>2, <1>4 DEF Order
<1>6. Worked(M.book[id]) = Worked(L.book[id])
  BY <1>5 DEF Worked
<1>7. Alike(L, M, id)
  BY <1>1, <1>3, <1>4, <1>6 DEF Alike, WorkedOff
<1>8. \A i \in Id \ {id} : Spared(L, M, i)
  BY <1>3, <1>4 DEF Spared
<1> QED BY <1>1, <1>3, <1>5, <1>6, <1>7, <1>8 DEF M

\* The order a current walk answers for is still working.
LEMMA CurrentWorks ==
  ASSUME BInv, NEW w \in Walker, Current(w)
  PROVE  LET id == walks[w].id
         IN  /\ id \in Id /\ OnBook(ledger, id) /\ ~Waiting(ledger, id)
             /\ ledger.book[id].leaves > 0
             /\ ledger.book[id].px = walks[w].px
             /\ ledger.book[id].resting = walks[w].resting
<1> DEFINE id == walks[w].id
<1>1. /\ id \in Id /\ OnBook(ledger, id) /\ walks[w] # NoWalk
      /\ ledger.book[id].rev = walks[w].rev
  BY WalkedId DEF BInv, Current
<1>2. ledger.book[id].leaves > 0
  BY <1>1 DEF BInv, Truthful, TrueOf
<1>3. ledger.book[id].rev \in Nat
  BY <1>1, BookFits DEF BInv, IInv, Fit, Order
<1>4. /\ ledger.book[id].px = walks[w].px
      /\ ledger.book[id].resting = walks[w].resting /\ walks[w].resting # "held"
  BY <1>1, <1>3 DEF BInv, Asked, AskedOf
<1> QED BY <1>1, <1>2, <1>4 DEF Waiting

LEMMA ScanMissCase ==
  ASSUME BInv, NEW w \in Walker, ScanMiss(w)
  PROVE  Works(ledger, ledger', walks[w].id, 0)
<1> DEFINE id == walks[w].id
           M == [ledger EXCEPT !.book[id].rev = @ + 1]
<1>1. id \in Id /\ OnBook(ledger, id) /\ ledger.book[id].leaves > 0
  BY CurrentWorks DEF ScanMiss
<1>2. WellFormed(ledger)
  BY DEF BInv, IInv
<1>3. /\ OnBook(M, id) /\ Alike(ledger, M, id) /\ M.seen = ledger.seen
      /\ M.book[id].resting = ledger.book[id].resting
      /\ M.book[id].leaves = ledger.book[id].leaves
      /\ M.book[id].rev > ledger.book[id].rev
      /\ Worked(M.book[id]) = Worked(ledger.book[id])
      /\ \A i \in Id \ {id} : Spared(ledger, M, i)
  BY <1>1, <1>2, AdvancedAlike
<1>4. ledger' = M
  BY DEF ScanMiss
<1> HIDE DEF M, id
<1>5. /\ M.executed = [ledger.executed EXCEPT ![id] = @ + 0]
      /\ M.position = ledger.position + Terms[id].side * 0
  <2>1. ledger.executed \in [Id -> Nat] /\ ledger.position \in Int
    BY <1>2 DEF WellFormed, Ledger
  <2> QED BY <1>1, <1>3, <2>1, TermsType DEF Alike
<1>6. \A i \in Id \ {id} : Moves(ledger, M, i)
  BY <1>3, MovesSpared
<1>7. Worked(ledger.book[id]) \in Int
  BY <1>1, <1>2, BookFits DEF Worked, Fit, Order
<1>8. Deals(ledger, M, id, 0)
  BY <1>1, <1>3, <1>5, <1>6, <1>7 DEF Deals, WorkedOff, Alike
<1>9. Works(ledger, M, id, 0)
  BY <1>1, <1>3, <1>8 DEF Works, Waiting
<1> QED BY <1>4, <1>9 DEF id

LEMMA ScanHitCase ==
  ASSUME BInv, NEW w \in Walker, ScanHit(w)
  PROVE  \E q \in Nat : Works(ledger, ledger', walks[w].id, q)
<1> DEFINE id == walks[w].id
           A == [ledger EXCEPT !.book[id].rev = @ + 1]
<1>1. /\ id \in Id /\ OnBook(ledger, id) /\ ~Waiting(ledger, id)
      /\ ledger.book[id].leaves > 0 /\ WellFormed(ledger)
  BY CurrentWorks DEF ScanHit, BInv, IInv
<1>2. ASSUME NEW live \in BOOLEAN, NEW reached \in BOOLEAN, NEW depth \in 0..MaxDepth,
             NEW funded \in Funded,
             ledger' = Trigger(ledger, id, [live |-> live, reached |-> reached,
                                            depth |-> depth, funded |-> funded])
      PROVE  \E q \in Nat : Works(ledger, ledger', id, q)
  <2> DEFINE m == [live |-> live, reached |-> reached, depth |-> depth, funded |-> funded]
  <2>1. m \in Market
    BY MarketInputs DEF Market
  <2> HIDE DEF id, m
  <2>2. PICK q \in Nat : Acts(ledger, Trigger(ledger, id, m), id, q)
    BY <1>1, <2>1, TriggerActs
  <2>3. Works(ledger, Trigger(ledger, id, m), id, q)
    BY <1>1, <2>2, ActsWorks
  <2> QED BY <1>2, <2>3 DEF m
<1>3. ASSUME NEW funded \in Funded, ledger' = Activate(ledger, id, funded)
      PROVE  \E q \in Nat : Works(ledger, ledger', id, q)
  <2> HIDE DEF id
  <2>1. Acts(ledger, Activate(ledger, id, funded), id, 0)
    BY <1>1, MarketInputs, ActivateActs
  <2>2. Works(ledger, Activate(ledger, id, funded), id, 0)
    BY <1>1, <2>1, ActsWorks
  <2> QED BY <1>3, <2>2
<1>4. ASSUME NEW funded \in Funded, ledger' = SweepFill(A, id, funded)
      PROVE  \E q \in Nat : Works(ledger, ledger', id, q)
  <2>1. /\ WellFormed(A) /\ OnBook(A, id) /\ Alike(ledger, A, id)
        /\ A.seen = ledger.seen
        /\ A.book[id].resting = ledger.book[id].resting
        /\ A.book[id].leaves = ledger.book[id].leaves
        /\ A.book[id].rev > ledger.book[id].rev
    BY <1>1, AdvancedAlike
  <2> HIDE DEF id, A
  <2>2. PICK q \in Nat : Acts(A, SweepFill(A, id, funded), id, q)
    BY <1>1, <2>1, SweepFillActs DEF Waiting
  <2> DEFINE M == SweepFill(A, id, funded)
  <2> HIDE DEF M
  <2>3. Acts(A, M, id, q)
    BY <2>2 DEF M
  <2>4. Deals(ledger, M, id, q)
    BY <1>1, <2>1, <2>3, DealsAlike DEF Acts
  <2>5. /\ WellFormed(ledger) /\ ledger.book[id].rev \in Nat /\ A.book[id].rev \in Nat
    BY <1>1, <2>1, BookFits DEF Fit, Order
  <2>6. WellFormed(M)
    BY <1>1, <2>1, SweepFillWellFormed DEF M
  <2>7. M.book[id].rev \in Nat
    BY <1>1, <2>6, BookFits DEF Fit, Order
  <2>8. OnBook(M, id) => ~Waiting(M, id) /\ M.book[id].rev > ledger.book[id].rev
    BY <2>1, <2>3, <2>5, <2>7 DEF Acts
  <2>9. Works(ledger, M, id, q)
    BY <1>1, <2>1, <2>3, <2>4, <2>8 DEF Works, Acts
  <2> QED BY <1>4, <2>9 DEF M
<1>5. \/ \E live, reached \in BOOLEAN, depth \in 0..MaxDepth, funded \in Funded :
           ledger' = Trigger(ledger, id, [live |-> live, reached |-> reached,
                                          depth |-> depth, funded |-> funded])
      \/ \E funded \in Funded : ledger' = Activate(ledger, id, funded)
      \/ \E funded \in Funded : ledger' = SweepFill(A, id, funded)
  BY DEF ScanHit
<1> QED BY <1>2, <1>3, <1>4, <1>5

LEMMA GroupCloseCase ==
  ASSUME BInv, GroupClose
  PROVE  Passes(ledger, ledger') \/ Links(ledger, ledger')
<1>1. CASE group.filled = <<>>
  BY <1>1 DEF GroupClose, Passes
<1>2. CASE group.filled # <<>>
  <2> DEFINE h == Head(group.filled)
  <2>1. group.filled \in Seq([id : Id, qty : Nat])
    BY DEF BInv, IInv, Group
  <2>2. /\ h \in [id : Id, qty : Nat] /\ h = group.filled[1]
        /\ 1 \in DOMAIN group.filled
    <3> DEFINE Q == [id : Id, qty : Nat]
               f == group.filled
    <3>1. f \in Seq(Q) /\ f # <<>>
      BY <1>2, <2>1
    <3> HIDE DEF Q, f
    <3>2. Head(f) \in Q /\ Head(f) = f[1] /\ 1 \in DOMAIN f
      BY <3>1
    <3> QED BY <3>2 DEF Q, f
  <2>3. ledger.executed[h.id] > 0
    BY <2>2 DEF BInv, Booked
  <2>4. ledger' = Linkage(ledger, h.id, h.qty)
    BY <1>2 DEF GroupClose
  <2> HIDE DEF h
  <2>5. /\ Aside(ledger, ledger') /\ \A i \in Id : Moves(ledger, ledger', i)
    BY <2>2, <2>3, <2>4, LinkageMoves DEF BInv, IInv
  <2> QED BY <2>5 DEF Links, Aside
<1> QED BY <1>1, <1>2

\* Every step passes the orders over, applies a linkage, or is about one
\* order, which works or arrives.
StepCase ==
  \/ Passes(ledger, ledger')
  \/ Links(ledger, ledger')
  \/ \E id \in Id, q \in Nat : Works(ledger, ledger', id, q)
  \/ \E id \in Id, q \in Nat : Arrives(ledger, ledger', id, q) /\ Admissible(id)

LEMMA NextCases ==
  ASSUME BInv, [Next]_vars
  PROVE  StepCase
<1> USE DEF StepCase
<1>0. WellFormed(ledger) /\ IInv /\ Truthful
  BY DEF BInv, IInv
<1>1. ASSUME NEW id \in Id, Submit(id) PROVE StepCase
  BY <1>0, <1>1, SubmitCase
<1>2. ASSUME NEW id \in Id, MemberRefused(id) PROVE StepCase
  BY <1>2 DEF MemberRefused, Submitted, Passes
<1>3. ASSUME NEW id \in Id, Cancel(id) \/ VenueCancel(id) \/ Expire(id) PROVE StepCase
  BY <1>0, <1>3, CloseCase
<1>4. ASSUME NEW id \in Id, Ratchet(id) PROVE StepCase
  BY <1>0, <1>4, RatchetCase
<1>5. ASSUME NEW id \in Id, NEW qty \in AmendTo \cup {ledger.book[id].qty},
             NEW newLevel \in BOOLEAN, Modify(id, qty, newLevel)
      PROVE  StepCase
  <2>1. ledger.book[id].qty \in Nat
    BY <1>0, BookFits DEF Fit, Order
  <2>2. qty \in Nat
    BY <2>1, BookAssumption
  <2> QED BY <1>0, <1>5, <2>2, ModifyCase
<1>6. ASSUME NEW f \in Frames, GroupSubmit(f) PROVE StepCase
  <2>1. ledger' = ledger \/ ledger' = Spend(ledger, RejectSubmit)
    BY <1>6 DEF GroupSubmit
  <2> QED BY <1>0, <2>1, SpendPasses DEF Passes
<1>7. CASE GroupClose
  BY <1>7, GroupCloseCase
<1>8. ASSUME NEW arm \in Arms, ArmDivergence(arm) PROVE StepCase
  <2>1. Passes(ledger, ledger')
    BY <1>0, <1>8 DEF ArmDivergence, Passes, WellFormed, Ledger
  <2> QED BY <2>1
<1>9. ASSUME NEW w \in Walker, NEW id \in Id, PlanScan(w, id) PROVE StepCase
  BY <1>9 DEF PlanScan, Passes
<1>10. ASSUME NEW w \in Walker, ScanMiss(w) PROVE StepCase
  BY <1>10, ScanMissCase, CurrentWorks DEF ScanMiss
<1>11. ASSUME NEW w \in Walker, ScanHit(w) PROVE StepCase
  BY <1>11, ScanHitCase, CurrentWorks DEF ScanHit
<1>12. ASSUME NEW w \in Walker, ScanStale(w) \/ ScanDropped(w) PROVE StepCase
  BY <1>12 DEF ScanStale, ScanDropped, Passes
<1>13. CASE UNCHANGED vars
  BY <1>13 DEF vars, Passes
<1> QED BY <1>1, <1>2, <1>3, <1>4, <1>5, <1>6, <1>7, <1>8, <1>9, <1>10, <1>11,
           <1>12, <1>13 DEF Next
----------------------------------------------------------------------------
(* The invariant.                                                          *)

LEMMA Counts ==
  ASSUME NEW L, WellFormed(L), NEW i \in Id
  PROVE  /\ L.executed[i] \in Nat /\ Worked(L.book[i]) \in Nat
         /\ L.book[i].rev \in Nat /\ L.book[i].leaves \in Nat
         /\ L.book[i].qty \in Nat
         /\ OnBook(L, i) => i \in L.seen
<1>1. Fit(L.book[i])
  BY BookFits
<1> QED BY <1>1 DEF WellFormed, WellFormedAt, Ledger, Fit, Order, Worked

LEMMA MovesTrue ==
  ASSUME NEW L, NEW M, NEW i \in Id, WellFormed(L), WellFormed(M), TrueOf(L, i),
         Moves(L, M, i), M.executed[i] = L.executed[i], i \in M.seen <=> i \in L.seen
  PROVE  TrueOf(M, i)
<1>1. /\ L.executed[i] \in Nat /\ Worked(L.book[i]) \in Nat
      /\ OnBook(L, i) => i \in L.seen
      /\ OnBook(M, i) => i \in M.seen
  BY Counts
<1>2. CASE OnBook(M, i)
  BY <1>1, <1>2 DEF Moves, TrueOf
<1>3. CASE ~OnBook(M, i) /\ OnBook(L, i)
  BY <1>1, <1>3 DEF Moves, TrueOf, TellsFill
<1>4. CASE ~OnBook(M, i) /\ ~OnBook(L, i)
  BY <1>1, <1>4 DEF Moves, TrueOf
<1> QED BY <1>2, <1>3, <1>4

LEMMA DealsTrue ==
  ASSUME NEW L, NEW M, NEW id \in Id, NEW q \in Nat, WellFormed(L), WellFormed(M),
         TrueOf(L, id), Deals(L, M, id, q), OnBook(L, id) \/ id \notin L.seen,
         id \in M.seen
  PROVE  TrueOf(M, id)
<1>1. /\ L.executed[id] \in Nat
      /\ OnBook(L, id) => id \in L.seen
  BY Counts
<1>2. L.executed[id] = WorkedOff(L, id)
  BY <1>1 DEF TrueOf, WorkedOff
<1>3. M.executed[id] = L.executed[id] + q
  BY DEF Deals, WellFormed, Ledger
<1>4. OnBook(M, id) => M.executed[id] = Worked(M.book[id]) /\ M.book[id].leaves > 0
  BY <1>2, <1>3 DEF Deals
<1>5. TellsFill(M.closed[id]) => M.executed[id] > 0
  <2>1. CASE M.closed[id] = L.closed[id]
    BY <1>1, <1>3, <2>1 DEF TrueOf, TellsFill
  <2>2. CASE TellsFill(M.closed[id]) => WorkedOff(L, id) + q > 0
    BY <1>2, <1>3, <2>2
  <2> QED BY <2>1, <2>2 DEF Deals
<1>6. ~OnBook(M, id) => M.closed[id].status # "open"
  BY DEF Deals
<1>7. OnBook(M, id) /\ Terms[id].class # "stop" => M.closed[id].status = "open"
  BY <1>1 DEF Deals, TrueOf, NoRow
<1> QED BY <1>4, <1>5, <1>6, <1>7 DEF TrueOf

\* What a step is to one order: it is passed over, moved, worked or taken in.
LEMMA StepOfOne ==
  ASSUME NEW L, NEW M, NEW i \in Id, WellFormed(L), WellFormed(M),
         \/ Passes(L, M)
         \/ Links(L, M)
         \/ \E id \in Id, q \in Nat : Works(L, M, id, q) \/ Arrives(L, M, id, q)
  PROVE  \/ /\ Moves(L, M, i) /\ M.executed[i] = L.executed[i]
            /\ i \in M.seen <=> i \in L.seen
         \/ \E q \in Nat : Works(L, M, i, q) \/ Arrives(L, M, i, q)
<1>1. CASE Passes(L, M)
  <2>1. Spared(L, M, i)
    BY <1>1 DEF Passes, Spared
  <2> QED BY <1>1, <2>1, MovesSpared DEF Passes
<1>2. CASE Links(L, M)
  BY <1>2 DEF Links
<1>3. ASSUME NEW id \in Id, NEW q \in Nat, id # i, Works(L, M, id, q) \/ Arrives(L, M, id, q)
      PROVE  /\ Moves(L, M, i) /\ M.executed[i] = L.executed[i]
             /\ i \in M.seen <=> i \in L.seen
  <2>1. Deals(L, M, id, q)
    BY <1>3 DEF Works, Arrives
  <2>2. Moves(L, M, i)
    BY <1>3, <2>1 DEF Deals
  <2>3. M.executed[i] = L.executed[i]
    BY <1>3, <2>1 DEF Deals, WellFormed, Ledger
  <2>4. i \in M.seen <=> i \in L.seen
    BY <1>3 DEF Works, Arrives
  <2> QED BY <2>2, <2>3, <2>4
<1>4. ASSUME NEW id \in Id, NEW q \in Nat, Works(L, M, id, q) \/ Arrives(L, M, id, q)
      PROVE  \/ /\ Moves(L, M, i) /\ M.executed[i] = L.executed[i]
                /\ i \in M.seen <=> i \in L.seen
             \/ \E r \in Nat : Works(L, M, i, r) \/ Arrives(L, M, i, r)
  <2>1. CASE id = i
    BY <1>4, <2>1
  <2>2. CASE id # i
    BY <1>3, <1>4, <2>2
  <2> QED BY <2>1, <2>2
<1> QED BY <1>1, <1>2, <1>4

LEMMA StepTrue ==
  ASSUME NEW L, NEW M, NEW i \in Id, WellFormed(L), WellFormed(M), TrueOf(L, i),
         \/ Passes(L, M)
         \/ Links(L, M)
         \/ \E id \in Id, q \in Nat : Works(L, M, id, q) \/ Arrives(L, M, id, q)
  PROVE  TrueOf(M, i) /\ M.executed[i] >= L.executed[i]
<1>1. L.executed[i] \in Nat
  BY Counts
<1>2. CASE /\ Moves(L, M, i) /\ M.executed[i] = L.executed[i]
           /\ i \in M.seen <=> i \in L.seen
  BY <1>1, <1>2, MovesTrue
<1>3. ASSUME NEW q \in Nat, Works(L, M, i, q) \/ Arrives(L, M, i, q)
      PROVE  TrueOf(M, i) /\ M.executed[i] >= L.executed[i]
  <2>1. /\ Deals(L, M, i, q) /\ i \in M.seen
        /\ OnBook(L, i) \/ i \notin L.seen
    BY <1>3, Counts DEF Works, Arrives
  <2>2. M.executed[i] = L.executed[i] + q
    BY <2>1 DEF Deals, WellFormed, Ledger
  <2> QED BY <1>1, <2>1, <2>2, DealsTrue
<1> QED BY <1>2, <1>3, StepOfOne

LEMMA StepAsked ==
  ASSUME NEW L, NEW M, NEW k \in Walk, k # NoWalk => k.id \in Id,
         WellFormed(L), WellFormed(M), AskedOf(L, k),
         \/ Passes(L, M)
         \/ Links(L, M)
         \/ \E id \in Id, q \in Nat : Works(L, M, id, q) \/ Arrives(L, M, id, q)
  PROVE  AskedOf(M, k)
<1> SUFFICES ASSUME k # NoWalk PROVE AskedOf(M, k)
  BY DEF AskedOf
<1> DEFINE i == k.id
<1>1. i \in Id /\ k.rev \in Nat
  BY DEF Walk
<1>2. L.book[i].rev \in Nat /\ M.book[i].rev \in Nat
  BY <1>1, Counts
<1>3. /\ i \in L.seen /\ k.resting # "held"
      /\ OnBook(L, i) =>
           \/ L.book[i].rev > k.rev
           \/ /\ L.book[i].rev = k.rev
              /\ L.book[i].px = k.px
              /\ L.book[i].resting = k.resting
  BY DEF AskedOf
<1> HIDE DEF i
<1>4. CASE Moves(L, M, i) /\ (i \in M.seen <=> i \in L.seen)
  <2>1. OnBook(M, i) =>
           \/ M.book[i].rev > k.rev
           \/ /\ M.book[i].rev = k.rev
              /\ M.book[i].px = k.px
              /\ M.book[i].resting = k.resting
    BY <1>1, <1>2, <1>3, <1>4 DEF Moves
  <2> QED BY <1>3, <1>4, <2>1 DEF AskedOf, i
<1>5. ASSUME NEW q \in Nat, Works(L, M, i, q) \/ Arrives(L, M, i, q)
      PROVE  AskedOf(M, k)
  <2>1. Works(L, M, i, q)
    BY <1>3, <1>5 DEF Arrives
  <2>2. /\ i \in M.seen /\ OnBook(L, i)
        /\ OnBook(M, i) => M.book[i].rev > L.book[i].rev
    BY <1>3, <2>1 DEF Works
  <2>3. OnBook(M, i) => M.book[i].rev > k.rev
    BY <1>1, <1>2, <1>3, <2>2
  <2> QED BY <1>3, <2>2, <2>3 DEF AskedOf, i
<1> QED BY <1>1, <1>4, <1>5, StepOfOne

\* A walk is planned, or left alone, or reported and gone, its result applied
\* only if the order is where the walk was planned.
LEMMA WalksNext ==
  ASSUME IInv, [Next]_vars
  PROVE  \/ walks' = walks
         \/ \E w \in Walker : Reported(w) /\ (Current(w) \/ ledger' = ledger)
         \/ \E w \in Walker, id \in Id : PlanScan(w, id)
<1>1. ASSUME NEW id \in Id, Submit(id) PROVE walks' = walks
  BY <1>1, SubmitCase DEF Submitted
<1>2. ASSUME NEW id \in Id, MemberRefused(id) PROVE walks' = walks
  BY <1>2 DEF MemberRefused, Submitted
<1>3. ASSUME NEW id \in Id, Cancel(id) \/ VenueCancel(id) \/ Expire(id) \/ Ratchet(id)
      PROVE  walks' = walks
  BY <1>3 DEF Cancel, VenueCancel, Expire, Ratchet
<1>4. ASSUME NEW id \in Id, NEW qty, NEW newLevel, Modify(id, qty, newLevel)
      PROVE  walks' = walks
  BY <1>4 DEF Modify
<1>5. ASSUME NEW f \in Frames, GroupSubmit(f) PROVE walks' = walks
  BY <1>5 DEF GroupSubmit
<1>6. CASE GroupClose
  BY <1>6 DEF GroupClose
<1>7. ASSUME NEW arm \in Arms, ArmDivergence(arm) PROVE walks' = walks
  BY <1>7 DEF ArmDivergence
<1>8. ASSUME NEW w \in Walker, ScanMiss(w) \/ ScanHit(w) \/ ScanStale(w) \/ ScanDropped(w)
      PROVE  Reported(w) /\ (Current(w) \/ ledger' = ledger)
  BY <1>8 DEF ScanMiss, ScanHit, ScanStale, ScanDropped
<1>9. CASE UNCHANGED vars
  BY <1>9 DEF vars
<1> QED BY <1>1, <1>2, <1>3, <1>4, <1>5, <1>6, <1>7, <1>8, <1>9 DEF Next

\* What becomes of the members remembered for the closing pass.
Remembered(id, booked) ==
  /\ booked > 0 /\ ledger'.executed[id] > 0
  /\ group'.filled = Append(group.filled, [id |-> id, qty |-> booked])

LEMMA SubmitRemembers ==
  ASSUME BInv, WellFormed(ledger'), NEW id \in Id, Submit(id)
  PROVE  \/ group'.filled = group.filled
         \/ \E booked \in Nat : Remembered(id, booked)
<1>1. PICK booked \in Nat :
        /\ Submitted(id, ledger', booked)
        /\ \/ Passes(ledger, ledger') /\ booked = 0
           \/ booked = 0 /\ \E q \in Nat : Arrives(ledger, ledger', id, q)
           \/ Arrives(ledger, ledger', id, booked)
  BY SubmitCase DEF BInv
<1>2. CASE ~Member \/ ~(booked > 0)
  BY <1>1, <1>2 DEF Submitted, BInv, IInv, Group
<1>3. CASE Member /\ booked > 0
  <2>1. group'.filled = Append(group.filled, [id |-> id, qty |-> booked])
    BY <1>1, <1>3 DEF Submitted, BInv, IInv, Group
  <2>2. Deals(ledger, ledger', id, booked)
    BY <1>1, <1>3 DEF Arrives
  <2>3. ledger'.executed[id] = ledger.executed[id] + booked
    BY <2>2 DEF Deals, BInv, IInv, WellFormed, Ledger
  <2>4. ledger.executed[id] \in Nat
    BY DEF BInv, IInv, WellFormed, Ledger
  <2>5. ledger'.executed[id] > 0
    BY <1>3, <2>3, <2>4
  <2> QED BY <1>3, <2>1, <2>5 DEF Remembered
<1> QED BY <1>2, <1>3

LEMMA FilledNext ==
  ASSUME BInv, WellFormed(ledger'), [Next]_vars
  PROVE  \/ group'.filled = group.filled
         \/ group'.filled = <<>>
         \/ group.filled # <<>> /\ group'.filled = Tail(group.filled)
         \/ \E id \in Id, booked \in Nat : Remembered(id, booked)
<1>1. ASSUME NEW id \in Id, Submit(id)
      PROVE  \/ group'.filled = group.filled
             \/ \E booked \in Nat : Remembered(id, booked)
  BY <1>1, SubmitRemembers
<1>2. ASSUME NEW id \in Id, MemberRefused(id) PROVE group'.filled = group.filled
  BY <1>2 DEF MemberRefused, Submitted, BInv, IInv, Group
<1>3. ASSUME NEW id \in Id, Cancel(id) \/ VenueCancel(id) \/ Expire(id) \/ Ratchet(id)
      PROVE  group' = group
  BY <1>3 DEF Cancel, VenueCancel, Expire, Ratchet
<1>4. ASSUME NEW id \in Id, NEW qty, NEW newLevel, Modify(id, qty, newLevel)
      PROVE  group' = group
  BY <1>4 DEF Modify
<1>5. ASSUME NEW f \in Frames, GroupSubmit(f)
      PROVE  group' = group \/ group'.filled = <<>>
  BY <1>5 DEF GroupSubmit
<1>6. ASSUME GroupClose
      PROVE  \/ group'.filled = <<>>
             \/ group.filled # <<>> /\ group'.filled = Tail(group.filled)
  BY <1>6 DEF GroupClose, Idle, BInv, IInv, Group
<1>7. ASSUME NEW arm \in Arms, ArmDivergence(arm) PROVE group' = group
  BY <1>7 DEF ArmDivergence
<1>8. ASSUME NEW w \in Walker, ScanMiss(w) \/ ScanHit(w) \/ ScanStale(w) \/ ScanDropped(w)
      PROVE  group' = group
  BY <1>8 DEF ScanMiss, ScanHit, ScanStale, ScanDropped, Reported
<1>9. ASSUME NEW w \in Walker, NEW id \in Id, PlanScan(w, id) PROVE group' = group
  BY <1>9 DEF PlanScan
<1>10. CASE UNCHANGED vars
  BY <1>10 DEF vars
<1> QED BY <1>1, <1>2, <1>3, <1>4, <1>5, <1>6, <1>7, <1>8, <1>9, <1>10 DEF Next

LEMMA NextTruthful ==
  ASSUME BInv, IInv', [Next]_vars
  PROVE  /\ Truthful'
         /\ \A i \in Id : ledger'.executed[i] >= ledger.executed[i]
<1>1. /\ WellFormed(ledger) /\ WellFormed(ledger')
      /\ \A i \in Id : TrueOf(ledger, i)
  BY DEF BInv, IInv, Truthful
<1>2. StepCase
  BY NextCases
<1>3. \A i \in Id : TrueOf(ledger', i) /\ ledger'.executed[i] >= ledger.executed[i]
  BY <1>1, <1>2, StepTrue DEF StepCase
<1> QED BY <1>3 DEF Truthful

LEMMA NextAsked ==
  ASSUME BInv, IInv', [Next]_vars
  PROVE  Asked'
<1>1. /\ WellFormed(ledger) /\ WellFormed(ledger')
      /\ walks \in [Walker -> Walk]
      /\ \A w \in Walker : walks[w] # NoWalk => walks[w].id \in Id
      /\ \A w \in Walker : AskedOf(ledger, walks[w])
  BY DEF BInv, IInv, Asked
<1>2. StepCase
  BY NextCases
<1>3. ASSUME NEW w \in Walker PROVE AskedOf(ledger', walks[w])
  <2>1. walks[w] \in Walk
    BY <1>1
  <2> QED BY <1>1, <1>2, <2>1, StepAsked DEF StepCase
<1>4. AskedOf(ledger', NoWalk)
  BY DEF AskedOf
<1>5. CASE walks' = walks
  BY <1>3, <1>5 DEF Asked
<1>6. ASSUME NEW v \in Walker, Reported(v) PROVE Asked'
  <2>1. \A w \in Walker : walks'[w] = IF w = v THEN NoWalk ELSE walks[w]
    BY <1>1, <1>6 DEF Reported
  <2> QED BY <1>3, <1>4, <2>1 DEF Asked
<1>7. ASSUME NEW v \in Walker, NEW id \in Id, PlanScan(v, id) PROVE Asked'
  <2> DEFINE k == [id |-> id, rev |-> ledger.book[id].rev,
                   px |-> ledger.book[id].px, resting |-> ledger.book[id].resting]
  <2>1. \A w \in Walker : walks'[w] = IF w = v THEN k ELSE walks[w]
    BY <1>1, <1>7 DEF PlanScan
  <2>2. /\ OnBook(ledger, id) /\ ledger' = ledger
        /\ ledger.book[id].resting # "held"
    BY <1>7 DEF PlanScan, Holds
  <2>3. id \in ledger.seen
    BY <1>1, <2>2, Counts
  <2>4. AskedOf(ledger', k)
    BY <2>2, <2>3 DEF AskedOf
  <2> HIDE DEF k
  <2> QED BY <1>3, <2>1, <2>4 DEF Asked
<1>8. IInv
  BY DEF BInv
<1> QED BY <1>5, <1>6, <1>7, <1>8, WalksNext

LEMMA NextBooked ==
  ASSUME BInv, IInv', [Next]_vars
  PROVE  Booked'
<1> DEFINE f == group.filled
           g == group'.filled
           Q == [id : Id, qty : Nat]
           Up(k) == ledger'.executed[k.id] > 0
<1>1. /\ f \in Seq(Q) /\ WellFormed(ledger) /\ WellFormed(ledger')
      /\ \A k \in DOMAIN f : ledger.executed[f[k].id] > 0
  BY DEF BInv, IInv, Group, Booked
<1>2. \A k \in DOMAIN f : Up(f[k])
  <2>1. ASSUME NEW k \in DOMAIN f PROVE Up(f[k])
    <3> HIDE DEF f, Q
    <3>1. f[k] \in Q /\ ledger.executed[f[k].id] > 0
      BY <1>1, <2>1
    <3>2. f[k].id \in Id
      BY <3>1 DEF Q
    <3>3. ledger'.executed[f[k].id] >= ledger.executed[f[k].id]
      BY <3>2, NextTruthful
    <3>4. /\ ledger'.executed[f[k].id] \in Nat
          /\ ledger.executed[f[k].id] \in Nat
      BY <1>1, <3>2, Counts
    <3> QED BY <3>1, <3>3, <3>4
  <2> QED BY <2>1
<1>3. \A k \in DOMAIN g : Up(g[k])
  <2>1. CASE g = f
    BY <1>2, <2>1
  <2>2. CASE g = <<>>
    BY <2>2
  <2>3. CASE f # <<>> /\ g = Tail(f)
    <3> HIDE DEF f, g, Q, Up
    <3>1. ASSUME NEW k \in DOMAIN g PROVE Up(g[k])
      <4>1. k + 1 \in DOMAIN f /\ g[k] = f[k + 1]
        BY <1>1, <2>3, <3>1
      <4> QED BY <1>2, <4>1
    <3> QED BY <3>1
  <2>4. ASSUME NEW id \in Id, NEW booked \in Nat, Remembered(id, booked)
        PROVE  \A k \in DOMAIN g : Up(g[k])
    <3> DEFINE e == [id |-> id, qty |-> booked]
    <3>1. e \in Q /\ Up(e) /\ g = Append(f, e)
      BY <2>4 DEF Remembered
    <3> HIDE DEF f, g, Q, Up, e
    <3>2. ASSUME NEW k \in DOMAIN g PROVE Up(g[k])
      <4>1. \/ k \in DOMAIN f /\ g[k] = f[k]
            \/ g[k] = e
        BY <1>1, <3>1, <3>2
      <4> QED BY <1>2, <3>1, <4>1
    <3> QED BY <3>2
  <2> QED BY <1>1, <2>1, <2>2, <2>3, <2>4, FilledNext
<1> QED BY <1>3 DEF Booked

LEMMA InitBInv == Init => BInv
<1> SUFFICES ASSUME Init PROVE BInv
  OBVIOUS
<1>1. /\ ledger = EmptyLedger /\ group.filled = <<>>
      /\ \A w \in Walker : walks[w] = NoWalk
  BY DEF Init, Idle
<1>2. ASSUME NEW i \in Id PROVE TrueOf(ledger, i)
  <2>1. /\ ledger.book[i] = Absent /\ ledger.closed[i] = NoRow
        /\ ledger.seen = {} /\ ledger.executed[i] = 0
    BY <1>1 DEF EmptyLedger
  <2> QED BY <2>1 DEF TrueOf, OnBook, Absent, NoRow, TellsFill
<1>3. Asked
  BY <1>1 DEF Asked, AskedOf
<1> QED BY <1>1, <1>2, <1>3, InitIInv DEF BInv, Truthful, Booked

LEMMA NextBInv ==
  ASSUME BInv, [Next]_vars
  PROVE  BInv'
<1>1. IInv'
  BY NextIInv DEF BInv
<1> QED BY <1>1, NextTruthful, NextAsked, NextBooked DEF BInv

LEMMA BInvAlways == Spec => []BInv
BY InitBInv, NextBInv, PTL DEF Spec
----------------------------------------------------------------------------

\* The row QueryOrders reports for a working order agrees with the fill store:
\* no partial fill, amend or shrink by a sibling's fill leaves the leaves of an
\* order anything but its quantity less what it has executed.
THEOREM OpenRowsAlwaysTruthful == Spec => []OpenRowsTruthful
<1>1. BInv => OpenRowsTruthful
  BY DEF BInv, Truthful, TrueOf, Worked, OpenRowsTruthful
<1> QED BY BInvAlways, <1>1, PTL

\* A step that executes an order is about that order, and does its books.
LEMMA ExecutedDeals ==
  ASSUME BInv, [Next]_vars, NEW i \in Id, ledger'.executed[i] # ledger.executed[i]
  PROVE  \E q \in Nat :
           /\ q > 0 /\ Deals(ledger, ledger', i, q)
           /\ OnBook(ledger, i) \/ i \notin ledger.seen
<1>1. WellFormed(ledger) /\ WellFormed(ledger') /\ StepCase
  BY NextIInv, NextCases DEF BInv, IInv
<1>2. PICK q \in Nat : Works(ledger, ledger', i, q) \/ Arrives(ledger, ledger', i, q)
  BY <1>1, StepOfOne DEF StepCase
<1>3. /\ Deals(ledger, ledger', i, q)
      /\ OnBook(ledger, i) \/ i \notin ledger.seen
  BY <1>2 DEF Works, Arrives
<1>4. ledger.executed[i] \in Nat /\ ledger'.executed[i] = ledger.executed[i] + q
  BY <1>1, <1>3 DEF Deals, WellFormed, Ledger
<1>5. q > 0
  BY <1>4
<1> QED BY <1>3, <1>5


\* The evidence of a tape walk is only ever applied to the question it was
\* asked, whatever was amended, released, triggered or filled while it ran
\* outside the lock.
THEOREM WalksAnswerTheirQuestion == Spec => AnswersItsQuestion
<1> DEFINE Answers(w) ==
             LET id == walks[w].id IN
             walks[w] # NoWalk /\ walks'[w] = NoWalk /\ ledger'.executed # ledger.executed
             => /\ ledger.book[id].px = walks[w].px
                /\ ledger.book[id].resting = walks[w].resting
<1>1. ASSUME BInv, [Next]_vars, NEW w \in Walker PROVE Answers(w)
  <2>1. IInv /\ walks \in [Walker -> Walk]
    BY <1>1 DEF BInv, IInv
  <2>2. CASE Current(w)
    BY <1>1, <2>2, CurrentWorks
  <2>3. ASSUME NEW v \in Walker, Reported(v), Current(v) \/ ledger' = ledger
        PROVE  Answers(w)
    <3>1. v # w => walks'[w] = walks[w]
      BY <2>1, <2>3 DEF Reported
    <3> QED BY <2>2, <2>3, <3>1
  <2>4. ASSUME NEW v \in Walker, NEW id \in Id, PlanScan(v, id) PROVE Answers(w)
    BY <2>4 DEF PlanScan
  <2>5. CASE walks' = walks
    BY <2>5
  <2> HIDE DEF Answers
  <2> QED BY <1>1, <2>1, <2>3, <2>4, <2>5, WalksNext
<1>2. BInv /\ [Next]_vars => [\A w \in Walker : Answers(w)]_vars
  BY <1>1
<1> QED BY BInvAlways, <1>2, PTL DEF Spec, AnswersItsQuestion

\* A reduce-only order brings the netted position toward zero and never
\* through it, whether it fills on arrival, at its trigger or when the tape
\* prints through it, and whatever was planned before.
THEOREM ReduceOnlyAlwaysReduces == Spec => ReduceOnlyReduces
<1> DEFINE Reduces(id) ==
             Terms[id].reduceOnly /\ ledger'.executed[id] # ledger.executed[id]
             => \/ 0 <= ledger'.position /\ ledger'.position < ledger.position
                \/ 0 >= ledger'.position /\ ledger'.position > ledger.position
<1>1. ASSUME BInv, [Next]_vars, NEW i \in Id PROVE Reduces(i)
  <2> SUFFICES ASSUME Terms[i].reduceOnly, ledger'.executed[i] # ledger.executed[i]
               PROVE  \/ 0 <= ledger'.position /\ ledger'.position < ledger.position
                      \/ 0 >= ledger'.position /\ ledger'.position > ledger.position
    OBVIOUS
  <2>1. PICK q \in Nat : q > 0 /\ Deals(ledger, ledger', i, q)
    BY <1>1, ExecutedDeals
  <2>2. /\ ledger'.position = ledger.position + Terms[i].side * q
        /\ q <= -(ledger.position * Terms[i].side)
    BY <2>1 DEF Deals
  <2>3. ledger.position \in Int /\ Terms[i].side \in {1, -1}
    BY <1>1, TermsType DEF BInv, IInv, WellFormed, Ledger
  <2>4. CASE Terms[i].side = 1
    BY <2>1, <2>2, <2>3, <2>4
  <2>5. CASE Terms[i].side = -1
    BY <2>1, <2>2, <2>3, <2>5
  <2> QED BY <2>3, <2>4, <2>5
<1> DEFINE A == \A id \in Id : Reduces(id)
<1>2. BInv /\ [Next]_vars => [A]_vars
  BY <1>1
<1>3. Spec => [][A]_vars
  <2> HIDE DEF A
  <2> QED BY BInvAlways, <1>2, PTL DEF Spec
<1> QED BY <1>3 DEF ReduceOnlyReduces

\* An order recorded terminal never executes again, of every type but those
\* that trade as a market order when triggered.
ClosedStaysShut ==
  [][\A id \in Id :
       Terms[id].class # "stop" /\ Closed(id)
       => ledger'.executed[id] = ledger.executed[id]]_vars

\* The remainder a triggered stop leaves on the book after it is recorded
\* canceled is the only way a terminal order fills again.
THEOREM OnlyStopsFillAfterClose == Spec => ClosedStaysShut
<1> DEFINE Shut(id) == Terms[id].class # "stop" /\ Closed(id)
                      => ledger'.executed[id] = ledger.executed[id]
<1>1. ASSUME BInv, [Next]_vars, NEW i \in Id PROVE Shut(i)
  <2>1. TrueOf(ledger, i)
    BY <1>1 DEF BInv, Truthful
  <2>2. Closed(i) /\ Terms[i].class # "stop" => ~OnBook(ledger, i) /\ i \in ledger.seen
    BY <2>1 DEF TrueOf, Closed, NoRow
  <2> QED BY <1>1, <2>2, ExecutedDeals
<1> DEFINE A == \A id \in Id : Shut(id)
<1>2. BInv /\ [Next]_vars => [A]_vars
  BY <1>1
<1>3. Spec => [][A]_vars
  <2> HIDE DEF A
  <2> QED BY BInvAlways, <1>2, PTL DEF Spec
<1> QED BY <1>3 DEF ClosedStaysShut

\* Without stops, no terminal order ever executes.
THEOREM NoFillAfterCloseWithoutStops ==
  ASSUME \A id \in Id : Terms[id].class # "stop"
  PROVE  Spec => NoFillAfterClose
<1> DEFINE Shut(id) == Closed(id) => ledger'.executed[id] = ledger.executed[id]
           A == \A id \in Id : Shut(id)
<1>1. ASSUME BInv, [Next]_vars, NEW i \in Id PROVE Shut(i)
  <2>1. TrueOf(ledger, i)
    BY <1>1 DEF BInv, Truthful
  <2>2. Closed(i) => ~OnBook(ledger, i) /\ i \in ledger.seen
    BY <2>1 DEF TrueOf, Closed, NoRow
  <2> QED BY <1>1, <2>2, ExecutedDeals
<1>2. BInv /\ [Next]_vars => [A]_vars
  BY <1>1
<1>3. Spec => [][A]_vars
  <2> HIDE DEF A
  <2> QED BY BInvAlways, <1>2, PTL DEF Spec
<1> QED BY <1>3 DEF NoFillAfterClose
----------------------------------------------------------------------------
(* The life of an order.                                                   *)

\* Where an order that is never lost stands.
Stands(L, i) == IF i \notin L.seen THEN "new"
                ELSE IF ~OnBook(L, i) THEN "done"
                ELSE IF Waiting(L, i) THEN "waiting"
                ELSE "working"

LEMMA PhaseStands ==
  ASSUME BInv, NEW i \in Id, Terms[i].class # "stop"
  PROVE  Phase(i) = Stands(ledger, i)
<1>1. TrueOf(ledger, i) /\ (OnBook(ledger, i) => i \in ledger.seen)
  BY Counts DEF BInv, IInv, Truthful
<1>2. Closed(i) <=> i \in ledger.seen /\ ~OnBook(ledger, i)
  BY <1>1 DEF TrueOf, Closed, NoRow
<1>3. Held(i) <=> Waiting(ledger, i)
  BY DEF Held, Waiting
<1>4. Waiting(ledger, i) => OnBook(ledger, i)
  BY DEF Waiting, OnBook
<1> QED BY <1>1, <1>2, <1>3, <1>4 DEF Phase, Stands

LEMMA NextPhaseStands ==
  ASSUME BInv', NEW i \in Id, Terms[i].class # "stop"
  PROVE  Phase(i)' = Stands(ledger', i)
<1>1. TrueOf(ledger', i) /\ (OnBook(ledger', i) => i \in ledger'.seen)
  BY Counts DEF BInv, IInv, Truthful
<1>2. Closed(i)' <=> i \in ledger'.seen /\ ~OnBook(ledger', i)
  BY <1>1 DEF TrueOf, Closed, NoRow
<1>3. Held(i)' <=> Waiting(ledger', i)
  BY DEF Held, Waiting
<1>4. Waiting(ledger', i) => OnBook(ledger', i)
  BY DEF Waiting, OnBook
<1> QED BY <1>1, <1>2, <1>3, <1>4 DEF Phase, Stands

\* The steps of OrderLifecycle, of two ledgers.
Fed(M, i) == Terms[i].parent = NoId \/ M.executed[Terms[i].parent] > 0

Lives(L, M, i) ==
  LET same == M.executed[i] = L.executed[i]
      up   == M.executed[i] >= L.executed[i]
  IN  \/ /\ Stands(L, i) = "new"
         /\ \/ Stands(M, i) = "waiting" /\ same /\ ~Fed(M, i)
            \/ Stands(M, i) \in {"working", "done"} /\ up /\ Fed(M, i)
      \/ Stands(L, i) = "waiting" /\ Stands(M, i) = "working" /\ Fed(M, i) /\ same
      \/ Stands(L, i) = "working" /\ Stands(M, i) \in {"working", "done"} /\ up
      \/ Stands(L, i) = "waiting" /\ Stands(M, i) = "done" /\ same
      \/ Stands(M, i) = Stands(L, i) /\ same

LEMMA MovedLives ==
  ASSUME NEW L, NEW M, NEW i \in Id, WellFormed(L), WellFormed(M), Moves(L, M, i),
         M.executed[i] = L.executed[i], i \in M.seen <=> i \in L.seen
  PROVE  Lives(L, M, i)
<1>1. /\ L.executed[i] \in Nat
      /\ OnBook(L, i) => i \in L.seen
      /\ OnBook(M, i) => i \in M.seen
  BY Counts
<1>2. CASE OnBook(M, i)
  <2>1. /\ OnBook(L, i) /\ (Waiting(M, i) => Waiting(L, i))
        /\ Waiting(L, i) /\ ~Waiting(M, i) => Fed(M, i)
    BY <1>2 DEF Moves, Fed
  <2> QED BY <1>1, <1>2, <2>1 DEF Lives, Stands
<1>3. CASE ~OnBook(M, i)
  BY <1>1, <1>3 DEF Lives, Stands
<1> QED BY <1>2, <1>3

LEMMA WorkedLives ==
  ASSUME NEW L, NEW M, NEW i \in Id, NEW q \in Nat, WellFormed(L), WellFormed(M),
         Works(L, M, i, q)
  PROVE  Lives(L, M, i)
<1>1. /\ L.executed[i] \in Nat
      /\ OnBook(L, i) => i \in L.seen
      /\ M.executed[i] = L.executed[i] + q
  BY Counts DEF Works, Deals, WellFormed, Ledger
<1>2. /\ OnBook(L, i) /\ M.seen = L.seen
      /\ Waiting(L, i) => q = 0
      /\ OnBook(M, i) => (Waiting(M, i) <=> Waiting(L, i))
  BY DEF Works
<1>3. M.executed[i] >= L.executed[i] /\ (q = 0 => M.executed[i] = L.executed[i])
  BY <1>1
<1> QED BY <1>1, <1>2, <1>3 DEF Lives, Stands

LEMMA ArrivedLives ==
  ASSUME NEW L, NEW M, NEW i \in Id, NEW q \in Nat, WellFormed(L), WellFormed(M),
         \A j \in Id : TrueOf(L, j),
         NEW frame, LinkOK(L, i, frame), Arrives(L, M, i, q)
  PROVE  Lives(L, M, i)
<1> DEFINE p == Terms[i].parent
<1>1. /\ L.executed \in [Id -> Nat]
      /\ M.executed = [L.executed EXCEPT ![i] = @ + q]
      /\ i \notin L.seen /\ i \in M.seen
  BY DEF Arrives, Deals, WellFormed, Ledger
<1>2. p = NoId \/ p \in Id
  BY TermsAssumption DEF OrderTerms
<1>3. CASE p # NoId /\ ~HasFilled(L, p)
  <2>1. q = 0 /\ Waiting(M, i)
    BY <1>3 DEF Arrives
  <2>2. OnBook(M, i)
    BY <2>1 DEF Waiting, OnBook
  <2>3. p \in Id /\ TrueOf(L, p) /\ Worked(L.book[p]) \in Nat
    BY <1>2, <1>3, Counts
  <2>4. OnBook(L, p) \/ p \notin L.seen
    BY <1>3 DEF LinkOK
  <2>5. L.book[p].leaves \in Nat /\ L.book[p].qty \in Nat
    BY <2>3, Counts
  <2>6. L.executed[p] = 0
    <3>1. CASE p \notin L.seen
      BY <2>3, <3>1 DEF TrueOf
    <3>2. CASE OnBook(L, p)
      BY <1>3, <2>3, <2>5, <3>2 DEF TrueOf, HasFilled, Worked
    <3> QED BY <2>4, <3>1, <3>2
  <2>7. M.executed[p] = 0 /\ M.executed[i] = L.executed[i]
    BY <1>1, <2>1, <2>3, <2>6
  <2>8. ~Fed(M, i)
    BY <1>3, <2>7 DEF Fed
  <2> QED BY <1>1, <2>1, <2>2, <2>7, <2>8 DEF Lives, Stands
<1>4. CASE p = NoId \/ HasFilled(L, p)
  <2>1. ~Waiting(M, i)
    BY <1>4 DEF Arrives
  <2>2. M.executed[i] >= L.executed[i]
    BY <1>1
  <2>3. Fed(M, i)
    <3>1. CASE p = NoId
      BY <3>1 DEF Fed
    <3>2. CASE p # NoId
      <4>1. p \in Id /\ TrueOf(L, p) /\ HasFilled(L, p)
        BY <1>2, <1>4, <3>2
      <4>2. /\ L.book[p].leaves \in Nat /\ L.book[p].qty \in Nat
        BY <4>1, Counts
      <4>3. L.executed[p] > 0
        BY <4>1, <4>2 DEF TrueOf, HasFilled, TellsFill, Worked
      <4>4. M.executed[p] >= L.executed[p] /\ M.executed[p] \in Nat
        BY <1>1, <4>1
      <4> HIDE DEF p
      <4>5. L.executed[p] \in Nat
        BY <1>1, <4>1
      <4>6. M.executed[p] > 0
        BY <4>3, <4>4, <4>5
      <4> QED BY <4>6 DEF Fed, p
    <3> QED BY <3>1, <3>2
  <2> QED BY <1>1, <2>1, <2>2, <2>3 DEF Lives, Stands
<1> QED BY <1>3, <1>4

LEMMA StepLives ==
  ASSUME BInv, [Next]_vars, NEW i \in Id
  PROVE  Lives(ledger, ledger', i)
<1>1. /\ WellFormed(ledger) /\ WellFormed(ledger')
      /\ \A j \in Id : TrueOf(ledger, j)
  BY NextIInv DEF BInv, IInv, Truthful
<1>2. StepCase
  BY NextCases
<1>3. ASSUME NEW id \in Id, NEW q \in Nat, Arrives(ledger, ledger', id, q), Admissible(id)
      PROVE  Lives(ledger, ledger', i)
  <2>1. CASE id = i
    <3>1. LinkOK(ledger, i, group.frame)
      BY <1>3, <2>1 DEF Admissible
    <3> QED BY <1>1, <1>3, <2>1, <3>1, ArrivedLives
  <2>2. CASE id # i
    <3>1. Deals(ledger, ledger', id, q)
      BY <1>3 DEF Arrives
    <3>2. Moves(ledger, ledger', i)
      BY <2>2, <3>1 DEF Deals
    <3>3. ledger'.executed[i] = ledger.executed[i]
      BY <1>1, <2>2, <3>1 DEF Deals, WellFormed, Ledger
    <3>4. i \in ledger'.seen <=> i \in ledger.seen
      BY <1>3, <2>2 DEF Arrives
    <3> QED BY <1>1, <3>2, <3>3, <3>4, MovedLives
  <2> QED BY <2>1, <2>2
<1>4. ASSUME \/ Passes(ledger, ledger')
             \/ Links(ledger, ledger')
             \/ \E id \in Id, q \in Nat : Works(ledger, ledger', id, q)
      PROVE  Lives(ledger, ledger', i)
  <2>1. \/ /\ Moves(ledger, ledger', i) /\ ledger'.executed[i] = ledger.executed[i]
           /\ i \in ledger'.seen <=> i \in ledger.seen
        \/ \E q \in Nat : Works(ledger, ledger', i, q) \/ Arrives(ledger, ledger', i, q)
    BY <1>1, <1>4, StepOfOne
  <2>2. ASSUME NEW q \in Nat, Arrives(ledger, ledger', i, q) PROVE FALSE
    <3>1. i \notin ledger.seen /\ ledger'.seen = ledger.seen \cup {i}
      BY <2>2 DEF Arrives
    <3>2. ledger'.seen = ledger.seen
      BY <1>4 DEF Passes, Links, Works
    <3> QED BY <3>1, <3>2
  <2> QED BY <1>1, <2>1, <2>2, MovedLives, WorkedLives
<1> QED BY <1>2, <1>3, <1>4 DEF StepCase

\* The book of an engine without stops gives every order the life
\* OrderLifecycle promises: the handlers that touch many orders at once lose
\* none, execute none that waits, release none before its parent has executed
\* and revive none that is done.
THEOREM EngineImplementsLifecycle ==
  ASSUME \A id \in Id : Terms[id].class # "stop"
  PROVE  Spec => Lifecycle
<1>1. Init => Life!Init
  <2> SUFFICES ASSUME Init PROVE Life!Init
    OBVIOUS
  <2>1. /\ ledger.executed = [i \in Id |-> 0] /\ ledger.seen = {}
    BY DEF Init, EmptyLedger
  <2>2. BInv
    BY InitBInv
  <2>3. ASSUME NEW i \in Id PROVE Phase(i) = "new"
    BY <2>1, <2>2, PhaseStands DEF Stands
  <2> QED BY <2>1, <2>3 DEF Life!Init
<1>2. ASSUME BInv, [Next]_vars PROVE Life!Next
  <2>1. BInv'
    BY <1>2, NextBInv
  <2> DEFINE phase == [id \in Id |-> Phase(id)]
             nextPhase == [id \in Id |-> Phase(id)']
             parent == [id \in Id |-> Terms[id].parent]
  <2>2. ASSUME NEW i \in Id
        PROVE  /\ phase[i] = Stands(ledger, i)
               /\ nextPhase[i] = Stands(ledger', i)
               /\ parent[i] = Terms[i].parent
               /\ Lives(ledger, ledger', i)
    BY <1>2, <2>1, PhaseStands, NextPhaseStands, StepLives
  <2> HIDE DEF phase, nextPhase, parent
  <2>3. ASSUME NEW i \in Id
        PROVE  LET fed  == parent[i] = NoId \/ ledger'.executed[parent[i]] > 0
                   same == ledger'.executed[i] = ledger.executed[i]
                   up   == ledger'.executed[i] >= ledger.executed[i]
               IN  \/ /\ phase[i] = "new"
                      /\ \/ nextPhase[i] = "waiting" /\ same /\ ~fed
                         \/ nextPhase[i] \in {"working", "done"} /\ up /\ fed
                   \/ phase[i] = "waiting" /\ nextPhase[i] = "working" /\ fed /\ same
                   \/ phase[i] = "working" /\ nextPhase[i] \in {"working", "done"} /\ up
                   \/ phase[i] = "waiting" /\ nextPhase[i] = "done" /\ same
                   \/ nextPhase[i] = phase[i] /\ same
    BY <2>2 DEF Lives, Fed
  <2> QED BY <2>3 DEF Life!Next, Life!Place, Life!Release, Life!Work, Life!Abandon,
                      Life!Rests, Life!ParentExecuted, Life!Keeps,
                      phase, nextPhase, parent
<1>3. BInv /\ [Next]_vars => [Life!Next]_(Life!vars)
  BY <1>2
<1> QED BY BInvAlways, <1>1, <1>3, PTL DEF Spec, Lifecycle, Life!Spec
----------------------------------------------------------------------------
(***************************************************************************)
(* Order lists: who waits for whom, and what siblings take of each other.  *)
(***************************************************************************)

\* An order a child may wait for: on the book with nothing worked off.
Open(L, p) == OnBook(L, p) /\ ~HasFilled(L, p)

\* From L to M nothing starts to wait, and nothing goes on waiting whose
\* parent has closed or filled on the way, the parents in X excepted.
Minds(L, M, X) ==
  \A c \in Id : Waiting(M, c) =>
    /\ Waiting(L, c)
    /\ Terms[c].parent \in Id \ X /\ Open(L, Terms[c].parent)
       => Open(M, Terms[c].parent)

\* Nothing waits for p.
Freed(L, p) == \A c \in Id : Waiting(L, c) => Terms[c].parent # p

\* From L to M nothing comes on the book and nothing on it has more left, but
\* for the orders in X.
Wanes(L, M, X) ==
  \A i \in Id \ X : OnBook(M, i) =>
    OnBook(L, i) /\ M.book[i].leaves <= L.book[i].leaves

LEMMA OpenBook ==
  ASSUME NEW L, NEW p
  PROVE  Open(L, p) <=> OnBook(L, p) /\ ~(L.book[p].leaves < L.book[p].qty)
BY DEF Open, HasFilled

LEMMA MindsTransitive ==
  ASSUME NEW L, NEW M, NEW N, NEW X, Minds(L, M, X), Minds(M, N, X)
  PROVE  Minds(L, N, X)
BY DEF Minds

LEMMA MindsMore ==
  ASSUME NEW L, NEW M, NEW X, Minds(L, M, {})
  PROVE  Minds(L, M, X)
BY DEF Minds

LEMMA FreedStays ==
  ASSUME NEW L, NEW M, NEW X, NEW p, Freed(L, p), Minds(L, M, X)
  PROVE  Freed(M, p)
BY DEF Minds, Freed

\* A parent nothing waits for any more is no exception.
LEMMA MindsFreed ==
  ASSUME NEW L, NEW M, NEW x, Minds(L, M, {x}), Freed(M, x)
  PROVE  Minds(L, M, {})
BY DEF Minds, Freed

LEMMA WanesTransitive ==
  ASSUME NEW L, NEW M, NEW N, WellFormed(L), WellFormed(M), WellFormed(N),
         NEW X, Wanes(L, M, X), Wanes(M, N, X)
  PROVE  Wanes(L, N, X)
<1>1. ASSUME NEW i \in Id \ X, OnBook(N, i)
      PROVE  OnBook(L, i) /\ N.book[i].leaves <= L.book[i].leaves
  <2>1. /\ L.book[i].leaves \in Nat /\ M.book[i].leaves \in Nat
        /\ N.book[i].leaves \in Nat
    BY BookFits DEF Fit, Order
  <2> QED BY <1>1, <2>1 DEF Wanes
<1> QED BY <1>1 DEF Wanes

LEMMA WanesMore ==
  ASSUME NEW L, NEW M, NEW X, Wanes(L, M, {})
  PROVE  Wanes(L, M, X)
BY DEF Wanes

\* What only books a fill, an acceptance or an arm.
LEMMA SameBook ==
  ASSUME NEW L, WellFormed(L), NEW M, M.book = L.book
  PROVE  Minds(L, M, {}) /\ Wanes(L, M, {})
<1>1. \A i \in Id : L.book[i].leaves \in Nat
  BY BookFits DEF Fit, Order
<1> QED BY <1>1, OpenBook DEF Minds, Wanes, Waiting, OnBook

\* A set of orders canceled with the held children of those that were open.
LEMMA CancelAllMinds ==
  ASSUME NEW L, WellFormed(L), NEW D,
         \A c \in Id : Waiting(L, c) /\ Terms[c].parent \in D /\ Open(L, Terms[c].parent)
                       => c \in D
  PROVE  /\ Minds(L, CancelAll(L, D), {}) /\ Wanes(L, CancelAll(L, D), {})
         /\ \A i \in Id : i \in D => ~OnBook(CancelAll(L, D), i)
<1> DEFINE M == CancelAll(L, D)
<1>1. M.book = [i \in Id |-> IF i \in D THEN Absent ELSE L.book[i]]
  BY DEF CancelAll, WellFormed, Ledger
<1> HIDE DEF M
<1>2. \A i \in Id : /\ i \in D => ~OnBook(M, i)
                    /\ i \notin D => M.book[i] = L.book[i]
  BY <1>1 DEF OnBook, Absent
<1>3. \A i \in Id : L.book[i].leaves \in Nat
  BY BookFits DEF Fit, Order
<1>4. Wanes(L, M, {})
  BY <1>2, <1>3 DEF Wanes, OnBook
<1>5. ASSUME NEW c \in Id, Waiting(M, c)
      PROVE  /\ Waiting(L, c)
             /\ Terms[c].parent \in Id /\ Open(L, Terms[c].parent)
                => Open(M, Terms[c].parent)
  <2>1. c \notin D /\ Waiting(L, c)
    BY <1>2, <1>5 DEF Waiting, OnBook
  <2>2. ASSUME Terms[c].parent \in Id, Open(L, Terms[c].parent)
        PROVE  Open(M, Terms[c].parent)
    <3>1. Terms[c].parent \notin D
      BY <2>1, <2>2
    <3>2. M.book[Terms[c].parent] = L.book[Terms[c].parent]
      BY <1>2, <2>2, <3>1
    <3> QED BY <2>2, <3>2, OpenBook DEF OnBook
  <2> QED BY <2>1, <2>2
<1>6. Minds(L, M, {})
  BY <1>5 DEF Minds
<1> QED BY <1>2, <1>4, <1>6 DEF M

\* The held orders below x are those that wait for x or for one of them.
LEMMA HeldBelowClosed ==
  ASSUME NEW L, NEW x, NEW c \in Id, Waiting(L, c),
         Terms[c].parent = x \/ Terms[c].parent \in HeldBelow(L, x)
  PROVE  c \in HeldBelow(L, x)
<1> DEFINE held == {d \in Id : L.book[d].resting = "held"}
           Complete(D) == \A p \in D \cup {x} : HeldChildren(L, p) \subseteq D
<1>1. HeldBelow(L, x) = {d \in held : \A D \in SUBSET held : Complete(D) => d \in D}
  BY DEF HeldBelow
<1>2. c \in held /\ c \in HeldChildren(L, Terms[c].parent)
  BY DEF Waiting, HeldChildren
<1>3. ASSUME NEW D \in SUBSET held, Complete(D) PROVE c \in D
  <2>1. Terms[c].parent \in D \cup {x}
    BY <1>1, <1>3
  <2> QED BY <1>2, <1>3, <2>1
<1> HIDE DEF held, Complete
<1> QED BY <1>1, <1>2, <1>3

LEMMA ReapChildrenMinds ==
  ASSUME NEW L, WellFormed(L), NEW x
  PROVE  /\ Minds(L, ReapChildren(L, x), {}) /\ Wanes(L, ReapChildren(L, x), {})
         /\ Freed(ReapChildren(L, x), x)
<1> DEFINE D == HeldBelow(L, x)
           M == ReapChildren(L, x)
<1>1. M = CancelAll(L, D)
  BY DEF ReapChildren
<1>2. \A c \in Id : Waiting(L, c) /\ (Terms[c].parent = x \/ Terms[c].parent \in D)
                    => c \in D
  BY HeldBelowClosed
<1> HIDE DEF D, M
<1>3. /\ Minds(L, M, {}) /\ Wanes(L, M, {})
      /\ \A i \in Id : i \in D => ~OnBook(M, i)
  BY <1>1, <1>2, CancelAllMinds
<1>4. Freed(M, x)
  <2>1. ASSUME NEW c \in Id, Waiting(M, c) PROVE Terms[c].parent # x
    <3>1. Waiting(L, c) /\ c \notin D
      BY <1>3, <2>1 DEF Minds, Waiting, OnBook
    <3> QED BY <1>2, <3>1
  <2> QED BY <2>1 DEF Freed
<1> QED BY <1>3, <1>4 DEF M

LEMMA CancelSiblingsMinds ==
  ASSUME NEW L, WellFormed(L), NEW S
  PROVE  /\ Minds(L, CancelSiblings(L, S), {}) /\ Wanes(L, CancelSiblings(L, S), {})
         /\ \A i \in Id : i \in S => ~OnBook(CancelSiblings(L, S), i)
<1> DEFINE D == S \cup UNION {HeldBelow(L, s) : s \in {t \in S : ~HasFilled(L, t)}}
<1>1. CancelSiblings(L, S) = CancelAll(L, D)
  BY DEF CancelSiblings
<1>2. ASSUME NEW c \in Id, Waiting(L, c), Terms[c].parent \in D, Open(L, Terms[c].parent)
      PROVE  c \in D
  <2>1. CASE Terms[c].parent \in S
    <3>1. ~HasFilled(L, Terms[c].parent)
      BY <1>2 DEF Open
    <3>2. c \in HeldBelow(L, Terms[c].parent)
      BY <1>2, HeldBelowClosed
    <3> QED BY <2>1, <3>1, <3>2
  <2>2. ASSUME NEW s \in S, ~HasFilled(L, s), Terms[c].parent \in HeldBelow(L, s)
        PROVE  c \in D
    <3>1. c \in HeldBelow(L, s)
      BY <1>2, <2>2, HeldBelowClosed
    <3> QED BY <2>2, <3>1
  <2> QED BY <1>2, <2>1, <2>2
<1>3. S \subseteq D
  OBVIOUS
<1> HIDE DEF D
<1> QED BY <1>1, <1>2, <1>3, CancelAllMinds

\* From L to M the siblings of id give way to a fill of q: those of an Oco
\* order are off the book, those of an Ouo order have q less left.
Yields(L, M, id, q) ==
  \A s \in Terms[id].links :
    /\ Terms[id].rule = "oco" => ~OnBook(M, s)
    /\ Terms[id].rule = "ouo" /\ OnBook(M, s) =>
         OnBook(L, s) /\ M.book[s].leaves + q <= L.book[s].leaves

\* A fill that was given way to is given way to by what follows.
LEMMA YieldsStays ==
  ASSUME NEW L, NEW M, NEW N, WellFormed(L), WellFormed(M), WellFormed(N),
         NEW id \in Id, NEW q \in Nat, NEW X, Terms[id].links \cap X = {},
         Yields(L, M, id, q), Wanes(M, N, X)
  PROVE  Yields(L, N, id, q)
<1>1. ASSUME NEW s \in Terms[id].links
      PROVE  /\ Terms[id].rule = "oco" => ~OnBook(N, s)
             /\ Terms[id].rule = "ouo" /\ OnBook(N, s) =>
                  OnBook(L, s) /\ N.book[s].leaves + q <= L.book[s].leaves
  <2>1. s \in Id \ X
    BY TermsType
  <2>2. /\ L.book[s].leaves \in Nat /\ M.book[s].leaves \in Nat
        /\ N.book[s].leaves \in Nat
    BY <2>1, BookFits DEF Fit, Order
  <2>3. OnBook(N, s) => OnBook(M, s) /\ N.book[s].leaves <= M.book[s].leaves
    BY <2>1 DEF Wanes
  <2> QED BY <2>2, <2>3 DEF Yields
<1> QED BY <1>1 DEF Yields

\* And what came before it only left more to give.
LEMMA YieldsBefore ==
  ASSUME NEW L, NEW M, NEW N, WellFormed(L), WellFormed(M), WellFormed(N),
         NEW id \in Id, NEW q \in Nat, NEW X, Terms[id].links \cap X = {},
         Wanes(L, M, X), Yields(M, N, id, q)
  PROVE  Yields(L, N, id, q)
<1>1. ASSUME NEW s \in Terms[id].links
      PROVE  /\ Terms[id].rule = "oco" => ~OnBook(N, s)
             /\ Terms[id].rule = "ouo" /\ OnBook(N, s) =>
                  OnBook(L, s) /\ N.book[s].leaves + q <= L.book[s].leaves
  <2>1. s \in Id \ X
    BY TermsType
  <2>2. /\ L.book[s].leaves \in Nat /\ M.book[s].leaves \in Nat
        /\ N.book[s].leaves \in Nat
    BY <2>1, BookFits DEF Fit, Order
  <2>3. OnBook(M, s) => OnBook(L, s) /\ M.book[s].leaves <= L.book[s].leaves
    BY <2>1 DEF Wanes
  <2> QED BY <2>2, <2>3 DEF Yields
<1> QED BY <1>1 DEF Yields

LEMMA ReleaseChildrenMinds ==
  ASSUME NEW L, WellFormed(L), NEW parent
  PROVE  /\ Minds(L, ReleaseChildren(L, parent), {})
         /\ Wanes(L, ReleaseChildren(L, parent), {})
         /\ Freed(ReleaseChildren(L, parent), parent)
<1> DEFINE M == ReleaseChildren(L, parent)
           C == HeldChildren(L, parent)
<1>1. M.book = [i \in Id |-> IF i \in C THEN Released(i, L.book[i]) ELSE L.book[i]]
  BY DEF ReleaseChildren, WellFormed, Ledger
<1> HIDE DEF M
<1>2. ASSUME NEW i \in C
      PROVE  /\ OnBook(M, i) /\ OnBook(L, i) /\ ~Waiting(M, i)
             /\ M.book[i].leaves = L.book[i].leaves /\ M.book[i].qty = L.book[i].qty
  <2> DEFINE o == L.book[i]
  <2>1. i \in Id /\ OnBook(L, i)
    BY DEF HeldChildren, OnBook
  <2>2. M.book[i] = [o EXCEPT !.resting = LiveResting(i), !.px = @ + 1, !.rev = @ + 1]
    BY <1>1, <2>1 DEF Released
  <2>3. o \in Order
    BY <2>1, BookFits DEF Fit
  <2>4. LiveResting(i) \notin {"held", "absent"}
    BY DEF LiveResting
  <2>5. /\ M.book[i].resting = LiveResting(i)
        /\ M.book[i].qty = o.qty /\ M.book[i].leaves = o.leaves
    BY <2>2, <2>3 DEF Order
  <2> QED BY <2>1, <2>4, <2>5 DEF OnBook, Waiting
<1>3. ASSUME NEW i \in Id
      PROVE  /\ OnBook(M, i) <=> OnBook(L, i)
             /\ Waiting(M, i) => Waiting(L, i) /\ i \notin C
             /\ M.book[i].leaves = L.book[i].leaves /\ M.book[i].qty = L.book[i].qty
  <2>1. CASE i \in C
    BY <1>2, <2>1
  <2>2. CASE i \notin C
    <3>1. M.book[i] = L.book[i]
      BY <1>1, <2>2
    <3> QED BY <2>2, <3>1 DEF OnBook, Waiting
  <2> QED BY <2>1, <2>2
<1>4. \A i \in Id : L.book[i].leaves \in Nat
  BY BookFits DEF Fit, Order
<1>5. Wanes(L, M, {})
  BY <1>3, <1>4 DEF Wanes
<1>6. Minds(L, M, {})
  BY <1>3, OpenBook DEF Minds
<1>7. Freed(M, parent)
  BY <1>3 DEF Freed, HeldChildren, Waiting
<1> QED BY <1>5, <1>6, <1>7 DEF M

LEMMA ShrinkSiblingsMinds ==
  ASSUME NEW L, WellFormed(L), NEW q \in Nat, NEW S \in SUBSET Id
  PROVE  /\ Minds(L, ShrinkSiblings(L, S, q), {})
         /\ Wanes(L, ShrinkSiblings(L, S, q), {})
         /\ \A i \in S : ShrinkSiblings(L, S, q).book[i].leaves + q = L.book[i].leaves
<1> DEFINE M == ShrinkSiblings(L, S, q)
           shrunk(i) == [L.book[i] EXCEPT !.qty = @ - q, !.leaves = @ - q, !.rev = @ + 1]
<1>1. M.book = [i \in Id |-> IF i \in S THEN shrunk(i) ELSE L.book[i]]
  BY DEF ShrinkSiblings, WellFormed, Ledger
<1> HIDE DEF M
<1>2. ASSUME NEW i \in Id
      PROVE  L.book[i] \in Order /\ L.book[i].leaves \in Nat /\ L.book[i].qty \in Nat
  BY BookFits DEF Fit, Order
<1>3. ASSUME NEW i \in S
      PROVE  /\ M.book[i].resting = L.book[i].resting
             /\ M.book[i].qty = L.book[i].qty - q
             /\ M.book[i].leaves = L.book[i].leaves - q
  BY <1>1, <1>2 DEF Order
<1>4. ASSUME NEW i \in Id
      PROVE  /\ OnBook(M, i) <=> OnBook(L, i)
             /\ Waiting(M, i) <=> Waiting(L, i)
             /\ M.book[i].leaves <= L.book[i].leaves
             /\ M.book[i].leaves < M.book[i].qty <=> L.book[i].leaves < L.book[i].qty
  <2>1. CASE i \in S
    BY <1>2, <1>3, <2>1 DEF OnBook, Waiting
  <2>2. CASE i \notin S
    <3>1. M.book[i] = L.book[i]
      BY <1>1, <2>2
    <3> QED BY <1>2, <3>1 DEF OnBook, Waiting
  <2> QED BY <2>1, <2>2
<1>5. Wanes(L, M, {})
  BY <1>4 DEF Wanes
<1>6. Minds(L, M, {})
  BY <1>4, OpenBook DEF Minds
<1>7. \A i \in S : M.book[i].leaves + q = L.book[i].leaves
  BY <1>2, <1>3
<1> QED BY <1>5, <1>6, <1>7 DEF M

\* The linkage of a fill: what waited for the filled order waits no more, and
\* its siblings give way.
LEMMA LinkageMinds ==
  ASSUME NEW L, WellFormed(L), NEW id \in Id, NEW q \in Nat
  PROVE  LET M == Linkage(L, id, q)
         IN  /\ Minds(L, M, {}) /\ Wanes(L, M, {})
             /\ Freed(M, id) /\ Yields(L, M, id, q)
<1> DEFINE R == ReleaseChildren(L, id)
           siblings  == {s \in Terms[id].links : OnBook(R, s)}
           exhausted == {s \in siblings : R.book[s].leaves <= q}
           K == ShrinkSiblings(R, siblings \ exhausted, q)
           M == Linkage(L, id, q)
<1>1. /\ WellFormed(R) /\ Minds(L, R, {}) /\ Wanes(L, R, {}) /\ Freed(R, id)
  BY ReleaseChildrenWellFormed, ReleaseChildrenMinds
<1>2. /\ Terms[id].links \subseteq Id /\ siblings \subseteq Id
      /\ exhausted \subseteq siblings
      /\ \A s \in Terms[id].links : s \notin siblings => ~OnBook(R, s)
  BY TermsType
<1>3. /\ WellFormed(K) /\ Minds(R, K, {}) /\ Wanes(R, K, {})
      /\ \A i \in siblings \ exhausted : K.book[i].leaves + q = R.book[i].leaves
  <2>1. \A i \in siblings \ exhausted : OnBook(R, i) /\ q < R.book[i].leaves
    <3>1. \A i \in Id : R.book[i].leaves \in Nat
      BY <1>1, BookFits DEF Fit, Order
    <3> QED BY <1>2, <3>1
  <2>2. siblings \ exhausted \in SUBSET Id
    BY <1>2
  <2> HIDE DEF R, siblings, exhausted
  <2> QED BY <1>1, <2>1, <2>2, ShrinkSiblingsWellFormed, ShrinkSiblingsMinds
<1>4. /\ Terms[id].rule = "oco" => M = CancelSiblings(R, siblings)
      /\ Terms[id].rule = "ouo" => M = CancelSiblings(K, exhausted)
      /\ Terms[id].rule \notin {"oco", "ouo"} => M = R
  BY DEF Linkage
<1>5. WellFormed(M)
  BY LinkageWellFormed
<1> HIDE DEF R, K, siblings, exhausted, M
<1>6. Minds(R, M, {}) /\ Wanes(R, M, {}) /\ Yields(R, M, id, q)
  <2>1. CASE Terms[id].rule = "oco"
    <3>1. /\ Minds(R, M, {}) /\ Wanes(R, M, {})
          /\ \A i \in siblings : ~OnBook(M, i)
      BY <1>1, <1>2, <1>4, <2>1, CancelSiblingsMinds
    <3>2. \A s \in Terms[id].links : ~OnBook(M, s)
      BY <1>2, <3>1 DEF Wanes
    <3> QED BY <2>1, <3>1, <3>2 DEF Yields
  <2>2. CASE Terms[id].rule = "ouo"
    <3>1. /\ Minds(K, M, {}) /\ Wanes(K, M, {})
          /\ \A i \in exhausted : ~OnBook(M, i)
      BY <1>2, <1>3, <1>4, <2>2, CancelSiblingsMinds
    <3>2. Minds(R, M, {}) /\ Wanes(R, M, {})
      BY <1>1, <1>3, <1>5, <3>1, MindsTransitive, WanesTransitive
    <3>3. ASSUME NEW s \in Terms[id].links, OnBook(M, s)
          PROVE  OnBook(R, s) /\ M.book[s].leaves + q <= R.book[s].leaves
      <4>1. s \in Id /\ OnBook(R, s) /\ M.book[s].leaves <= K.book[s].leaves
        BY <1>2, <3>1, <3>2, <3>3 DEF Wanes
      <4>2. K.book[s].leaves + q = R.book[s].leaves
        BY <1>2, <1>3, <3>1, <3>3, <4>1
      <4>3. /\ M.book[s].leaves \in Nat /\ K.book[s].leaves \in Nat
            /\ R.book[s].leaves \in Nat
        BY <1>1, <1>3, <1>5, <4>1, BookFits DEF Fit, Order
      <4> QED BY <4>1, <4>2, <4>3
    <3> QED BY <2>2, <3>2, <3>3 DEF Yields
  <2>3. CASE Terms[id].rule \notin {"oco", "ouo"}
    <3>1. M = R
      BY <1>4, <2>3
    <3> QED BY <1>1, <2>3, <3>1, SameBook DEF Yields
  <2> QED BY <2>1, <2>2, <2>3
<1>7. Minds(L, M, {}) /\ Wanes(L, M, {})
  BY <1>1, <1>5, <1>6, MindsTransitive, WanesTransitive
<1>8. Freed(M, id)
  BY <1>1, <1>6, FreedStays
<1>9. Yields(L, M, id, q)
  BY <1>1, <1>5, <1>6, YieldsBefore
<1> QED BY <1>7, <1>8, <1>9 DEF M

\* An order that goes terminal off the book; what waited for one that never
\* filled goes with it.
LEMMA CloseUnrestedMinds ==
  ASSUME NEW L, WellFormed(L), NEW id \in Id, ~OnBook(L, id), NEW o, Fit(o),
         NEW s \in Statuses
  PROVE  LET M == CloseUnrested(L, id, o, s)
         IN  /\ Minds(L, M, {}) /\ Wanes(L, M, {})
             /\ s # "filled" /\ Worked(o) = 0 => Freed(M, id)
<1> DEFINE R == RecordClosed(L, id, o, s)
           M == CloseUnrested(L, id, o, s)
<1>1. /\ WellFormed(R) /\ R.book = L.book
      /\ R.closed = [L.closed EXCEPT ![id] = [status |-> s, filled |-> Worked(o)]]
  BY RecordClosedWellFormed DEF RecordClosed, Worked, WellFormed, Ledger
<1>2. R.closed[id] = [status |-> s, filled |-> Worked(o)] /\ ~OnBook(R, id)
  BY <1>1 DEF WellFormed, Ledger, OnBook
<1>3. s # "filled" /\ Worked(o) = 0 => ~HasFilled(R, id)
  BY <1>2 DEF HasFilled
<1>4. M = IF HasFilled(R, id) THEN R ELSE ReapChildren(R, id)
  BY DEF CloseUnrested
<1> HIDE DEF R, M
<1>5. Minds(L, R, {}) /\ Wanes(L, R, {})
  BY <1>1, SameBook
<1>6. CASE HasFilled(R, id)
  BY <1>3, <1>4, <1>5, <1>6 DEF M
<1>7. CASE ~HasFilled(R, id)
  <2>1. Minds(R, M, {}) /\ Wanes(R, M, {}) /\ Freed(M, id) /\ WellFormed(M)
    BY <1>1, <1>4, <1>7, ReapChildrenMinds, CloseUnrestedWellFormed DEF M
  <2>2. Minds(L, M, {}) /\ Wanes(L, M, {})
    BY <1>1, <1>5, <2>1, MindsTransitive, WanesTransitive
  <2> QED BY <2>1, <2>2 DEF M
<1> QED BY <1>6, <1>7

LEMMA TakeMinds ==
  ASSUME NEW L, WellFormed(L), NEW id \in Id
  PROVE  Minds(L, Take(L, id), {id}) /\ Wanes(L, Take(L, id), {})
<1> DEFINE T == Take(L, id)
<1>1. ~OnBook(T, id) /\ \A i \in Id \ {id} : T.book[i] = L.book[i]
  BY TakeWellFormed, TakeAside
<1> HIDE DEF T
<1>2. \A i \in Id : L.book[i].leaves \in Nat
  BY BookFits DEF Fit, Order
<1>3. Wanes(L, T, {})
  BY <1>1, <1>2 DEF Wanes, OnBook
<1>4. \A i \in Id \ {id} : /\ Waiting(T, i) => Waiting(L, i)
                           /\ Open(L, i) => Open(T, i)
  BY <1>1, OpenBook DEF Waiting, OnBook
<1>5. ~Waiting(T, id)
  BY <1>1 DEF Waiting, OnBook
<1>6. Minds(L, T, {id})
  BY <1>4, <1>5 DEF Minds
<1> QED BY <1>3, <1>6 DEF T

LEMMA CloseOutMinds ==
  ASSUME NEW L, WellFormed(L), NEW id \in Id, NEW o, Fit(o), NEW s \in Statuses
  PROVE  LET M == CloseOut(L, id, o, s)
         IN  /\ Minds(L, M, {id}) /\ Wanes(L, M, {})
             /\ s # "filled" /\ Worked(o) = 0 => Freed(M, id)
<1> DEFINE T == Take(L, id)
           M == CloseUnrested(T, id, o, s)
<1>1. WellFormed(T) /\ ~OnBook(T, id) /\ Minds(L, T, {id}) /\ Wanes(L, T, {})
  BY TakeWellFormed, TakeMinds
<1> HIDE DEF T
<1>2. /\ Minds(T, M, {}) /\ Wanes(T, M, {}) /\ WellFormed(M)
      /\ s # "filled" /\ Worked(o) = 0 => Freed(M, id)
  BY <1>1, CloseUnrestedMinds, CloseUnrestedWellFormed
<1> HIDE DEF M
<1>3. Minds(L, M, {id}) /\ Wanes(L, M, {})
  BY <1>1, <1>2, MindsMore, MindsTransitive, WanesTransitive
<1> QED BY <1>2, <1>3 DEF M, T, CloseOut

\* An order closed as the book has it, without a fill of its own.
LEMMA ClosedMinds ==
  ASSUME NEW L, WellFormed(L), NEW id \in Id,
         NEW s \in {"canceled", "expired", "rejected"}
  PROVE  LET M == CloseOut(L, id, L.book[id], s)
         IN  Minds(L, M, {}) /\ Wanes(L, M, {})
<1> DEFINE o == L.book[id]
           M == CloseOut(L, id, o, s)
<1>1. s \in Statuses /\ s # "filled" /\ Fit(o)
  BY BookFits DEF Statuses
<1>2. /\ Minds(L, M, {id}) /\ Wanes(L, M, {})
      /\ Worked(o) = 0 => Freed(M, id)
  <2> HIDE DEF o
  <2> QED BY <1>1, CloseOutMinds
<1> HIDE DEF M
<1>3. CASE Worked(o) = 0
  BY <1>2, <1>3, MindsFreed DEF M
<1>4. CASE Worked(o) # 0
  <2>1. ~Open(L, id)
    BY <1>1, <1>4, OpenBook DEF Worked, Fit, Order
  <2>2. Minds(L, M, {})
    BY <1>2, <2>1 DEF Minds
  <2> QED BY <1>2, <2>2 DEF M
<1> QED BY <1>3, <1>4

\* A slot rewritten in place.
LEMMA PutMinds ==
  ASSUME NEW L, WellFormed(L), NEW id \in Id, OnBook(L, id), NEW o, Fit(o),
         o.resting = "held" => Waiting(L, id)
  PROVE  LET M == Put(L, id, o)
         IN  /\ Minds(L, M, {id})
             /\ Worked(o) = Worked(L.book[id]) /\ o.resting # "absent"
                => Minds(L, M, {})
             /\ Wanes(L, M, {id})
             /\ o.leaves <= L.book[id].leaves => Wanes(L, M, {})
<1> DEFINE M == Put(L, id, o)
<1>1. M.book = [L.book EXCEPT ![id] = o]
  BY DEF Put, WellFormed, Ledger
<1> HIDE DEF M
<1>2. M.book[id] = o /\ \A i \in Id \ {id} : M.book[i] = L.book[i]
  BY <1>1 DEF WellFormed, Ledger
<1>3. \A i \in Id : L.book[i].leaves \in Nat
  BY BookFits DEF Fit, Order
<1>4. /\ \A i \in Id : Waiting(M, i) => Waiting(L, i)
      /\ \A i \in Id \ {id} : Open(L, i) => Open(M, i)
  BY <1>2, OpenBook DEF Waiting, OnBook
<1>5. Minds(L, M, {id})
  BY <1>4 DEF Minds
<1>6. ASSUME Worked(o) = Worked(L.book[id]), o.resting # "absent"
      PROVE  Minds(L, M, {})
  <2>1. Fit(L.book[id])
    BY BookFits
  <2>2. Open(L, id) => Open(M, id)
    BY <1>2, <1>6, <2>1, OpenBook DEF OnBook, Worked, Fit, Order
  <2> QED BY <1>4, <2>2 DEF Minds
<1>7. Wanes(L, M, {id})
  BY <1>2, <1>3 DEF Wanes, OnBook
<1>8. o.leaves <= L.book[id].leaves => Wanes(L, M, {})
  BY <1>2, <1>3 DEF Wanes, OnBook
<1> QED BY <1>5, <1>6, <1>7, <1>8 DEF M

\* An order put on the book, not to wait for a parent.
LEMMA RestMinds ==
  ASSUME NEW L, WellFormed(L), NEW id \in Id, ~OnBook(L, id), NEW o,
         o.resting # "held"
  PROVE  LET M == Rest(L, id, o)
         IN  Minds(L, M, {}) /\ Wanes(L, M, {id}) /\ M.book[id] = o
<1> DEFINE M == Rest(L, id, o)
<1>1. M.book = [L.book EXCEPT ![id] = o]
  BY DEF Rest, WellFormed, Ledger
<1> HIDE DEF M
<1>2. M.book[id] = o /\ \A i \in Id \ {id} : M.book[i] = L.book[i]
  BY <1>1 DEF WellFormed, Ledger
<1>3. \A i \in Id : L.book[i].leaves \in Nat
  BY BookFits DEF Fit, Order
<1>4. /\ \A i \in Id : Waiting(M, i) => Waiting(L, i)
      /\ \A i \in Id : Open(L, i) => Open(M, i)
  <2>1. ~Waiting(M, id) /\ ~Open(L, id)
    BY <1>2 DEF Waiting, Open
  <2>2. \A i \in Id \ {id} : /\ Waiting(M, i) => Waiting(L, i)
                             /\ Open(L, i) => Open(M, i)
    BY <1>2, OpenBook DEF Waiting, OnBook
  <2> QED BY <2>1, <2>2
<1>5. Minds(L, M, {})
  BY <1>4 DEF Minds
<1>6. Wanes(L, M, {id})
  BY <1>2, <1>3 DEF Wanes, OnBook
<1> QED BY <1>2, <1>5, <1>6 DEF M

LEMMA SettleTriggeredMinds ==
  ASSUME NEW L, WellFormed(L), NEW id \in Id, ~OnBook(L, id), id \in L.seen,
         NEW o, Fit(o), o.resting \notin {"absent", "held"}, NEW capped
  PROVE  LET M == SettleTriggered(L, id, o, capped)
         IN  /\ Minds(L, M, {}) /\ Wanes(L, M, {id})
             /\ OnBook(M, id) => M.book[id].leaves = o.leaves
<1> DEFINE M == SettleTriggered(L, id, o, capped)
           C(s) == CloseUnrested(L, id, o, s)
           again == [o EXCEPT !.rev = @ + 1]
           limit == [o EXCEPT !.resting = "limit", !.px = @ + 2, !.rev = @ + 1]
<1>1. o \in Order
  BY DEF Fit
<1>2. /\ again.resting = o.resting /\ again.leaves = o.leaves
      /\ limit.resting = "limit" /\ limit.leaves = o.leaves
  BY <1>1 DEF Order
<1>3. ASSUME NEW s \in {"filled", "canceled"}
      PROVE  /\ WellFormed(C(s)) /\ ~OnBook(C(s), id)
             /\ Minds(L, C(s), {}) /\ Wanes(L, C(s), {id})
  <2>1. s \in Statuses
    BY DEF Statuses
  <2>2. WellFormed(C(s)) /\ ~OnBook(C(s), id)
    BY <2>1, CloseUnrestedWellFormed
  <2>3. Minds(L, C(s), {}) /\ Wanes(L, C(s), {})
    BY <2>1, CloseUnrestedMinds
  <2> HIDE DEF C
  <2> QED BY <2>2, <2>3, WanesMore
<1> HIDE DEF C, again, limit
<1>4. CASE o.leaves = 0 \/ capped
  <2>1. M \in {C("filled"), C("canceled")}
    BY <1>4 DEF SettleTriggered, C
  <2> HIDE DEF M
  <2> QED BY <1>3, <2>1 DEF M
<1>5. CASE o.leaves # 0 /\ ~capped /\ Terms[id].class = "stop"
  <2> DEFINE K == C("canceled")
  <2>1. M = Rest(K, id, again)
    BY <1>5 DEF SettleTriggered, C, again
  <2>2. /\ WellFormed(K) /\ ~OnBook(K, id)
        /\ Minds(L, K, {}) /\ Wanes(L, K, {id})
    BY <1>3
  <2>3. WellFormed(M)
    BY SettleTriggeredWellFormed
  <2> HIDE DEF K, M
  <2>4. Minds(K, M, {}) /\ Wanes(K, M, {id}) /\ M.book[id] = again
    BY <1>2, <2>1, <2>2, RestMinds
  <2>5. Minds(L, M, {}) /\ Wanes(L, M, {id})
    BY <2>2, <2>3, <2>4, MindsTransitive, WanesTransitive
  <2> QED BY <1>2, <2>4, <2>5 DEF M
<1>6. CASE o.leaves # 0 /\ ~capped /\ Terms[id].class # "stop"
  <2>1. M = Rest(L, id, limit)
    BY <1>6 DEF SettleTriggered, limit
  <2> HIDE DEF M
  <2>2. Minds(L, M, {}) /\ Wanes(L, M, {id}) /\ M.book[id] = limit
    BY <1>2, <2>1, RestMinds
  <2> QED BY <1>2, <2>2 DEF M
<1> QED BY <1>4, <1>5, <1>6
----------------------------------------------------------------------------
\* What a handler that fills q of id does to what waits and to what is linked:
\* what it fills comes out of what id had left, and the siblings give way.
Trades(L, M, id, q) ==
  /\ Minds(L, M, {}) /\ Wanes(L, M, {id})
  /\ q \in Nat /\ M.executed[id] = L.executed[id] + q
  /\ q <= L.book[id].leaves
  /\ OnBook(M, id) => M.book[id].leaves + q <= L.book[id].leaves
  /\ q > 0 => Yields(L, M, id, q)

LEMMA TradesNothing ==
  ASSUME NEW L, NEW M, WellFormed(L), WellFormed(M), NEW id \in Id,
         Minds(L, M, {}), Wanes(L, M, {}), M.executed = L.executed
  PROVE  Trades(L, M, id, 0)
<1>1. /\ L.book[id].leaves \in Nat /\ M.book[id].leaves \in Nat
      /\ L.executed[id] \in Nat
  BY BookFits DEF Fit, Order, WellFormed, Ledger
<1>2. OnBook(M, id) => M.book[id].leaves <= L.book[id].leaves
  BY DEF Wanes
<1>3. Wanes(L, M, {id})
  BY WanesMore
<1> QED BY <1>1, <1>2, <1>3 DEF Trades

\* The same of a ledger with the same book.
LEMMA TradesAlike ==
  ASSUME NEW K, NEW L, NEW M, NEW id \in Id, NEW q, L.book = K.book,
         L.executed = K.executed, Trades(L, M, id, q)
  PROVE  Trades(K, M, id, q)
BY DEF Trades, Minds, Wanes, Yields, Open, OnBook, HasFilled, Waiting

LEMMA CloseOutTrades ==
  ASSUME NEW L, WellFormed(L), NEW id \in Id, OnBook(L, id),
         NEW s \in {"canceled", "expired", "rejected"}
  PROVE  Trades(L, CloseOut(L, id, L.book[id], s), id, 0)
<1> DEFINE o == L.book[id]
           M == CloseOut(L, id, o, s)
<1>1. Minds(L, M, {}) /\ Wanes(L, M, {})
  BY ClosedMinds
<1>2. WellFormed(M) /\ M.executed = L.executed
  <2>1. Fit(o) /\ s \in Statuses
    BY BookFits DEF Statuses
  <2>2. WellFormed(M) /\ Aside(L, M)
    <3> HIDE DEF o
    <3> QED BY <2>1, CloseOutMoves
  <2> HIDE DEF M
  <2> QED BY <2>2 DEF Aside
<1> HIDE DEF M
<1>3. Trades(L, M, id, 0)
  BY <1>1, <1>2, TradesNothing
<1> QED BY <1>3 DEF M

\* Promoted to wait for something else.
LEMMA PromotedTrades ==
  ASSUME NEW L, WellFormed(L), NEW id \in Id, OnBook(L, id),
         NEW r \in {"limit", "conditional"}
  PROVE  Trades(L, Put(L, id, [L.book[id] EXCEPT !.resting = r, !.px = @ + 1,
                                                 !.rev = @ + 1]), id, 0)
<1> DEFINE o == L.book[id]
           n == [o EXCEPT !.resting = r, !.px = @ + 1, !.rev = @ + 1]
           M == Put(L, id, n)
<1>1. Fit(o) /\ o \in Order /\ r \in Restings /\ o.leaves \in Nat
  BY BookFits DEF Fit, Order, Restings
<1>2. /\ n.resting = r /\ n.leaves = o.leaves /\ n.qty = o.qty
  BY <1>1 DEF Order
<1>3. WellFormed(M)
  <2> HIDE DEF o
  <2> QED BY <1>1, PromotedWellFormed
<1>4. Fit(n)
  <2>1. o.px + 1 \in Nat /\ o.rev + 1 \in Nat /\ o.leaves <= o.qty
    BY <1>1 DEF Fit, Order
  <2> HIDE DEF o
  <2> QED BY <1>1, <2>1, WithFits
<1> HIDE DEF n
<1>5. M.executed = L.executed
  BY DEF Put, WellFormed, Ledger
<1>6. Worked(n) = Worked(o) /\ n.leaves <= o.leaves
  BY <1>1, <1>2 DEF Worked
<1>7. Minds(L, M, {}) /\ Wanes(L, M, {})
  BY <1>2, <1>4, <1>6, PutMinds
<1> HIDE DEF M
<1>8. Trades(L, M, id, 0)
  BY <1>3, <1>5, <1>7, TradesNothing
<1> QED BY <1>8 DEF M, n

LEMMA TriggerTakeTrades ==
  ASSUME NEW L, WellFormed(L), NEW id \in Id, OnBook(L, id), ~Waiting(L, id),
         NEW m \in Market
  PROVE  \E q \in Nat : Trades(L, TriggerTake(L, id, m), id, q)
<1> DEFINE o       == L.book[id]
           S       == Spend(L, PartialFill(id))
           planned == Planned(L, id, o.leaves)
           cap     == Cap(L, id, o.leaves)
           q       == Lesser(Lesser(planned, cap), m.depth)
           C       == CommitFill(S, id, q)
           T       == Take(C, id)
           left    == [o EXCEPT !.leaves = @ - q]
           Z       == SettleTriggered(T, id, left, cap < planned)
           M       == Linkage(Z, id, q)
           rested  == [o EXCEPT !.resting = "limit", !.px = @ + 1, !.rev = @ + 1]
<1>1. o \in Order /\ Fit(o) /\ o.leaves \in Nat /\ o.qty \in Nat /\ id \in L.seen
  BY BookFits DEF Fit, Order, WellFormed, WellFormedAt
<1>2. q \in Nat /\ q <= o.leaves
  <2>1. planned \in Nat /\ planned <= o.leaves /\ cap \in Nat /\ m.depth \in Nat
    BY <1>1, PlannedBounded, CapType DEF Market
  <2> HIDE DEF planned, cap, o
  <2> QED BY <1>1, <2>1 DEF Lesser
<1>3. /\ WellFormed(S) /\ Aside(L, S) /\ S.book = L.book
      /\ WellFormed(C) /\ C.book = L.book /\ C.seen = L.seen
      /\ C.executed = [L.executed EXCEPT ![id] = @ + q]
      /\ q > 0 => C.executed[id] > 0
  BY <1>2, CommitFillAside
<1>4. S.executed = L.executed /\ OnBook(S, id) /\ S.book[id] = o
  BY <1>3 DEF Aside, OnBook
<1>5. Trades(L, CloseOut(S, id, o, "canceled"), id, 0)
  <2> HIDE DEF S, o
  <2>1. Trades(S, CloseOut(S, id, S.book[id], "canceled"), id, 0)
    BY <1>3, <1>4, CloseOutTrades
  <2> QED BY <1>3, <1>4, <2>1, TradesAlike
<1>6. Trades(L, Put(S, id, rested), id, 0)
  <2> HIDE DEF S
  <2>1. Trades(S, Put(S, id, [S.book[id] EXCEPT !.resting = "limit", !.px = @ + 1,
                                                !.rev = @ + 1]), id, 0)
    BY <1>3, <1>4, PromotedTrades
  <2> QED BY <1>3, <1>4, <2>1, TradesAlike
<1> DEFINE capped == cap < planned
<1> HIDE DEF S, planned, cap, q, rested
<1>7. Minds(L, C, {}) /\ Wanes(L, C, {})
  BY <1>3, SameBook
<1>8. /\ WellFormed(T) /\ ~OnBook(T, id) /\ id \in T.seen /\ Aside(C, T)
      /\ Minds(C, T, {id}) /\ Wanes(C, T, {})
  <2> HIDE DEF C
  <2> QED BY <1>1, <1>3, TakeWellFormed, TakeAside, TakeMinds DEF Aside
<1>9. Fit(left) /\ left.resting = o.resting /\ left.leaves = o.leaves - q
  <2>1. o.leaves - q \in Nat /\ o.leaves - q <= o.qty
    BY <1>1, <1>2 DEF Fit, Order
  <2> HIDE DEF o
  <2>2. left \in Order /\ left.leaves = o.leaves - q /\ left.qty = o.qty
        /\ left.resting = o.resting
    BY <1>1, <2>1 DEF Order
  <2> HIDE DEF left
  <2> QED BY <2>1, <2>2 DEF Fit
<1>10. left.resting \notin {"absent", "held"}
  BY <1>9 DEF OnBook, Waiting
<1> HIDE DEF T, left, C, capped
<1>11. /\ WellFormed(Z) /\ Aside(T, Z) /\ ~Waiting(Z, id)
       /\ Minds(T, Z, {}) /\ Wanes(T, Z, {id})
       /\ OnBook(Z, id) => Z.book[id].leaves = left.leaves
  <2>1. Z = SettleTriggered(T, id, left, capped)
    BY DEF capped
  <2> HIDE DEF Z
  <2> QED BY <1>8, <1>9, <1>10, <2>1, SettleTriggeredMoves, SettleTriggeredMinds,
             SettleTriggeredWellFormed
<1> HIDE DEF Z
<1>12. ASSUME q > 0 PROVE Trades(L, M, id, q)
  <2>1. Z.executed[id] > 0
    BY <1>3, <1>8, <1>11, <1>12 DEF Aside
  <2>2. /\ WellFormed(M) /\ Aside(Z, M)
        /\ Minds(Z, M, {}) /\ Wanes(Z, M, {}) /\ Freed(M, id) /\ Yields(Z, M, id, q)
    BY <1>2, <1>11, <2>1, LinkageMoves, LinkageMinds, LinkageWellFormed
  <2> HIDE DEF M
  <2>3. Minds(L, Z, {id}) /\ Wanes(L, Z, {id})
    BY <1>3, <1>7, <1>8, <1>11, MindsMore, MindsTransitive, WanesMore, WanesTransitive
  <2>4. Minds(L, M, {}) /\ Wanes(L, M, {id})
    BY <1>11, <2>2, <2>3, MindsMore, MindsTransitive, MindsFreed, WanesMore,
       WanesTransitive
  <2>5. Terms[id].links \cap {id} = {}
    BY TermsAssumption
  <2>6. Yields(L, M, id, q)
    BY <1>2, <1>11, <2>2, <2>3, <2>5, YieldsBefore
  <2>7. M.executed[id] = L.executed[id] + q
    BY <1>3, <1>8, <1>11, <2>2 DEF Aside, WellFormed, Ledger
  <2>8. M.book[id].leaves \in Nat /\ Z.book[id].leaves \in Nat
    BY <1>11, <2>2, BookFits DEF Fit, Order
  <2>9. OnBook(M, id) => M.book[id].leaves + q <= o.leaves
    <3>1. OnBook(M, id) => OnBook(Z, id) /\ M.book[id].leaves <= Z.book[id].leaves
      BY <2>2 DEF Wanes
    <3> HIDE DEF o
    <3> QED BY <1>1, <1>2, <1>9, <1>11, <2>8, <3>1
  <2> QED BY <1>2, <2>4, <2>6, <2>7, <2>9 DEF Trades
<1>13. \/ TriggerTake(L, id, m) \in {Put(S, id, rested), CloseOut(S, id, o, "canceled")}
       \/ q # 0 /\ TriggerTake(L, id, m) = M
  BY DEF TriggerTake, S, rested, q, planned, cap, Z, T, C, left
<1>14. q # 0 => q > 0
  BY <1>2
<1> HIDE DEF M, o
<1> QED BY <1>2, <1>5, <1>6, <1>12, <1>13, <1>14

LEMMA TriggerTrades ==
  ASSUME NEW L, WellFormed(L), NEW id \in Id, OnBook(L, id), ~Waiting(L, id),
         NEW m \in Market
  PROVE  \E q \in Nat : Trades(L, Trigger(L, id, m), id, q)
<1> DEFINE o == L.book[id]
           S == Spend(L, PartialFill(id))
           rested == [o EXCEPT !.resting = "limit", !.px = @ + 1, !.rev = @ + 1]
<1>1. /\ WellFormed(S) /\ S.executed = L.executed /\ S.book = L.book /\ OnBook(S, id)
  <2>1. /\ WellFormed(S) /\ Aside(L, S) /\ S.book = L.book
    BY CommitFillAside
  <2> HIDE DEF S
  <2> QED BY <2>1 DEF Aside, OnBook
<1>2. Trades(L, CloseOut(L, id, o, "canceled"), id, 0)
  BY CloseOutTrades
<1>3. Trades(L, CloseOut(S, id, o, "canceled"), id, 0)
  <2> HIDE DEF S
  <2>1. Trades(S, CloseOut(S, id, S.book[id], "canceled"), id, 0)
    BY <1>1, CloseOutTrades
  <2> QED BY <1>1, <2>1, TradesAlike
<1>4. Trades(L, Put(L, id, rested), id, 0)
  BY PromotedTrades
<1>5. Trades(L, CloseUnrested(Take(L, id), id, o, "rejected"), id, 0)
  <2>1. Trades(L, CloseOut(L, id, o, "rejected"), id, 0)
    BY CloseOutTrades
  <2> QED BY <2>1 DEF CloseOut
<1>6. Trigger(L, id, m) \in
        {CloseOut(L, id, o, "canceled"), CloseOut(S, id, o, "canceled"),
         Put(L, id, rested), CloseUnrested(Take(L, id), id, o, "rejected"),
         TriggerTake(L, id, m)}
  BY DEF Trigger
<1> HIDE DEF o, S, rested
<1> QED BY <1>2, <1>3, <1>4, <1>5, <1>6, TriggerTakeTrades

LEMMA ActivateTrades ==
  ASSUME NEW L, WellFormed(L), NEW id \in Id, OnBook(L, id), NEW funded
  PROVE  Trades(L, Activate(L, id, funded), id, 0)
<1>1. Trades(L, CloseOut(L, id, L.book[id], "canceled"), id, 0)
  BY CloseOutTrades
<1>2. Trades(L, Put(L, id, [L.book[id] EXCEPT !.resting = "conditional",
                                              !.px = @ + 1, !.rev = @ + 1]), id, 0)
  BY PromotedTrades
<1> QED BY <1>1, <1>2 DEF Activate

LEMMA SweepFillTrades ==
  ASSUME NEW L, WellFormed(L), NEW id \in Id, OnBook(L, id), ~Waiting(L, id),
         L.book[id].leaves > 0, NEW funded
  PROVE  \E q \in Nat : Trades(L, SweepFill(L, id, funded), id, q)
<1> DEFINE o       == L.book[id]
           S       == Spend(L, PartialFill(id))
           planned == Planned(L, id, o.leaves)
           cap     == Cap(L, id, o.leaves)
           q       == Lesser(planned, cap)
           C       == CommitFill(S, id, q)
           F       == IF q > 0 THEN Linkage(C, id, q) ELSE S
           r       == F.book[id]
           partial == [r EXCEPT !.leaves = o.leaves - q, !.rev = @ + 1,
                                !.px = IF q > 0 THEN @ + 1 ELSE @]
           P       == Put(F, id, partial)
           Out(s)  == CloseOut(F, id, r, s)
<1>1. o \in Order /\ Fit(o) /\ o.leaves \in Nat /\ o.qty \in Nat /\ o.rev \in Nat
      /\ o.px \in Nat
  BY BookFits DEF Fit, Order
<1>2. q \in Nat /\ q <= o.leaves
  <2>1. planned \in Nat /\ planned <= o.leaves /\ cap \in Nat
    BY <1>1, PlannedBounded, CapType
  <2> HIDE DEF planned, cap, o
  <2> QED BY <1>1, <2>1 DEF Lesser
<1>3. /\ WellFormed(S) /\ Aside(L, S) /\ S.book = L.book
      /\ WellFormed(C) /\ C.book = L.book
      /\ C.executed = [L.executed EXCEPT ![id] = @ + q]
      /\ q > 0 => C.executed[id] > 0
  BY <1>2, CommitFillAside
<1>4. Trades(L, CloseOut(S, id, o, "canceled"), id, 0)
  <2>1. S.executed = L.executed /\ OnBook(S, id) /\ S.book[id] = o
    BY <1>3 DEF Aside, OnBook
  <2> HIDE DEF S, o
  <2>2. Trades(S, CloseOut(S, id, S.book[id], "canceled"), id, 0)
    BY <1>3, <2>1, CloseOutTrades
  <2> QED BY <1>3, <2>1, <2>2, TradesAlike
<1> HIDE DEF planned, cap, q, C
<1>5. /\ WellFormed(F) /\ F.executed = [L.executed EXCEPT ![id] = @ + q] /\ r = o
      /\ Minds(L, F, {}) /\ Wanes(L, F, {})
      /\ q > 0 => Freed(F, id) /\ Yields(L, F, id, q)
  <2>1. CASE q > 0
    <3>1. ~Waiting(C, id) /\ C.executed[id] > 0
      BY <1>3, <2>1 DEF Waiting
    <3>2. /\ WellFormed(F) /\ Aside(C, F) /\ Spared(C, F, id)
          /\ Minds(C, F, {}) /\ Wanes(C, F, {}) /\ Freed(F, id) /\ Yields(C, F, id, q)
      BY <1>2, <1>3, <2>1, <3>1, LinkageMoves, LinkageMinds, LinkageWellFormed
    <3> HIDE DEF F
    <3>3. Minds(L, C, {}) /\ Wanes(L, C, {})
      BY <1>3, SameBook
    <3>4. Minds(L, F, {}) /\ Wanes(L, F, {}) /\ Yields(L, F, id, q)
      BY <1>2, <1>3, <3>2, <3>3, MindsTransitive, WanesTransitive, YieldsBefore
    <3> QED BY <1>3, <3>2, <3>4 DEF Aside, Spared
  <2>2. CASE q = 0
    <3>1. F = S
      BY <2>2
    <3>2. Minds(L, S, {}) /\ Wanes(L, S, {})
      BY <1>3, SameBook
    <3>3. L.executed = [L.executed EXCEPT ![id] = @ + q]
      BY <2>2 DEF WellFormed, Ledger
    <3> HIDE DEF F, S
    <3> QED BY <1>3, <2>2, <3>1, <3>2, <3>3 DEF Aside
  <2> QED BY <1>2, <2>1, <2>2
<1>6. OnBook(F, id) /\ L.executed[id] \in Nat /\ Terms[id].links \cap {id} = {}
  BY <1>5, TermsAssumption DEF OnBook, WellFormed, Ledger
<1> HIDE DEF F
<1>7. ASSUME NEW M, WellFormed(M), M.executed = F.executed,
             Minds(F, M, {}) \/ (q > 0 /\ Minds(F, M, {id})), Wanes(F, M, {id}),
             OnBook(M, id) => M.book[id].leaves = o.leaves - q
      PROVE  Trades(L, M, id, q)
  <2>1. Minds(L, M, {})
    <3>1. CASE Minds(F, M, {})
      BY <1>5, <3>1, MindsTransitive
    <3>2. CASE q > 0 /\ Minds(F, M, {id})
      BY <1>5, <3>2, FreedStays, MindsMore, MindsTransitive, MindsFreed
    <3> QED BY <1>7, <3>1, <3>2
  <2>2. Wanes(L, M, {id})
    BY <1>5, <1>7, WanesMore, WanesTransitive
  <2>3. q > 0 => Yields(L, M, id, q)
    BY <1>2, <1>5, <1>6, <1>7, YieldsStays
  <2>4. M.executed[id] = L.executed[id] + q
    BY <1>5, <1>7 DEF WellFormed, Ledger
  <2>5. OnBook(M, id) => M.book[id].leaves + q <= L.book[id].leaves
    BY <1>1, <1>2, <1>7
  <2> QED BY <1>2, <2>1, <2>2, <2>3, <2>4, <2>5 DEF Trades
<1>8. ASSUME NEW s \in {"filled", "canceled"}, s = "filled" => q = o.leaves
      PROVE  Trades(L, Out(s), id, q)
  <2> DEFINE M == Out(s)
  <2>1. s \in Statuses /\ Fit(r)
    BY <1>1, <1>5 DEF Statuses
  <2>2. /\ Aside(F, M) /\ ~OnBook(M, id) /\ WellFormed(M)
        /\ Minds(F, M, {id}) /\ Wanes(F, M, {})
    <3> HIDE DEF r
    <3> QED BY <1>5, <2>1, CloseOutMoves, CloseOutMinds
  <2>3. s = "canceled" => Minds(F, M, {})
    BY <1>5, ClosedMinds
  <2> HIDE DEF M
  <2>4. s = "filled" => q > 0
    BY <1>1, <1>8
  <2>5. Trades(L, M, id, q)
    BY <1>7, <2>2, <2>3, <2>4, WanesMore DEF Aside
  <2> QED BY <2>5 DEF M
<1>9. ASSUME q # o.leaves PROVE Trades(L, P, id, q)
  <2>1. /\ partial.resting = o.resting
        /\ partial.leaves = o.leaves - q /\ partial.qty = o.qty
    <3> HIDE DEF o
    <3> QED BY <1>1, <1>5 DEF Order
  <2>2. Fit(partial)
    <3>1. o.leaves - q \in Nat /\ o.leaves - q <= o.qty
      BY <1>1, <1>2 DEF Fit, Order
    <3>2. r.rev + 1 \in Nat /\ (IF q > 0 THEN r.px + 1 ELSE r.px) \in Nat
      BY <1>1, <1>5
    <3>3. Fit(r) /\ r.qty = o.qty /\ "limit" \in Restings
      BY <1>1, <1>5 DEF Restings
    <3> HIDE DEF o, r
    <3> QED BY <3>1, <3>2, <3>3, WithFits
  <2>3. /\ partial.resting = "held" => Waiting(F, id)
        /\ partial.resting # "absent"
        /\ q = 0 => Worked(partial) = Worked(F.book[id])
        /\ partial.leaves <= F.book[id].leaves
    <3>1. partial.resting = F.book[id].resting
      BY <1>5, <2>1
    <3>2. q = 0 => Worked(partial) = Worked(F.book[id])
      <4> HIDE DEF partial, o
      <4> QED BY <1>1, <1>5, <2>1 DEF Worked
    <3>3. partial.leaves <= F.book[id].leaves
      <4> HIDE DEF partial, o
      <4> QED BY <1>1, <1>2, <1>5, <2>1
    <3> HIDE DEF partial
    <3> QED BY <1>6, <3>1, <3>2, <3>3 DEF Waiting, OnBook
  <2> HIDE DEF partial
  <2>4. /\ WellFormed(P) /\ P.executed = F.executed /\ P.book[id] = partial
        /\ Minds(F, P, {id}) /\ Wanes(F, P, {id})
        /\ q = 0 => Minds(F, P, {})
    <3>1. WellFormed(P)
      BY <1>5, <1>6, <2>2, PutWellFormed
    <3>2. P.executed = F.executed /\ P.book[id] = partial
      BY <1>5 DEF Put, WellFormed, Ledger
    <3>3. /\ Minds(F, P, {id}) /\ Wanes(F, P, {id})
          /\ q = 0 => Minds(F, P, {})
      BY <1>5, <1>6, <2>2, <2>3, PutMinds
    <3> QED BY <3>1, <3>2, <3>3
  <2> HIDE DEF P
  <2>5. q > 0 \/ q = 0
    BY <1>2
  <2>6. Trades(L, P, id, q)
    BY <1>7, <2>1, <2>4, <2>5
  <2> QED BY <2>6
<1>10. \/ SweepFill(L, id, funded) = CloseOut(S, id, o, "canceled")
       \/ q = o.leaves /\ SweepFill(L, id, funded) = Out("filled")
       \/ SweepFill(L, id, funded) = Out("canceled")
       \/ q # o.leaves /\ SweepFill(L, id, funded) = P
  BY <1>6 DEF SweepFill, F, C, q, planned, cap
<1> HIDE DEF Out, P, S, o
<1> QED BY <1>2, <1>4, <1>8, <1>9, <1>10

\* Whatever still waits for id has a fill to be released by, or id is open.
Kept(M, id, booked) ==
  \A c \in Id : Waiting(M, c) /\ Terms[c].parent = id => booked > 0 \/ Open(M, id)

\* An order that is taken in on submit, booked for the closing pass: it waits
\* for its parent, or nothing new waits.
Admits(L, M, id, booked) ==
  /\ \E q \in Nat : Arrives(L, M, id, q) /\ booked \in {0, q}
  /\ Wanes(L, M, {id})
  /\ \/ /\ Terms[id].parent # NoId /\ ~HasFilled(L, Terms[id].parent)
        /\ M.book = [L.book EXCEPT ![id] = NewOrder(id, "held")]
     \/ Minds(L, M, {}) /\ Kept(M, id, booked)

\* What a submit may be refused for.
Refusable(id) ==
  \/ ~Member
  \/ Terms[id].class \in {"market", "marketToLimit"}
  \/ Terms[id].postOnly /\ id \in Through
  \/ EnforceFunds
  \/ Terms[id].tif = "fok"

LEMMA ArriveHeldAdmits ==
  ASSUME IInv, NEW id \in Id, Admissible(id), ArriveHeld(id)
  PROVE  Admits(ledger, ledger', id, 0) /\ Submitted(id, ledger', 0)
<1> DEFINE n == NewOrder(id, "held")
           R == Rest(Accept(ledger, id), id, n)
<1>1. ledger' = R /\ Submitted(id, ledger', 0)
  BY DEF ArriveHeld, Submitted
<1>2. Arrives(ledger, ledger', id, 0)
  BY ArriveHeldCase
<1>3. R.book = [ledger.book EXCEPT ![id] = n] /\ WellFormed(ledger)
  BY DEF Rest, Accept, IInv, WellFormed, Ledger
<1> HIDE DEF R
<1>4. \A i \in Id : ledger.book[i].leaves \in Nat
  BY <1>3, BookFits DEF Fit, Order
<1>5. \A i \in Id \ {id} : R.book[i] = ledger.book[i]
  BY <1>3 DEF WellFormed, Ledger
<1>6. Wanes(ledger, R, {id})
  BY <1>4, <1>5 DEF Wanes, OnBook
<1>7. Terms[id].parent # NoId /\ ~HasFilled(ledger, Terms[id].parent)
  BY DEF ArriveHeld, WaitsForParent
<1> QED BY <1>1, <1>2, <1>3, <1>6, <1>7 DEF Admits

\* An order put to rest on arrival, not to wait for a parent, is open.
LEMMA RestedOpen ==
  ASSUME NEW L, WellFormed(L), NEW id \in Id, id \notin L.seen,
         NEW r \in Restings \ {"absent", "held"}
  PROVE  LET R == Rest(Accept(L, id), id, NewOrder(id, r))
         IN  /\ Minds(L, R, {}) /\ Wanes(L, R, {id}) /\ Open(R, id)
             /\ R.book[id] = NewOrder(id, r)
<1> DEFINE A == Accept(L, id)
           n == NewOrder(id, r)
           R == Rest(A, id, n)
<1>1. WellFormed(A) /\ A.book = L.book /\ ~OnBook(A, id)
  BY AcceptAlike
<1>2. n.resting = r /\ n.leaves = n.qty /\ n.qty \in Nat
  BY NewOrderType
<1> HIDE DEF A, n
<1>3. Minds(A, R, {}) /\ Wanes(A, R, {id}) /\ R.book[id] = n
  BY <1>1, <1>2, RestMinds
<1>4. Minds(L, A, {}) /\ Wanes(L, A, {id})
  BY <1>1, SameBook, WanesMore
<1>5. WellFormed(R)
  BY RestArrives DEF R, A, n
<1> HIDE DEF R
<1>6. Minds(L, R, {}) /\ Wanes(L, R, {id})
  BY <1>1, <1>3, <1>4, <1>5, MindsTransitive, WanesTransitive
<1>7. Open(R, id)
  BY <1>2, <1>3, OpenBook DEF OnBook
<1> QED BY <1>3, <1>6, <1>7 DEF R, A, n

LEMMA ArriveConditionalAdmits ==
  ASSUME IInv, NEW id \in Id, Admissible(id), ArriveConditional(id)
  PROVE  Admits(ledger, ledger', id, 0) /\ Submitted(id, ledger', 0)
<1> DEFINE n == NewOrder(id, LiveResting(id))
           R == Rest(Accept(ledger, id), id, n)
<1>1. WellFormed(ledger) /\ id \notin ledger.seen
  BY DEF IInv, Admissible
<1>2. LiveResting(id) \in Restings \ {"absent", "held"}
  BY DEF LiveResting, Restings
<1>3. /\ WellFormed(R) /\ OnBook(R, id) /\ R.book[id] = n
      /\ Minds(ledger, R, {}) /\ Wanes(ledger, R, {id}) /\ Open(R, id)
  BY <1>1, <1>2, RestArrives, RestedOpen
<1>4. \/ ledger' = R
      \/ \E reached \in BOOLEAN, depth \in 0..MaxDepth, funded \in Funded :
           ledger' = IF Terms[id].trail THEN Activate(R, id, funded)
                     ELSE Trigger(R, id, [live |-> TRUE, reached |-> reached,
                                          depth |-> depth, funded |-> funded])
  BY DEF ArriveConditional, Submitted
<1>5. Submitted(id, ledger', 0)
  BY DEF ArriveConditional, Submitted
<1>6. \E q \in Nat : Arrives(ledger, ledger', id, q) /\ 0 \in {0, q}
  BY ArriveConditionalCase
<1>7. ~Waiting(R, id)
  BY <1>2, <1>3, NewOrderType DEF Waiting
<1> HIDE DEF R
<1>8. CASE ledger' = R
  BY <1>3, <1>5, <1>6, <1>8 DEF Admits, Kept
<1>9. ASSUME NEW M, WellFormed(M), NEW q, Trades(R, M, id, q)
      PROVE  Minds(ledger, M, {}) /\ Wanes(ledger, M, {id}) /\ Kept(M, id, 0)
  <2>1. Minds(R, M, {}) /\ Wanes(R, M, {id})
    BY <1>9 DEF Trades
  <2>2. Minds(ledger, M, {}) /\ Wanes(ledger, M, {id})
    BY <1>1, <1>3, <1>9, <2>1, MindsTransitive, WanesTransitive
  <2>3. Kept(M, id, 0)
    BY <1>3, <2>1 DEF Kept, Minds
  <2> QED BY <2>2, <2>3
<1>10. ASSUME NEW reached \in BOOLEAN, NEW depth \in 0..MaxDepth, NEW funded \in Funded,
              ledger' = IF Terms[id].trail THEN Activate(R, id, funded)
                        ELSE Trigger(R, id, [live |-> TRUE, reached |-> reached,
                                             depth |-> depth, funded |-> funded])
       PROVE  Admits(ledger, ledger', id, 0)
  <2> DEFINE m == [live |-> TRUE, reached |-> reached, depth |-> depth, funded |-> funded]
  <2>1. funded \in BOOLEAN /\ depth \in Nat
    BY MarketInputs
  <2>2. m \in Market
    BY <2>1 DEF Market
  <2>3. ledger' \in {Activate(R, id, funded), Trigger(R, id, m)}
    BY <1>10
  <2> HIDE DEF m
  <2>4. Trades(R, Activate(R, id, funded), id, 0) /\ WellFormed(Activate(R, id, funded))
    BY <1>3, <2>1, ActivateTrades, ActivateWellFormed
  <2>5. /\ \E q \in Nat : Trades(R, Trigger(R, id, m), id, q)
        /\ WellFormed(Trigger(R, id, m))
    BY <1>3, <1>7, <2>2, TriggerTrades, TriggerWellFormed
  <2>6. Minds(ledger, ledger', {}) /\ Wanes(ledger, ledger', {id}) /\ Kept(ledger', id, 0)
    BY <1>9, <2>3, <2>4, <2>5
  <2> QED BY <1>6, <2>6 DEF Admits
<1> QED BY <1>4, <1>5, <1>8, <1>10

LEMMA ArriveRestingAdmits ==
  ASSUME IInv, NEW id \in Id, Admissible(id), ArriveResting(id)
  PROVE  /\ Submitted(id, ledger', 0)
         /\ \/ Passes(ledger, ledger') /\ Refusable(id)
            \/ Admits(ledger, ledger', id, 0)
<1> DEFINE o == NewOrder(id, "limit")
           A == Accept(ledger, id)
           spent  == Spend(ledger, PartialFill(id))
           lapsed == CloseUnrested(A, id, o, "canceled")
           rested == Rest(A, id, o)
<1>1. WellFormed(ledger) /\ id \notin ledger.seen
  BY DEF IInv, Admissible
<1>2. Submitted(id, ledger', 0)
  BY DEF ArriveResting, Submitted
<1>3. \/ Terms[id].tif = "fok" /\ ledger' = spent
      \/ Terms[id].tif # "fok" /\ ledger' \in {lapsed, rested}
  BY DEF ArriveResting, Submitted
<1>4. CASE Terms[id].tif = "fok" /\ ledger' = spent
  <2>1. Passes(ledger, spent)
    BY <1>1, SpendPasses
  <2> QED BY <1>2, <1>4, <2>1 DEF Refusable
<1>5. CASE Terms[id].tif # "fok" /\ ledger' \in {lapsed, rested}
  <2>1. id \in ledger'.seen
    <3>1. lapsed.seen = A.seen /\ rested.seen = A.seen /\ id \in A.seen
      <4>1. WellFormed(A) /\ id \in A.seen /\ ~OnBook(A, id)
        BY <1>1, AcceptAlike, AcceptWellFormed
      <4>2. Fit(o) /\ "canceled" \in Statuses
        BY NewOrderFits DEF Restings, Statuses
      <4> HIDE DEF A, o
      <4>3. lapsed.seen = A.seen
        BY <4>1, <4>2, CloseUnrestedWellFormed
      <4>4. rested.seen = A.seen
        BY <4>1 DEF Rest, WellFormed, Ledger
      <4> QED BY <4>1, <4>3, <4>4
    <3> HIDE DEF lapsed, rested, A
    <3> QED BY <1>5, <3>1
  <2>2. ~Passes(ledger, ledger')
    BY <1>1, <2>1 DEF Passes
  <2>3. \E q \in Nat : Arrives(ledger, ledger', id, q) /\ 0 \in {0, q}
    BY <2>2, ArriveRestingCase
  <2>4. Minds(ledger, rested, {}) /\ Wanes(ledger, rested, {id}) /\ Kept(rested, id, 0)
    <3>1. Minds(ledger, rested, {}) /\ Wanes(ledger, rested, {id}) /\ Open(rested, id)
      BY <1>1, RestedOpen DEF Restings
    <3> HIDE DEF rested
    <3> QED BY <3>1 DEF Kept
  <2>5. Minds(ledger, lapsed, {}) /\ Wanes(ledger, lapsed, {id}) /\ Kept(lapsed, id, 0)
    <3>1. WellFormed(A) /\ ~OnBook(A, id) /\ Minds(ledger, A, {}) /\ Wanes(ledger, A, {})
      BY <1>1, AcceptAlike, SameBook
    <3>2. Fit(o) /\ Worked(o) = 0 /\ "canceled" \in Statuses
      BY NewOrderFits, NewOrderType DEF Restings, Statuses
    <3> HIDE DEF A, o
    <3>3. /\ Minds(A, lapsed, {}) /\ Wanes(A, lapsed, {}) /\ Freed(lapsed, id)
          /\ WellFormed(lapsed)
      BY <3>1, <3>2, CloseUnrestedMinds, CloseUnrestedWellFormed
    <3> HIDE DEF lapsed
    <3>4. Minds(ledger, lapsed, {}) /\ Wanes(ledger, lapsed, {id})
      BY <1>1, <3>1, <3>3, MindsTransitive, WanesTransitive, WanesMore
    <3> QED BY <3>3, <3>4 DEF Kept, Freed
  <2> HIDE DEF lapsed, rested
  <2> QED BY <1>2, <1>5, <2>3, <2>4, <2>5 DEF Admits
<1> QED BY <1>3, <1>4, <1>5

\* A taking order settled: closed with a fill or without one waiting for it,
\* or at rest.
LEMMA SettleTakenMinds ==
  ASSUME NEW L, WellFormed(L), NEW id \in Id, ~OnBook(L, id), id \in L.seen, NEW o, Fit(o),
         o.resting = "limit", o.qty > 0, NEW lapses, NEW q, q > 0 \/ Worked(o) = 0
  PROVE  LET M == SettleTaken(L, id, o, lapses)
         IN  /\ WellFormed(M) /\ Minds(L, M, {}) /\ Wanes(L, M, {id})
             /\ Kept(M, id, q)
<1> DEFINE M == SettleTaken(L, id, o, lapses)
           C(s) == CloseUnrested(L, id, o, s)
           R == Rest(L, id, o)
<1>1. \/ o.leaves = 0 /\ M = C("filled")
      \/ M = C("canceled")
      \/ M = R
  BY DEF SettleTaken
<1>2. ASSUME NEW s \in {"filled", "canceled"}, s = "filled" => o.leaves = 0
      PROVE  /\ WellFormed(C(s)) /\ Minds(L, C(s), {}) /\ Wanes(L, C(s), {id})
             /\ Kept(C(s), id, q)
  <2>1. s \in Statuses
    BY DEF Statuses
  <2>2. s = "filled" => Worked(o) # 0
    BY <1>2 DEF Worked, Fit, Order
  <2>3. /\ WellFormed(C(s)) /\ Minds(L, C(s), {}) /\ Wanes(L, C(s), {})
        /\ s # "filled" /\ Worked(o) = 0 => Freed(C(s), id)
    BY <2>1, CloseUnrestedMinds, CloseUnrestedWellFormed
  <2> HIDE DEF C
  <2> QED BY <2>2, <2>3, WanesMore DEF Kept, Freed
<1>3. WellFormed(R) /\ Minds(L, R, {}) /\ Wanes(L, R, {id}) /\ Kept(R, id, q)
  <2>1. WellFormed(R) /\ Minds(L, R, {}) /\ Wanes(L, R, {id}) /\ R.book[id] = o
    BY RestMinds, RestWellFormed
  <2> HIDE DEF R
  <2>2. Worked(o) = 0 => Open(R, id)
    BY <2>1, OpenBook DEF OnBook, Worked, Fit, Order
  <2> QED BY <2>1, <2>2 DEF Kept
<1> HIDE DEF M, C, R
<1> QED BY <1>1, <1>2, <1>3 DEF M

LEMMA ArriveTakingAdmits ==
  ASSUME IInv, NEW id \in Id, Admissible(id), ArriveTaking(id)
  PROVE  \E booked \in Nat :
           /\ Submitted(id, ledger', booked)
           /\ \/ Passes(ledger, ledger') /\ booked = 0 /\ Refusable(id)
              \/ Admits(ledger, ledger', id, booked)
<1>1. PICK depth \in 0..MaxDepth, funded \in Funded :
       LET o       == NewOrder(id, "limit")
           S       == Spend(ledger, PartialFill(id))
           planned == Planned(ledger, id, o.qty)
           cap     == Cap(ledger, id, o.qty)
           q       == Lesser(Lesser(planned, cap), depth)
           refused == (q > 0 /\ ~funded) \/ (Terms[id].tif = "fok" /\ depth < o.qty)
           F       == IF q = 0 THEN Accept(S, id)
                      ELSE CommitFill(Accept(S, id), id, q)
           lapses  == \/ cap = 0 \/ cap < planned
                      \/ Terms[id].class = "market"
                      \/ Terms[id].tif \in {"ioc", "fok"}
           rest    == [o EXCEPT !.leaves = @ - q, !.px = IF q > 0 THEN 1 ELSE 0]
       IN  \/ refused /\ Submitted(id, S, 0)
           \/ /\ ~refused
              /\ Submitted(id,
                   SettleTaken(IF q > 0 /\ ~Member THEN Linkage(F, id, q) ELSE F,
                               id, rest, lapses),
                   q)
  BY Zenon DEF ArriveTaking
<1> DEFINE o       == NewOrder(id, "limit")
           S       == Spend(ledger, PartialFill(id))
           planned == Planned(ledger, id, o.qty)
           cap     == Cap(ledger, id, o.qty)
           q       == Lesser(Lesser(planned, cap), depth)
           refused == (q > 0 /\ ~funded) \/ (Terms[id].tif = "fok" /\ depth < o.qty)
           A       == Accept(S, id)
           F       == IF q = 0 THEN A ELSE CommitFill(A, id, q)
           M       == IF q > 0 /\ ~Member THEN Linkage(F, id, q) ELSE F
           lapses  == \/ cap = 0 \/ cap < planned
                      \/ Terms[id].class = "market"
                      \/ Terms[id].tif \in {"ioc", "fok"}
           rest    == [o EXCEPT !.leaves = @ - q, !.px = IF q > 0 THEN 1 ELSE 0]
           N       == SettleTaken(M, id, rest, lapses)
<1>2. /\ Fit(o) /\ o.qty \in Nat /\ o.qty > 0 /\ o.leaves = o.qty
      /\ o.resting = "limit"
  BY NewOrderFits, NewOrderType DEF Restings
<1>3. q \in Nat /\ q <= o.qty /\ q <= cap
  <2>1. depth \in Nat
    BY MarketInputs
  <2>2. planned \in Nat /\ planned <= o.qty /\ cap \in Nat
    BY <1>2, PlannedBounded, CapType DEF IInv
  <2> HIDE DEF planned, cap, o
  <2> QED BY <1>2, <2>1, <2>2 DEF Lesser
<1>4. WellFormed(ledger) /\ id \notin ledger.seen
  BY DEF IInv, Admissible
<1>5. Terms[id].reduceOnly /\ q > 0 => q <= -(ledger.position * Terms[id].side)
  <2> HIDE DEF q, o
  <2> QED BY <1>2, <1>3, <1>4, CapReduces
<1>6. ~(Terms[id].parent # NoId /\ ~HasFilled(ledger, Terms[id].parent))
  BY DEF ArriveTaking, WaitsForParent
<1>7. \/ refused /\ Submitted(id, S, 0)
      \/ Submitted(id, N, q)
  BY <1>1
<1>8. Passes(ledger, S)
  BY <1>4, SpendPasses
<1>9. Fit(rest) /\ Worked(rest) = q /\ rest.resting = "limit" /\ rest.qty > 0
  <2> HIDE DEF q
  <2>1. o.leaves - q \in Nat /\ o.leaves - q <= o.qty /\ o \in Order
    BY <1>2, <1>3 DEF Fit
  <2> HIDE DEF o
  <2>2. /\ rest \in Order /\ rest.leaves = o.leaves - q /\ rest.qty = o.qty
        /\ rest.resting = o.resting
    BY <2>1 DEF Order
  <2> HIDE DEF rest
  <2> QED BY <1>2, <1>3, <2>1, <2>2 DEF Fit, Worked
<1>10. refused => Refusable(id)
  <2>1. ~funded => EnforceFunds
    BY Zenon DEF Funded
  <2> QED BY <2>1 DEF Refusable
<1> HIDE DEF q, planned, cap, refused
<1>11. /\ WellFormed(M) /\ ~OnBook(M, id) /\ M.seen = ledger.seen \cup {id}
       /\ M.executed = [ledger.executed EXCEPT ![id] = @ + q]
       /\ M.position = ledger.position + Terms[id].side * q
       /\ M.closed[id] = ledger.closed[id]
       /\ \A i \in Id \ {id} : Moves(ledger, M, i)
  <2>1. M = F \/ (q > 0 /\ M = Linkage(F, id, q))
    OBVIOUS
  <2> HIDE DEF M
  <2> QED BY <1>3, <1>4, <2>1, TakenMoves
<1>12. Minds(ledger, M, {}) /\ Wanes(ledger, M, {})
  <2>1. WellFormed(S) /\ S.book = ledger.book /\ id \notin S.seen
    BY <1>4, <1>8, SpendWellFormed DEF Passes
  <2> HIDE DEF S
  <2>2. WellFormed(A) /\ A.book = ledger.book /\ ~OnBook(A, id)
    BY <2>1, AcceptAlike
  <2> HIDE DEF A
  <2>3. WellFormed(F) /\ F.book = ledger.book
    BY <1>3, <2>2, CommitFillWellFormed
  <2> HIDE DEF F
  <2>4. Minds(ledger, F, {}) /\ Wanes(ledger, F, {})
    BY <1>4, <2>3, SameBook
  <2>5. M = F \/ (q > 0 /\ M = Linkage(F, id, q))
    OBVIOUS
  <2> HIDE DEF M
  <2>6. Minds(F, Linkage(F, id, q), {}) /\ Wanes(F, Linkage(F, id, q), {})
    BY <1>3, <2>3, LinkageMinds
  <2> QED BY <1>4, <1>11, <2>3, <2>4, <2>5, <2>6, MindsTransitive, WanesTransitive
<1> HIDE DEF M, rest, lapses
<1>13. Arrives(ledger, N, id, q)
  BY <1>3, <1>4, <1>5, <1>6, <1>9, <1>11, SettleTakenArrives
<1>14. /\ WellFormed(N) /\ Minds(M, N, {}) /\ Wanes(M, N, {id}) /\ Kept(N, id, q)
  <2>1. id \in M.seen /\ (q > 0 \/ Worked(rest) = 0)
    BY <1>3, <1>9, <1>11
  <2> QED BY <1>9, <1>11, <2>1, SettleTakenMinds
<1> HIDE DEF N, S
<1>15. Admits(ledger, N, id, q)
  <2>1. Minds(ledger, N, {}) /\ Wanes(ledger, N, {id})
    BY <1>4, <1>11, <1>12, <1>14, MindsTransitive, WanesTransitive, WanesMore
  <2> QED BY <1>3, <1>13, <1>14, <2>1 DEF Admits
<1>16. CASE refused /\ Submitted(id, S, 0)
  BY <1>8, <1>10, <1>16 DEF Submitted
<1>17. CASE Submitted(id, N, q)
  BY <1>3, <1>15, <1>17 DEF Submitted
<1> QED BY <1>7, <1>16, <1>17

\* A submit passes the order over for a reason, or takes it in.
LEMMA SubmitAdmits ==
  ASSUME IInv, NEW id \in Id, Submit(id)
  PROVE  \E booked \in Nat :
           /\ Submitted(id, ledger', booked)
           /\ \/ Passes(ledger, ledger') /\ booked = 0 /\ Refusable(id)
              \/ Admits(ledger, ledger', id, booked)
<1>1. Admissible(id)
  BY DEF Submit
<1>2. WellFormed(ledger) /\ Passes(ledger, ledger)
  BY DEF IInv, Passes
<1>3. CASE ArmedReject(id)
  <2>1. Submitted(id, Spend(ledger, RejectSubmit), 0) /\ Refusable(id)
    BY <1>3 DEF ArmedReject, Refusable
  <2>2. Passes(ledger, Spend(ledger, RejectSubmit))
    BY <1>2, SpendPasses
  <2>3. ledger' = Spend(ledger, RejectSubmit)
    BY <2>1 DEF Submitted
  <2> QED BY <2>1, <2>2, <2>3
<1>4. CASE ArriveBlind(id) \/ ArrivePostOnly(id)
  <2>1. Submitted(id, ledger, 0) /\ Refusable(id)
    BY <1>4 DEF ArriveBlind, ArrivePostOnly, Refusable
  <2>2. ledger' = ledger
    BY <2>1 DEF Submitted
  <2> QED BY <1>2, <2>1, <2>2
<1>5. CASE ArriveHeld(id)
  BY <1>1, <1>5, ArriveHeldAdmits
<1>6. CASE ArriveConditional(id)
  BY <1>1, <1>6, ArriveConditionalAdmits
<1>7. CASE ArriveResting(id)
  BY <1>1, <1>7, ArriveRestingAdmits
<1>8. CASE ArriveTaking(id)
  BY <1>1, <1>8, ArriveTakingAdmits
<1> QED BY <1>3, <1>4, <1>5, <1>6, <1>7, <1>8 DEF Submit
----------------------------------------------------------------------------
\* What a handler of an order on the book does; where no amend raises what is
\* left of an order, it is a trade.
Turns(L, M, id, q) ==
  /\ Works(L, M, id, q)
  /\ Minds(L, M, {}) /\ Wanes(L, M, {id})
  /\ AmendTo = {} => Trades(L, M, id, q)

\* A handler that runs with the lock free and leaves no group behind.
Handled ==
  /\ Unlocked /\ group' = group
  /\ \/ Passes(ledger, ledger')
     \/ \E id \in Id, q \in Nat : Turns(ledger, ledger', id, q)

LEMMA TradesTurns ==
  ASSUME NEW L, WellFormed(L), NEW M, NEW id \in Id, NEW q \in Nat, Works(L, M, id, q),
         NEW p \in Nat, Trades(L, M, id, p)
  PROVE  Turns(L, M, id, q)
<1>1. /\ M.executed[id] = L.executed[id] + q /\ M.executed[id] = L.executed[id] + p
      /\ L.executed[id] \in Nat
  BY DEF Works, Deals, Trades, WellFormed, Ledger
<1>2. p = q
  BY <1>1
<1> QED BY <1>2 DEF Turns, Trades

LEMMA CloseHandled ==
  ASSUME IInv, NEW id \in Id, Cancel(id) \/ VenueCancel(id) \/ Expire(id)
  PROVE  Handled
<1> DEFINE C(s) == CloseOut(ledger, id, ledger.book[id], s)
<1>1. /\ WellFormed(ledger) /\ OnBook(ledger, id) /\ Unlocked /\ group' = group
  BY DEF IInv, Cancel, VenueCancel, Expire, Holds
<1>2. ledger' \in {Spend(ledger, RejectCancel), C("canceled"), C("expired")}
  BY DEF Cancel, VenueCancel, Expire
<1>3. Passes(ledger, Spend(ledger, RejectCancel))
  BY <1>1, SpendPasses
<1>4. Trades(ledger, C("canceled"), id, 0) /\ Trades(ledger, C("expired"), id, 0)
  BY <1>1, CloseOutTrades
<1> HIDE DEF C
<1>5. Passes(ledger, ledger') \/ Works(ledger, ledger', id, 0)
  BY CloseCase
<1>6. Passes(ledger, ledger') \/ Turns(ledger, ledger', id, 0)
  BY <1>1, <1>2, <1>3, <1>4, <1>5, TradesTurns
<1> QED BY <1>1, <1>6 DEF Handled

\* An order restated on the book with what it has worked off.
LEMMA RestatedTurns ==
  ASSUME NEW L, WellFormed(L), NEW id \in Id, OnBook(L, id), NEW o, Fit(o),
         o.resting = L.book[id].resting, Worked(o) = Worked(L.book[id]),
         AmendTo = {} => o.leaves <= L.book[id].leaves,
         Works(L, Put(L, id, o), id, 0)
  PROVE  Turns(L, Put(L, id, o), id, 0)
<1> DEFINE M == Put(L, id, o)
<1>1. /\ Minds(L, M, {}) /\ Wanes(L, M, {id})
      /\ o.leaves <= L.book[id].leaves => Wanes(L, M, {})
  BY PutMinds DEF Waiting, OnBook
<1>2. WellFormed(M) /\ M.executed = L.executed
  <2>1. WellFormed(M)
    BY PutWellFormed
  <2>2. M.executed = L.executed
    BY DEF Put
  <2> QED BY <2>1, <2>2
<1>3. o.leaves <= L.book[id].leaves => Trades(L, M, id, 0)
  <2> HIDE DEF M
  <2> QED BY <1>1, <1>2, TradesNothing
<1> HIDE DEF M
<1> QED BY <1>1, <1>3 DEF Turns, M

LEMMA ModifyHandled ==
  ASSUME IInv, NEW id \in Id, NEW qty \in AmendTo \cup {ledger.book[id].qty},
         NEW newLevel \in BOOLEAN, Modify(id, qty, newLevel)
  PROVE  Handled
<1> DEFINE o == ledger.book[id]
           n == Amended(o, qty, newLevel)
<1>1. /\ WellFormed(ledger) /\ OnBook(ledger, id) /\ qty > Filled(o)
      /\ ledger' = Put(ledger, id, n) /\ Unlocked /\ group' = group
  BY DEF IInv, Modify, Holds
<1>2. Fit(o)
  BY <1>1, BookFits
<1>3. qty \in Nat
  BY <1>2, BookAssumption DEF Fit, Order
<1>4. AmendTo = {} => qty = o.qty
  OBVIOUS
<1> HIDE DEF o
<1>5. /\ n \in Order /\ n.qty = qty /\ n.leaves = qty - Filled(o)
      /\ n.resting = o.resting
  <2>1. qty - Filled(o) \in Nat
    BY <1>1, <1>2, <1>3 DEF Filled, Fit, Order
  <2>2. /\ o \in Order /\ o.rev + 1 \in Nat
        /\ (IF newLevel THEN o.px + 1 ELSE o.px) \in Nat
    BY <1>2 DEF Fit, Order
  <2>3. n = [o EXCEPT !.qty = qty, !.leaves = qty - Filled(o), !.rev = o.rev + 1,
                      !.px = IF newLevel THEN o.px + 1 ELSE o.px]
    BY DEF Amended, n
  <2> DEFINE px == IF newLevel THEN o.px + 1 ELSE o.px
             left == qty - Filled(o)
             rev == o.rev + 1
  <2>4. px \in Nat /\ left \in Nat /\ rev \in Nat
    BY <2>1, <2>2
  <2>5. n = [o EXCEPT !.qty = qty, !.leaves = left, !.rev = rev, !.px = px]
    BY <2>3
  <2> HIDE DEF px, left, rev
  <2>6. n \in Order /\ n.qty = qty /\ n.leaves = left /\ n.resting = o.resting
    BY <1>3, <2>2, <2>4, <2>5 DEF Order
  <2> QED BY <2>6 DEF left
<1> HIDE DEF n
<1>6. /\ Fit(n) /\ Worked(n) = Worked(o)
      /\ AmendTo = {} => n.leaves <= o.leaves
  BY <1>1, <1>2, <1>3, <1>4, <1>5 DEF Fit, Order, Worked, Filled
<1>7. Works(ledger, Put(ledger, id, n), id, 0)
  <2>1. Works(ledger, ledger', id, 0)
    BY <1>3, ModifyCase
  <2> QED BY <1>1, <2>1
<1>8. Turns(ledger, Put(ledger, id, n), id, 0)
  BY <1>1, <1>5, <1>6, <1>7, RestatedTurns DEF o
<1> QED BY <1>1, <1>8 DEF Handled

LEMMA RatchetHandled ==
  ASSUME IInv, Truthful, NEW id \in Id, Ratchet(id)
  PROVE  Handled
<1> DEFINE o == ledger.book[id]
           n == Ratcheted(o)
<1>1. /\ WellFormed(ledger) /\ OnBook(ledger, id)
      /\ ledger' = Put(ledger, id, n) /\ Unlocked /\ group' = group
  BY DEF IInv, Ratchet, Holds
<1>2. Fit(o)
  BY <1>1, BookFits
<1> HIDE DEF o
<1>3. /\ n \in Order /\ n.qty = o.qty /\ n.leaves = o.leaves /\ n.resting = o.resting
  <2> DEFINE px == o.px + 1
             rev == o.rev + 1
  <2>1. o \in Order /\ px \in Nat /\ rev \in Nat
    BY <1>2 DEF Fit, Order
  <2>2. n = [o EXCEPT !.px = px, !.rev = rev]
    BY DEF Ratcheted, n
  <2> HIDE DEF px, rev
  <2> QED BY <2>1, <2>2 DEF Order
<1> HIDE DEF n
<1>4. Fit(n) /\ Worked(n) = Worked(o) /\ n.leaves <= o.leaves
  BY <1>2, <1>3 DEF Fit, Order, Worked
<1>5. Works(ledger, Put(ledger, id, n), id, 0)
  <2>1. Works(ledger, ledger', id, 0)
    BY RatchetCase
  <2> QED BY <1>1, <2>1
<1>6. Turns(ledger, Put(ledger, id, n), id, 0)
  BY <1>1, <1>3, <1>4, <1>5, RestatedTurns DEF o
<1> QED BY <1>1, <1>6 DEF Handled

\* The revision a walk's answer advances.
LEMMA AdvancedTrades ==
  ASSUME NEW L, WellFormed(L), NEW id \in Id, OnBook(L, id)
  PROVE  LET A == [L EXCEPT !.book[id].rev = @ + 1]
         IN  /\ Minds(L, A, {}) /\ Wanes(L, A, {}) /\ WellFormed(A)
             /\ A.executed = L.executed /\ OnBook(A, id)
             /\ A.book[id].leaves = L.book[id].leaves
             /\ Waiting(A, id) <=> Waiting(L, id)
<1> DEFINE A == [L EXCEPT !.book[id].rev = @ + 1]
<1>1. /\ WellFormed(A) /\ OnBook(A, id) /\ Alike(L, A, id)
      /\ A.book[id].resting = L.book[id].resting
      /\ A.book[id].leaves = L.book[id].leaves
      /\ Worked(A.book[id]) = Worked(L.book[id])
      /\ \A i \in Id \ {id} : Spared(L, A, i)
  BY AdvancedAlike
<1> HIDE DEF A
<1>2. \A i \in Id : L.book[i].leaves \in Nat /\ L.book[i].qty \in Nat
                    /\ A.book[i].leaves \in Nat /\ A.book[i].qty \in Nat
  BY <1>1, BookFits DEF Fit, Order
<1>3. ASSUME NEW i \in Id
      PROVE  /\ OnBook(A, i) <=> OnBook(L, i)
             /\ Waiting(A, i) <=> Waiting(L, i)
             /\ A.book[i].leaves = L.book[i].leaves /\ A.book[i].qty = L.book[i].qty
  <2>1. CASE i = id
    BY <1>1, <1>2, <2>1 DEF OnBook, Waiting, Worked
  <2>2. CASE i # id
    BY <1>1, <2>2 DEF OnBook, Waiting, Spared
  <2> QED BY <2>1, <2>2
<1>4. Minds(L, A, {}) /\ Wanes(L, A, {})
  BY <1>2, <1>3, OpenBook DEF Minds, Wanes
<1> QED BY <1>1, <1>3, <1>4 DEF Alike, A

LEMMA ScanMissHandled ==
  ASSUME BInv, NEW w \in Walker, ScanMiss(w)
  PROVE  Handled
<1> DEFINE id == walks[w].id
           A == [ledger EXCEPT !.book[id].rev = @ + 1]
<1>1. /\ id \in Id /\ OnBook(ledger, id) /\ WellFormed(ledger) /\ Unlocked
      /\ group' = group /\ ledger' = A
  BY CurrentWorks DEF ScanMiss, Current, Reported, BInv, IInv
<1>2. Works(ledger, ledger', id, 0)
  BY ScanMissCase
<1> HIDE DEF id
<1>3. Trades(ledger, A, id, 0)
  BY <1>1, AdvancedTrades, TradesNothing
<1> HIDE DEF A
<1>4. Turns(ledger, ledger', id, 0)
  BY <1>1, <1>2, <1>3, TradesTurns
<1> QED BY <1>1, <1>4 DEF Handled

LEMMA ScanHitHandled ==
  ASSUME BInv, NEW w \in Walker, ScanHit(w)
  PROVE  Handled
<1> DEFINE id == walks[w].id
           A == [ledger EXCEPT !.book[id].rev = @ + 1]
<1>1. /\ id \in Id /\ OnBook(ledger, id) /\ ~Waiting(ledger, id)
      /\ ledger.book[id].leaves > 0 /\ WellFormed(ledger)
      /\ Unlocked /\ group' = group
  BY CurrentWorks DEF ScanHit, Current, Reported, BInv, IInv
<1>2. PICK q \in Nat : Works(ledger, ledger', id, q)
  BY ScanHitCase
<1>3. \/ \E live, reached \in BOOLEAN, depth \in 0..MaxDepth, funded \in Funded :
           ledger' = Trigger(ledger, id, [live |-> live, reached |-> reached,
                                          depth |-> depth, funded |-> funded])
      \/ \E funded \in Funded : ledger' = Activate(ledger, id, funded)
      \/ \E funded \in Funded : ledger' = SweepFill(A, id, funded)
  BY DEF ScanHit
<1> HIDE DEF id
<1>4. ASSUME NEW live \in BOOLEAN, NEW reached \in BOOLEAN, NEW depth \in 0..MaxDepth,
             NEW funded \in Funded,
             ledger' = Trigger(ledger, id, [live |-> live, reached |-> reached,
                                            depth |-> depth, funded |-> funded])
      PROVE  \E p \in Nat : Trades(ledger, ledger', id, p)
  <2> DEFINE m == [live |-> live, reached |-> reached, depth |-> depth, funded |-> funded]
  <2>1. m \in Market
    BY MarketInputs DEF Market
  <2>2. ledger' = Trigger(ledger, id, m)
    BY <1>4
  <2> HIDE DEF m
  <2> QED BY <1>1, <2>1, <2>2, TriggerTrades
<1>5. ASSUME NEW funded \in Funded, ledger' = Activate(ledger, id, funded)
      PROVE  Trades(ledger, ledger', id, 0)
  BY <1>1, <1>5, ActivateTrades
<1>6. ASSUME NEW funded \in Funded, ledger' = SweepFill(A, id, funded)
      PROVE  \E p \in Nat : Trades(ledger, ledger', id, p)
  <2>1. /\ Minds(ledger, A, {}) /\ Wanes(ledger, A, {}) /\ WellFormed(A)
        /\ A.executed = ledger.executed /\ OnBook(A, id) /\ ~Waiting(A, id)
        /\ A.book[id].leaves = ledger.book[id].leaves
    BY <1>1, AdvancedTrades
  <2> HIDE DEF A
  <2>2. A.book[id].leaves > 0
    BY <1>1, <2>1
  <2>3. PICK p \in Nat : Trades(A, SweepFill(A, id, funded), id, p)
    BY <1>1, <2>1, <2>2, SweepFillTrades
  <2>4. WellFormed(SweepFill(A, id, funded))
    BY <1>1, <2>1, SweepFillWellFormed
  <2> DEFINE M == SweepFill(A, id, funded)
  <2>5. ledger' = M /\ WellFormed(M) /\ Trades(A, M, id, p)
    BY <1>6, <2>3, <2>4
  <2> HIDE DEF M
  <2>6. Minds(ledger, M, {}) /\ Wanes(ledger, M, {id})
    BY <1>1, <2>1, <2>5, MindsTransitive, WanesTransitive, WanesMore DEF Trades
  <2>7. p > 0 => Yields(ledger, M, id, p)
    BY <1>1, <2>1, <2>5, YieldsBefore DEF Trades
  <2>8. Trades(ledger, M, id, p)
    BY <2>1, <2>5, <2>6, <2>7 DEF Trades
  <2> QED BY <2>5, <2>8
<1>7. \E p \in Nat : Trades(ledger, ledger', id, p)
  BY <1>3, <1>4, <1>5, <1>6
<1>8. Turns(ledger, ledger', id, q)
  BY <1>1, <1>2, <1>7, TradesTurns
<1> QED BY <1>1, <1>8 DEF Handled

\* Every step is a handler's, a submit, or a step of the group.
LEMMA NextHandled ==
  ASSUME BInv, [Next]_vars
  PROVE  \/ Handled
         \/ \E id \in Id : Submit(id) \/ MemberRefused(id)
         \/ \E f \in Frames : GroupSubmit(f)
         \/ GroupClose
         \/ UNCHANGED vars
<1>0. IInv /\ Truthful /\ WellFormed(ledger)
  BY DEF BInv, IInv
<1>1. ASSUME NEW id \in Id, NEW qty \in AmendTo \cup {ledger.book[id].qty},
             NEW newLevel \in BOOLEAN, Modify(id, qty, newLevel)
      PROVE  Handled
  BY <1>0, <1>1, ModifyHandled
<1>2. ASSUME NEW arm \in Arms, ArmDivergence(arm) PROVE Handled
  BY <1>0, <1>2 DEF ArmDivergence, Handled, Passes, WellFormed, Ledger
<1>3. ASSUME NEW w \in Walker, NEW id \in Id, PlanScan(w, id) PROVE Handled
  BY <1>3 DEF PlanScan, Holds, Handled, Passes
<1>4. ASSUME NEW w \in Walker, ScanStale(w) \/ ScanDropped(w) PROVE Handled
  BY <1>4 DEF ScanStale, ScanDropped, Reported, Handled, Passes
<1> QED BY <1>0, <1>1, <1>2, <1>3, <1>4, CloseHandled, RatchetHandled, ScanMissHandled,
           ScanHitHandled DEF Next
----------------------------------------------------------------------------
\* The members of the group whose turn is still to come, and those whose fill
\* the closing pass has still to link.
FillIds(s) == {s[k].id : k \in DOMAIN s}
Coming  == FrameIds(group.todo)
Pending == FillIds(group.filled)

Distinct(s) == \A j, k \in DOMAIN s : s[j] = s[k] => j = k

\* A group under way is that of a valid frame, whose members come up once
\* each and unseen.
Framed ==
  /\ group = Idle \/ \E f \in ValidFrames : group.frame = FrameIds(f)
  /\ Coming \subseteq group.frame /\ Coming \cap ledger.seen = {}
  /\ Distinct(group.todo)

\* The turn of one member: it comes up no more, and if its fill was booked the
\* closing pass will link it.
TurnTaken(id, booked) ==
  /\ id \in Coming /\ Coming' = Coming \ {id} /\ Distinct(group'.todo)
  /\ Pending' = IF booked > 0 THEN Pending \cup {id} ELSE Pending
  /\ group'.frame = group.frame

LEMMA TailOfDistinct ==
  ASSUME NEW S, NEW s \in Seq(S), s # <<>>, Distinct(s)
  PROVE  /\ Head(s) \in FrameIds(s) /\ Distinct(Tail(s))
         /\ FrameIds(Tail(s)) = FrameIds(s) \ {Head(s)}
<1> DEFINE t == Tail(s)
<1>1. /\ 1 \in DOMAIN s /\ Head(s) = s[1] /\ DOMAIN s = 1..Len(s) /\ Len(s) \in Nat
      /\ DOMAIN t = 1..(Len(s) - 1)
      /\ \A k \in DOMAIN t : k + 1 \in DOMAIN s /\ t[k] = s[k + 1]
  OBVIOUS
<1> HIDE DEF t
<1>2. Distinct(t)
  <2>1. ASSUME NEW j \in DOMAIN t, NEW k \in DOMAIN t, t[j] = t[k] PROVE j = k
    <3>1. j + 1 = k + 1
      BY <1>1, <2>1 DEF Distinct
    <3> QED BY <1>1, <3>1
  <2> QED BY <2>1 DEF Distinct
<1>3. ASSUME NEW k \in DOMAIN t
      PROVE  t[k] \in FrameIds(s) /\ t[k] # s[1]
  <2>1. k + 1 # 1 /\ k + 1 \in DOMAIN s /\ t[k] = s[k + 1]
    BY <1>1
  <2> QED BY <1>1, <2>1 DEF Distinct, FrameIds
<1>4. ASSUME NEW j \in DOMAIN s, s[j] # s[1]
      PROVE  s[j] \in FrameIds(t)
  <2>1. j - 1 \in DOMAIN t /\ (j - 1) + 1 = j
    BY <1>1, <1>4
  <2>2. t[j - 1] = s[j]
    BY <1>1, <2>1
  <2> QED BY <2>1, <2>2 DEF FrameIds
<1>5. \A k \in DOMAIN t : t[k] \in FrameIds(s) \ {s[1]}
  BY <1>3
<1>6. FrameIds(t) \subseteq FrameIds(s) \ {s[1]}
  BY <1>5 DEF FrameIds
<1>7. FrameIds(s) \ {s[1]} \subseteq FrameIds(t)
  BY <1>4 DEF FrameIds
<1>8. s[1] \in FrameIds(s)
  BY <1>1 DEF FrameIds
<1> QED BY <1>1, <1>2, <1>6, <1>7, <1>8 DEF t

LEMMA AppendedPending ==
  ASSUME NEW S, NEW s \in Seq(S), NEW e \in S
  PROVE  FillIds(Append(s, e)) = FillIds(s) \cup {e.id}
<1> DEFINE t == Append(s, e)
<1>1. /\ Len(s) + 1 \in DOMAIN t /\ t[Len(s) + 1] = e
      /\ \A k \in DOMAIN s : k \in DOMAIN t /\ t[k] = s[k]
      /\ \A k \in DOMAIN t : k \in DOMAIN s \/ t[k] = e
  OBVIOUS
<1> HIDE DEF t
<1>2. \A k \in DOMAIN t : t[k].id \in FillIds(s) \cup {e.id}
  BY <1>1 DEF FillIds
<1>3. (\A k \in DOMAIN s : s[k].id \in FillIds(t)) /\ e.id \in FillIds(t)
  BY <1>1 DEF FillIds
<1>4. FillIds(t) = FillIds(s) \cup {e.id}
  BY <1>2, <1>3 DEF FillIds
<1> QED BY <1>4 DEF t

LEMMA MemberTurn ==
  ASSUME IInv, Framed, NEW id \in Id, Member, Head(group.todo) = id,
         NEW L, NEW booked \in Nat, Submitted(id, L, booked)
  PROVE  TurnTaken(id, booked) /\ group # Idle
<1> DEFINE Q == [id : Id, qty : Nat]
           e == [id |-> id, qty |-> booked]
           s == group.todo
           f == group.filled
<1>1. s \in Seq(Id) /\ s # <<>> /\ Distinct(s) /\ f \in Seq(Q) /\ group \in Group
  BY DEF IInv, Group, Member, Framed
<1>2. /\ group'.todo = Tail(s) /\ group'.frame = group.frame
      /\ group'.filled = IF booked > 0 THEN Append(f, e) ELSE f
  BY <1>1 DEF Submitted, Group
<1>3. e \in Q /\ e.id = id
  OBVIOUS
<1> HIDE DEF Q, e
<1>4. /\ Head(s) \in FrameIds(s) /\ Distinct(Tail(s))
      /\ FrameIds(Tail(s)) = FrameIds(s) \ {Head(s)}
  BY <1>1, TailOfDistinct
<1>5. id \in Coming /\ Coming' = Coming \ {id} /\ Distinct(group'.todo)
  BY <1>2, <1>4 DEF Coming
<1>6. FillIds(Append(f, e)) = FillIds(f) \cup {e.id}
  BY <1>1, <1>3, AppendedPending
<1>7. Pending = FillIds(f) /\ Pending' = FillIds(group'.filled)
  BY DEF Pending
<1>8. Pending' = IF booked > 0 THEN Pending \cup {id} ELSE Pending
  <2>1. CASE booked > 0
    BY <1>2, <1>3, <1>6, <1>7, <2>1
  <2>2. CASE ~(booked > 0)
    BY <1>2, <1>7, <2>2
  <2> QED BY <2>1, <2>2
<1>9. group # Idle
  BY <1>1 DEF Idle
<1> QED BY <1>2, <1>5, <1>8, <1>9 DEF TurnTaken

\* With the lock free nothing comes up and nothing is to be linked.
LEMMA IdleNothing ==
  ASSUME group = Idle
  PROVE  Coming = {} /\ Pending = {} /\ group.frame = {} /\ ~Member
BY DEF Idle, Coming, Pending, Member, FrameIds, FillIds

\* A frame whose members number as many as its places names each once.
LEMMA FrameDistinct ==
  ASSUME NEW f \in ValidFrames
  PROVE  /\ Distinct(f) /\ f \in Frames /\ f \in Seq(Id)
         /\ IsFiniteSet(FrameIds(f)) /\ Cardinality(FrameIds(f)) <= MaxLinked + 1
<1> DEFINE S == FrameIds(f)
           n == Len(f)
<1>1. /\ f \in Frames /\ f \in Seq(Id) /\ Cardinality(S) = n /\ n <= MaxLinked + 1
      /\ S = {f[k] : k \in DOMAIN f}
  BY BookAssumption DEF ValidFrames, ValidFrame, FrameIds
<1>2. n \in Nat /\ DOMAIN f = 1..n
  BY <1>1
<1> HIDE DEF S, n
<1>3. IsFiniteSet(1..n) /\ Cardinality(1..n) = n
  BY <1>2, FS_Interval
<1>4. f \in Surjection(1..n, S)
  <2>1. f \in [1..n -> S]
    BY <1>1, <1>2
  <2> QED BY <1>1, <1>2, <2>1 DEF Surjection
<1>5. IsFiniteSet(S) /\ f \in Injection(1..n, S)
  BY <1>1, <1>3, <1>4, FS_Surjection
<1>6. Distinct(f)
  BY <1>2, <1>5 DEF Injection, IsInjective, Distinct
<1> QED BY <1>1, <1>5, <1>6 DEF S

\* The steps, as an order list sees them.  The lock is free and a bare order
\* comes in or is passed over;
Alone(id) ==
  /\ Unlocked /\ group' = group /\ id \notin Linked /\ Admissible(id)
  /\ \/ Passes(ledger, ledger')
     \/ \E booked \in Nat : Admits(ledger, ledger', id, booked)

\* a member has its turn, and comes in or is passed over for a reason;
InGroup(id, booked) ==
  /\ Member /\ TurnTaken(id, booked)
  /\ \/ /\ Passes(ledger, ledger') /\ booked = 0
        /\ Refusable(id) \/ ~Admissible(id)
     \/ /\ Admissible(id) /\ Submit(id)
        /\ Admits(ledger, ledger', id, booked)

\* a frame opens a group;
Opens(f) ==
  /\ Unlocked /\ Passes(ledger, ledger')
  /\ group'.frame = FrameIds(f) /\ group'.todo = f /\ Pending' = {}
  /\ \A id \in FrameIds(f) : id \notin ledger.seen /\ LinkOK(ledger, id, FrameIds(f))

\* the closing pass links a member's fill;
ClosesOne(id, q) ==
  /\ ~Member /\ id \in Pending /\ ledger' = Linkage(ledger, id, q)
  /\ ~Member' /\ group'.frame = group.frame
  /\ Pending' \subseteq Pending /\ Pending \subseteq Pending' \cup {id}

\* or it ends.
Ends == ~Member /\ Pending = {} /\ group' = Idle /\ ledger' = ledger

\* What is not about an order list.
Apart ==
  /\ group' = group
  /\ \/ Passes(ledger, ledger')
     \/ Unlocked /\ \E id \in Id, q \in Nat : Turns(ledger, ledger', id, q)

ListStep ==
  \/ Apart
  \/ \E id \in Id : Alone(id)
  \/ \E id \in Id, booked \in Nat : InGroup(id, booked)
  \/ \E f \in ValidFrames : Opens(f)
  \/ \E id \in Id, q \in Nat : ClosesOne(id, q)
  \/ Ends

LEMMA SubmitSteps ==
  ASSUME BInv, Framed, NEW id \in Id, Submit(id)
  PROVE  Alone(id) \/ \E booked \in Nat : InGroup(id, booked)
<1>1. IInv /\ Turn(id) /\ Admissible(id)
  BY DEF BInv, Submit
<1>2. PICK booked \in Nat :
        /\ Submitted(id, ledger', booked)
        /\ \/ Passes(ledger, ledger') /\ booked = 0 /\ Refusable(id)
           \/ Admits(ledger, ledger', id, booked)
  BY <1>1, SubmitAdmits
<1>3. CASE ~Member
  BY <1>1, <1>2, <1>3 DEF Turn, Submitted, Alone
<1>4. CASE Member
  <2>1. TurnTaken(id, booked)
    BY <1>1, <1>2, <1>4, MemberTurn DEF Turn
  <2> QED BY <1>1, <1>2, <1>4, <2>1 DEF InGroup
<1> QED BY <1>3, <1>4

LEMMA MemberRefusedSteps ==
  ASSUME BInv, Framed, NEW id \in Id, MemberRefused(id)
  PROVE  InGroup(id, 0)
<1>1. /\ IInv /\ Member /\ Head(group.todo) = id /\ Submitted(id, ledger, 0)
      /\ Refusable(id) \/ ~Admissible(id)
  BY DEF BInv, MemberRefused, Refusable
<1>2. TurnTaken(id, 0)
  BY <1>1, MemberTurn
<1>3. Passes(ledger, ledger')
  BY <1>1 DEF Submitted, Passes
<1> QED BY <1>1, <1>2, <1>3 DEF InGroup

LEMMA GroupSubmitSteps ==
  ASSUME BInv, NEW f \in Frames, GroupSubmit(f)
  PROVE  Apart \/ (f \in ValidFrames /\ Opens(f))
<1>1. WellFormed(ledger) /\ Unlocked /\ f \in ValidFrames
  BY DEF BInv, IInv, GroupSubmit
<1>2. CASE RejectSubmit \in ledger.armed
  <2>1. ledger' = Spend(ledger, RejectSubmit) /\ group' = group
    BY <1>2 DEF GroupSubmit
  <2>2. Passes(ledger, Spend(ledger, RejectSubmit))
    BY <1>1, SpendPasses
  <2> QED BY <2>1, <2>2 DEF Apart
<1>3. CASE RejectSubmit \notin ledger.armed
  <2>1. PICK blind \in BOOLEAN :
          group' = [frame |-> FrameIds(f), todo |-> f, filled |-> <<>>, blind |-> blind]
    BY <1>3 DEF GroupSubmit
  <2>2. /\ ledger' = ledger
        /\ \A id \in FrameIds(f) : id \notin ledger.seen /\ LinkOK(ledger, id, FrameIds(f))
    BY <1>3 DEF GroupSubmit
  <2>3. group'.filled = <<>> /\ group'.frame = FrameIds(f) /\ group'.todo = f
    BY <2>1
  <2>4. Pending' = {}
    BY <2>3 DEF Pending, FillIds
  <2> QED BY <1>1, <2>2, <2>3, <2>4 DEF Opens, Passes
<1> QED BY <1>2, <1>3

LEMMA GroupCloseSteps ==
  ASSUME BInv, GroupClose
  PROVE  Ends \/ \E id \in Id, q \in Nat : ClosesOne(id, q)
<1> DEFINE Q == [id : Id, qty : Nat]
           s == group.filled
<1>1. s \in Seq(Q) /\ group \in Group /\ ~Member
  BY DEF BInv, IInv, Group, GroupClose, Member
<1>2. CASE s = <<>>
  BY <1>1, <1>2 DEF GroupClose, Ends, Pending, FillIds
<1>3. CASE s # <<>>
  <2> DEFINE h == Head(s)
  <2>1. /\ group' = [group EXCEPT !.filled = Tail(s)]
        /\ ledger' = Linkage(ledger, h.id, h.qty)
    BY <1>3 DEF GroupClose
  <2>2. group'.filled = Tail(s) /\ group'.todo = group.todo /\ group'.frame = group.frame
    BY <1>1, <2>1 DEF Group
  <2> HIDE DEF Q
  <2>3. /\ h \in Q /\ h = s[1] /\ 1 \in DOMAIN s
        /\ \A k \in DOMAIN Tail(s) : k + 1 \in DOMAIN s /\ Tail(s)[k] = s[k + 1]
        /\ \A k \in DOMAIN s : k # 1 => k - 1 \in DOMAIN Tail(s) /\ Tail(s)[k - 1] = s[k]
    <3>1. s \in Seq(Q) /\ s # <<>>
      BY <1>1, <1>3
    <3> HIDE DEF s
    <3>2. Len(s) \in Nat \ {0} /\ DOMAIN s = 1..Len(s) /\ Head(s) = s[1]
      BY <3>1
    <3>3. s[1] \in Q /\ 1 \in DOMAIN s
      BY <3>1, <3>2
    <3>4. /\ DOMAIN Tail(s) = 1..(Len(s) - 1)
          /\ \A k \in DOMAIN Tail(s) : Tail(s)[k] = s[k + 1]
      BY <3>1
    <3>5. \A k \in DOMAIN Tail(s) : k + 1 \in DOMAIN s
      BY <3>2, <3>4
    <3>6. ASSUME NEW k \in DOMAIN s, k # 1
          PROVE  k - 1 \in DOMAIN Tail(s) /\ Tail(s)[k - 1] = s[k]
      <4>1. k - 1 \in DOMAIN Tail(s) /\ (k - 1) + 1 = k
        BY <3>2, <3>4, <3>6
      <4> QED BY <3>4, <4>1
    <3> QED BY <3>2, <3>3, <3>4, <3>5, <3>6
  <2> HIDE DEF s, h
  <2>4. \A k \in DOMAIN Tail(s) : Tail(s)[k].id \in FillIds(s)
    BY <2>3 DEF FillIds
  <2>5. \A k \in DOMAIN s : s[k].id \in FillIds(Tail(s)) \cup {h.id}
    BY <2>3 DEF FillIds
  <2>6. /\ FillIds(Tail(s)) \subseteq FillIds(s) /\ h.id \in FillIds(s)
        /\ FillIds(s) \subseteq FillIds(Tail(s)) \cup {h.id}
    BY <2>3, <2>4, <2>5 DEF FillIds
  <2>7. Pending = FillIds(s) /\ Pending' = FillIds(Tail(s))
    BY <2>2 DEF Pending, s
  <2>8. h.id \in Id /\ h.qty \in Nat
    BY <2>3 DEF Q
  <2>9. ~Member'
    BY <1>1, <2>2 DEF Member
  <2>10. ClosesOne(h.id, h.qty)
    BY <1>1, <2>1, <2>2, <2>6, <2>7, <2>9 DEF ClosesOne
  <2> QED BY <2>8, <2>10
<1> QED BY <1>2, <1>3

LEMMA NextListStep ==
  ASSUME BInv, Framed, [Next]_vars
  PROVE  ListStep
<1>1. Handled => Apart
  BY DEF Handled, Apart
<1>2. UNCHANGED vars => Apart
  BY DEF vars, Apart, Passes
<1> QED BY <1>1, <1>2, NextHandled, SubmitSteps, MemberRefusedSteps, GroupSubmitSteps,
           GroupCloseSteps DEF ListStep
----------------------------------------------------------------------------
LEMMA SameGroup ==
  ASSUME group' = group
  PROVE  Coming' = Coming /\ Pending' = Pending
BY DEF Coming, Pending

LEMMA NothingComing ==
  ~Member => Coming = {} /\ Distinct(group.todo)
BY DEF Member, Coming, FrameIds, Distinct

LEMMA InitFramed == Init => Framed
BY DEF Init, Framed, Idle, Coming, FrameIds, Distinct

\* Where the seen ids go: the step of a group adds the member whose turn it
\* is, or no one.
LEMMA AdmitsSeen ==
  ASSUME NEW L, NEW M, NEW id, NEW booked, Admits(L, M, id, booked)
  PROVE  M.seen = L.seen \cup {id}
BY DEF Admits, Arrives

LEMMA NextFramed ==
  ASSUME BInv, Framed, [Next]_vars
  PROVE  Framed'
<1>1. CASE Apart
  <2>1. CASE Passes(ledger, ledger')
    BY <1>1, <2>1, SameGroup DEF Apart, Passes, Framed
  <2>2. CASE Unlocked
    <3>1. group' = group /\ Coming' = {}
      BY <1>1, <2>2, SameGroup, IdleNothing DEF Apart, Unlocked
    <3> QED BY <2>2, <3>1 DEF Framed, Unlocked
  <2> QED BY <1>1, <2>1, <2>2 DEF Apart
<1>2. ASSUME NEW id \in Id, Alone(id) PROVE Framed'
  <2>1. group' = group /\ group = Idle /\ Coming' = {}
    BY <1>2, SameGroup, IdleNothing DEF Alone, Unlocked
  <2> QED BY <2>1 DEF Framed
<1>3. ASSUME NEW id \in Id, NEW booked \in Nat, InGroup(id, booked) PROVE Framed'
  <2>1. /\ group # Idle /\ group'.frame = group.frame /\ Coming' = Coming \ {id}
        /\ Distinct(group'.todo)
    BY <1>3, IdleNothing DEF InGroup, TurnTaken
  <2>2. ledger'.seen \subseteq ledger.seen \cup {id}
    BY <1>3, AdmitsSeen DEF InGroup, Passes
  <2> QED BY <2>1, <2>2 DEF Framed
<1>4. ASSUME NEW f \in ValidFrames, Opens(f) PROVE Framed'
  <2>1. group'.frame = FrameIds(f) /\ Coming' = FrameIds(f) /\ group'.todo = f
    BY <1>4 DEF Opens, Coming
  <2>2. FrameIds(f) \cap ledger.seen = {} /\ ledger'.seen = ledger.seen
    BY <1>4 DEF Opens, Passes
  <2> QED BY <2>1, <2>2, FrameDistinct DEF Framed, ValidFrames
<1>5. ASSUME NEW id \in Id, NEW q \in Nat, ClosesOne(id, q) PROVE Framed'
  <2>1. group # Idle /\ group'.frame = group.frame
    BY <1>5, IdleNothing DEF ClosesOne
  <2>2. Coming' = {} /\ Distinct(group'.todo)
    BY <1>5 DEF ClosesOne, Member, Coming, FrameIds, Distinct
  <2> QED BY <2>1, <2>2 DEF Framed
<1>6. CASE Ends
  <2>1. group' = Idle
    BY <1>6 DEF Ends
  <2> QED BY <2>1 DEF Framed, Idle, Coming, FrameIds, Distinct
<1> QED BY <1>1, <1>2, <1>3, <1>4, <1>5, <1>6, NextListStep DEF ListStep
----------------------------------------------------------------------------
(* Held children.                                                          *)

\* No child of a list has children of its own.
OneLevel ==
  \A c \in Id : Terms[c].parent \in Linked => Terms[Terms[c].parent].parent = NoId

\* What keeps the root of a frame from being refused once its group is under
\* way, and a child from being waited for.
RootsAccepted ==
  /\ ~EnforceFunds
  /\ \A id \in Linked : Terms[id].parent = NoId =>
       /\ Terms[id].class \notin {"market", "marketToLimit"}
       /\ ~(Terms[id].postOnly /\ id \in Through)
  /\ OneLevel

\* Every held child waits for an order that is open or in E.
AwaitsIn(L, E) ==
  \A c \in Id : Waiting(L, c) =>
    /\ Terms[c].parent \in Id
    /\ Terms[c].parent \in E \/ Open(L, Terms[c].parent)

\* The roots of the group under way have been taken or will be.
RootsComing ==
  \A i \in group.frame : Terms[i].parent = NoId => i \in ledger.seen \cup Coming

Awaiting == /\ Framed /\ RootsComing
            /\ AwaitsIn(ledger, Pending \cup Coming)

LEMMA MindsAwaits ==
  ASSUME NEW L, NEW M, NEW E, NEW F, Minds(L, M, {}), AwaitsIn(L, E),
         \A c \in Id : Waiting(M, c) /\ Terms[c].parent \in E
                       => Terms[c].parent \in F \/ Open(M, Terms[c].parent)
  PROVE  AwaitsIn(M, F)
BY DEF Minds, AwaitsIn

LEMMA PassesMinds ==
  ASSUME WellFormed(ledger), Passes(ledger, ledger')
  PROVE  Minds(ledger, ledger', {}) /\ ledger'.seen = ledger.seen
BY SameBook DEF Passes

LEMMA FrameMember ==
  ASSUME Framed, NEW i \in group.frame
  PROVE  /\ i \in Linked /\ i \in Id
         /\ Terms[i].tif \notin {"ioc", "fok"} /\ Terms[i].parent # i
         /\ Terms[i].parent \in group.frame \cup {NoId}
<1>1. PICK f \in ValidFrames : group.frame = FrameIds(f)
  BY IdleNothing DEF Framed
<1>2. \A S \in SUBSET FrameIds(f) : S # {} => \E j \in S : Terms[j].parent \notin S
  BY DEF ValidFrames, ValidFrame
<1>3. {i} \in SUBSET FrameIds(f)
  BY <1>1
<1>4. Terms[i].parent # i
  BY <1>2, <1>3
<1>5. /\ i \in Linked /\ Terms[i].tif \notin {"ioc", "fok"}
      /\ Terms[i].parent \in FrameIds(f) \cup {NoId}
  BY <1>1 DEF ValidFrames, ValidFrame
<1> QED BY <1>1, <1>4, <1>5, BookAssumption

\* A root is refused for none of the reasons there are.
LEMMA RootTaken ==
  ASSUME RootsAccepted, Framed, Member, NEW id \in Coming, Terms[id].parent = NoId
  PROVE  ~Refusable(id) /\ Admissible(id)
<1>1. id \in group.frame /\ id \notin ledger.seen
  BY DEF Framed
<1>2. id \in Linked /\ Terms[id].tif # "fok"
  BY <1>1, FrameMember
<1> QED BY <1>1, <1>2 DEF RootsAccepted, Refusable, Admissible, LinkOK

\* Nothing waits for a child that is still to come.
LEMMA ChildAwaitedByNone ==
  ASSUME RootsAccepted, Framed, NEW id \in Coming, Terms[id].parent # NoId,
         NEW c \in Id
  PROVE  Terms[c].parent # id
BY FrameMember DEF RootsAccepted, OneLevel, Framed

LEMMA ArrivedAwaits ==
  ASSUME RootsAccepted, BInv, BInv', Awaiting, NEW id \in Id, NEW booked \in Nat,
         Admissible(id), Admits(ledger, ledger', id, booked),
         NEW E, Pending \cup (Coming \ {id}) \subseteq E,
         id \in Coming /\ booked > 0 => id \in E,
         id \in Coming \/ Coming = {},
         id \notin Coming => group.frame = {}
  PROVE  AwaitsIn(ledger', E)
<1>1. CASE Minds(ledger, ledger', {}) /\ Kept(ledger', id, booked)
  BY <1>1, MindsAwaits DEF Kept, Awaiting
<1>2. CASE /\ Terms[id].parent # NoId /\ ~HasFilled(ledger, Terms[id].parent)
           /\ ledger'.book = [ledger.book EXCEPT ![id] = NewOrder(id, "held")]
  <2> DEFINE p == Terms[id].parent
  <2>1. p \in Id
    BY <1>2, TermsAssumption DEF OrderTerms
  <2>2. WellFormed(ledger) /\ id \notin ledger.seen /\ LinkOK(ledger, id, group.frame)
    BY DEF BInv, IInv, Admissible
  <2>3. \A i \in Id \ {id} : ledger'.book[i] = ledger.book[i]
    BY <1>2, <2>2 DEF WellFormed, Ledger
  <2>4. \A i \in Id \ {id} : /\ Open(ledger, i) => Open(ledger', i)
                             /\ Waiting(ledger', i) => Waiting(ledger, i)
    BY <2>3, OpenBook DEF OnBook, Waiting
  <2>5. p # id /\ (p \in E \/ Open(ledger, p))
    <3>1. CASE p \in group.frame /\ p \notin ledger.seen
      <4>1. id \in Coming /\ id \in group.frame
        BY <3>1 DEF Awaiting, Framed
      <4>2. p \in Linked /\ p # id
        BY <3>1, <4>1, FrameMember DEF Awaiting
      <4>3. Terms[p].parent = NoId
        BY <2>1, <4>2 DEF RootsAccepted, OneLevel
      <4>4. p \in Coming
        BY <3>1, <4>3 DEF Awaiting, RootsComing
      <4> QED BY <4>2, <4>4
    <3>2. CASE p \in ledger.seen /\ (OnBook(ledger, p) \/ HasFilled(ledger, p))
      BY <1>2, <2>2, <3>2 DEF Open
    <3> QED BY <1>2, <2>2, <3>1, <3>2 DEF LinkOK
  <2> HIDE DEF p
  <2>6. ASSUME NEW c \in Id \ {id}, Waiting(ledger', c)
        PROVE  /\ Terms[c].parent \in Id
               /\ Terms[c].parent \in E \/ Open(ledger', Terms[c].parent)
    <3>1. /\ Terms[c].parent \in Id
          /\ Terms[c].parent \in Pending \cup Coming \/ Open(ledger, Terms[c].parent)
      BY <2>4, <2>6 DEF Awaiting, AwaitsIn
    <3>2. Open(ledger, Terms[c].parent) => Terms[c].parent # id
      BY <2>2 DEF Open, WellFormed, WellFormedAt
    <3>3. id \in Coming => Terms[c].parent # id
      BY <1>2, <2>6, ChildAwaitedByNone DEF Awaiting
    <3> QED BY <2>4, <3>1, <3>2, <3>3
  <2>7. p \in E \/ Open(ledger', p)
    BY <2>1, <2>4, <2>5
  <2> QED BY <2>1, <2>6, <2>7 DEF AwaitsIn, p
<1> QED BY <1>1, <1>2 DEF Admits

LEMMA InitAwaiting == Init => Awaiting
<1> SUFFICES ASSUME Init PROVE Awaiting
  OBVIOUS
<1>1. group.frame = {} /\ \A c \in Id : ledger.book[c] = Absent
  BY DEF Init, Idle, EmptyLedger
<1>2. \A c \in Id : ~Waiting(ledger, c)
  BY <1>1 DEF Waiting, Absent
<1> QED BY <1>1, <1>2, InitFramed DEF Awaiting, RootsComing, AwaitsIn

LEMMA ClosesOneLinks ==
  ASSUME BInv, NEW id \in Id, NEW q \in Nat, ClosesOne(id, q)
  PROVE  Links(ledger, ledger') /\ ledger.executed[id] > 0
<1>1. ledger.executed[id] > 0
  BY DEF ClosesOne, Pending, FillIds, BInv, Booked
<1>2. WellFormed(ledger) /\ ledger' = Linkage(ledger, id, q)
  BY DEF ClosesOne, BInv, IInv
<1> QED BY <1>1, <1>2, LinkageMoves DEF Links, Aside

LEMMA NextAwaiting ==
  ASSUME RootsAccepted, BInv, BInv', Awaiting, [Next]_vars
  PROVE  Awaiting'
<1> DEFINE E == Pending \cup Coming
<1>0. /\ Framed /\ WellFormed(ledger) /\ AwaitsIn(ledger, E) /\ RootsComing
  BY DEF Awaiting, BInv, IInv
<1>1. Framed'
  BY <1>0, NextFramed
<1>2. CASE Apart
  <2>1. Pending' \cup Coming' = E /\ group' = group
    BY <1>2, SameGroup DEF Apart
  <2>2. CASE Passes(ledger, ledger')
    <3>1. Minds(ledger, ledger', {}) /\ ledger'.seen = ledger.seen
      BY <1>0, <2>2, PassesMinds
    <3>2. AwaitsIn(ledger', E)
      BY <1>0, <3>1, MindsAwaits
    <3> QED BY <1>0, <1>1, <2>1, <3>1, <3>2, SameGroup DEF Awaiting, RootsComing
  <2>3. ASSUME Unlocked, NEW id \in Id, NEW q \in Nat, Turns(ledger, ledger', id, q)
        PROVE  Awaiting'
    <3>1. AwaitsIn(ledger', E)
      BY <1>0, <2>3, MindsAwaits DEF Turns
    <3>2. group.frame = {}
      BY <2>3, IdleNothing DEF Unlocked
    <3> QED BY <1>1, <2>1, <3>1, <3>2 DEF Awaiting, RootsComing
  <2> QED BY <1>2, <2>2, <2>3 DEF Apart
<1>3. ASSUME NEW id \in Id, Alone(id) PROVE Awaiting'
  <2>1. /\ group' = group /\ Coming = {} /\ Pending = {} /\ group.frame = {}
        /\ Pending' \cup Coming' = {}
    BY <1>3, SameGroup, IdleNothing DEF Alone, Unlocked
  <2>2. CASE Passes(ledger, ledger')
    <3>1. AwaitsIn(ledger', {})
      BY <1>0, <2>1, <2>2, PassesMinds, MindsAwaits
    <3> QED BY <1>1, <2>1, <3>1 DEF Awaiting, RootsComing
  <2>3. ASSUME NEW booked \in Nat, Admits(ledger, ledger', id, booked) PROVE Awaiting'
    <3>1. AwaitsIn(ledger', {})
      BY <1>3, <2>1, <2>3, ArrivedAwaits DEF Alone
    <3> QED BY <1>1, <2>1, <3>1 DEF Awaiting, RootsComing
  <2> QED BY <1>3, <2>2, <2>3 DEF Alone
<1>4. ASSUME NEW id \in Id, NEW booked \in Nat, InGroup(id, booked) PROVE Awaiting'
  <2> DEFINE F == Pending' \cup Coming'
  <2>1. /\ id \in Coming /\ Coming' = Coming \ {id} /\ group'.frame = group.frame
        /\ Pending' = IF booked > 0 THEN Pending \cup {id} ELSE Pending
    BY <1>4 DEF InGroup, TurnTaken
  <2>2. Pending \cup (Coming \ {id}) \subseteq F /\ (booked > 0 => id \in F)
    BY <2>1
  <2> HIDE DEF F
  <2>3. CASE Passes(ledger, ledger') /\ (Refusable(id) \/ ~Admissible(id))
    <3>1. Terms[id].parent # NoId
      BY <1>0, <1>4, <2>1, <2>3, RootTaken DEF InGroup
    <3>2. Minds(ledger, ledger', {}) /\ ledger'.seen = ledger.seen
      BY <1>0, <2>3, PassesMinds
    <3>3. \A c \in Id : Terms[c].parent \in E => Terms[c].parent \in F \/ Terms[c].parent \in Pending
      BY <1>0, <2>1, <2>2, <3>1, ChildAwaitedByNone
    <3>4. AwaitsIn(ledger', F)
      BY <1>0, <2>2, <3>2, <3>3, MindsAwaits
    <3>5. RootsComing'
      BY <1>0, <2>1, <3>1, <3>2 DEF RootsComing
    <3> QED BY <1>1, <3>4, <3>5 DEF Awaiting, F
  <2>4. CASE Admissible(id) /\ Admits(ledger, ledger', id, booked)
    <3>1. AwaitsIn(ledger', F)
      BY <2>1, <2>2, <2>4, ArrivedAwaits
    <3>2. RootsComing'
      BY <1>0, <2>1, <2>4, AdmitsSeen DEF RootsComing
    <3> QED BY <1>1, <3>1, <3>2 DEF Awaiting, F
  <2> QED BY <1>4, <2>3, <2>4 DEF InGroup
<1>5. ASSUME NEW f \in ValidFrames, Opens(f) PROVE Awaiting'
  <2>1. /\ Passes(ledger, ledger') /\ Coming' = FrameIds(f) /\ group'.frame = FrameIds(f)
        /\ group = Idle
    BY <1>5 DEF Opens, Coming, Unlocked
  <2>2. E = {}
    BY <2>1, IdleNothing
  <2>3. AwaitsIn(ledger', Pending' \cup Coming')
    BY <1>0, <2>1, <2>2, PassesMinds, MindsAwaits
  <2> QED BY <1>1, <2>1, <2>3 DEF Awaiting, RootsComing
<1>6. ASSUME NEW id \in Id, NEW q \in Nat, ClosesOne(id, q) PROVE Awaiting'
  <2>1. /\ Coming = {} /\ Coming' = {} /\ group'.frame = group.frame
        /\ Pending \subseteq Pending' \cup {id} /\ ledger' = Linkage(ledger, id, q)
    BY <1>6, NothingComing DEF ClosesOne, Member, Coming, FrameIds
  <2>2. Minds(ledger, ledger', {}) /\ Freed(ledger', id)
    BY <1>0, <2>1, LinkageMinds
  <2>3. AwaitsIn(ledger', Pending' \cup Coming')
    BY <1>0, <2>1, <2>2, MindsAwaits DEF Freed
  <2>4. ledger'.seen = ledger.seen
    BY <1>6, ClosesOneLinks DEF Links
  <2> QED BY <1>0, <1>1, <2>1, <2>3, <2>4 DEF Awaiting, RootsComing
<1>7. CASE Ends
  <2>1. /\ Coming = {} /\ Pending = {} /\ group' = Idle /\ ledger' = ledger
        /\ group'.frame = {}
    BY <1>7, NothingComing DEF Ends, Idle
  <2> QED BY <1>0, <1>1, <2>1 DEF Awaiting, RootsComing, AwaitsIn
<1> QED BY <1>0, <1>2, <1>3, <1>4, <1>5, <1>6, <1>7, NextListStep DEF ListStep

LEMMA AwaitingAlways ==
  ASSUME RootsAccepted
  PROVE  Spec => [](BInv /\ Awaiting)
<1>1. BInv /\ Awaiting /\ BInv' /\ [Next]_vars => Awaiting'
  BY NextAwaiting
<1> QED BY <1>1, BInvAlways, InitAwaiting, PTL DEF Spec

\* While the lock is free every held child waits for an order that is on the
\* book and has not executed, whatever fills, cancels, expires, triggers or is
\* amended: as long as no frame's root is refused once its group is under way.
THEOREM HeldAlwaysAwaitsLiveParent ==
  ASSUME RootsAccepted
  PROVE  Spec => []HeldAwaitsLiveParent
<1>1. Awaiting => HeldAwaitsLiveParent
  <2> SUFFICES ASSUME Awaiting, Unlocked, NEW id \in Id, Held(id)
               PROVE  Open(ledger, Terms[id].parent)
    BY DEF HeldAwaitsLiveParent, Open
  <2> QED BY IdleNothing DEF Awaiting, AwaitsIn, Unlocked, Held, Waiting
<1> QED BY <1>1, AwaitingAlways, PTL
----------------------------------------------------------------------------
(* Whole frames.                                                           *)

\* What keeps every member of a frame from being refused once its group is
\* under way, and from going terminal unfilled before the group closes.
MembersAccepted ==
  /\ ~EnforceFunds
  /\ \A id \in Linked :
       /\ Terms[id].class \in {"limit", "stop", "stopLimit"}
       /\ id \in Through =>
            /\ Terms[id].class = "limit"
            /\ ~Terms[id].postOnly /\ ~Terms[id].reduceOnly
  /\ OneLevel

\* A member joins the orders, which it does not touch: with a fill that is
\* booked whole, or at rest, or both.
Joins(id, booked) ==
  /\ ledger'.seen = ledger.seen \cup {id}
  /\ ledger'.executed = [ledger.executed EXCEPT ![id] = @ + booked]
  /\ \A i \in Id \ {id} : Spared(ledger, ledger', i)
  /\ OnBook(ledger', id) \/ HasFilled(ledger', id)
  /\ OnBook(ledger', id) => ledger'.book[id].leaves + booked = Terms[id].qty
  /\ id \notin Through => booked = 0

LEMMA RestJoins ==
  ASSUME IInv, NEW id \in Id, NEW r \in Restings \ {"absent"},
         ledger' = Rest(Accept(ledger, id), id, NewOrder(id, r))
  PROVE  Joins(id, 0)
<1> DEFINE n == NewOrder(id, r)
<1>1. /\ ledger'.seen = ledger.seen \cup {id} /\ ledger'.executed = ledger.executed
      /\ ledger'.closed = ledger.closed /\ ledger'.book = [ledger.book EXCEPT ![id] = n]
      /\ WellFormed(ledger)
  BY DEF Rest, Accept, IInv, WellFormed, Ledger
<1>2. n.resting = r /\ n.leaves = Terms[id].qty /\ Terms[id].qty \in Nat
  BY NewOrderType
<1> HIDE DEF n
<1>3. /\ ledger'.book[id] = n /\ \A i \in Id \ {id} : Spared(ledger, ledger', i)
      /\ ledger'.executed = [ledger.executed EXCEPT ![id] = @ + 0]
  BY <1>1 DEF Spared, WellFormed, Ledger
<1> QED BY <1>1, <1>2, <1>3 DEF Joins, OnBook

\* An arriving fill books itself and touches no other order.
LEMMA TakenAside ==
  ASSUME NEW L, WellFormed(L), NEW id \in Id, id \notin L.seen, NEW q \in Nat
  PROVE  LET A == Accept(Spend(L, PartialFill(id)), id)
             F == IF q = 0 THEN A ELSE CommitFill(A, id, q)
         IN  /\ WellFormed(F) /\ F.book = L.book /\ F.seen = L.seen \cup {id}
             /\ F.executed = [L.executed EXCEPT ![id] = @ + q]
             /\ F.closed = L.closed /\ ~OnBook(F, id)
<1> DEFINE S == Spend(L, PartialFill(id))
           A == Accept(S, id)
           C == CommitFill(A, id, q)
           F == IF q = 0 THEN A ELSE C
<1>1. WellFormed(S) /\ Passes(L, S)
  BY SpendPasses, SpendWellFormed
<1> HIDE DEF S
<1>2. /\ WellFormed(A) /\ Alike(S, A, id) /\ A.book = S.book
      /\ A.seen = S.seen \cup {id} /\ ~OnBook(A, id)
  BY <1>1, AcceptAlike DEF Passes
<1>3. A.closed = S.closed
  BY <1>1 DEF Accept, WellFormed, Ledger
<1> HIDE DEF A
<1>4. WellFormed(C) /\ C.book = A.book /\ C.seen = A.seen
  BY <1>2, CommitFillWellFormed
<1>5. C.executed = [A.executed EXCEPT ![id] = @ + q] /\ C.closed = A.closed
  BY <1>2 DEF CommitFill, WellFormed, Ledger
<1> HIDE DEF C
<1>6. q = 0 => A.executed = [L.executed EXCEPT ![id] = @ + q]
  BY <1>1, <1>2 DEF Passes, Alike, WellFormed, Ledger
<1>7. /\ WellFormed(F) /\ F.book = L.book /\ F.seen = L.seen \cup {id}
      /\ F.executed = [L.executed EXCEPT ![id] = @ + q]
      /\ F.closed = L.closed
  BY <1>1, <1>2, <1>3, <1>4, <1>5, <1>6 DEF Passes, Alike
<1> HIDE DEF F
<1>8. ~OnBook(F, id)
  BY <1>1, <1>2, <1>7 DEF Passes, OnBook
<1> QED BY <1>7, <1>8 DEF F, C, A, S

\* A fill that leaves nothing closes the order filled, and reaps no one.
LEMMA FilledJoins ==
  ASSUME NEW L, WellFormed(L), NEW id \in Id, ~OnBook(L, id), NEW o
  PROVE  CloseUnrested(L, id, o, "filled") = RecordClosed(L, id, o, "filled")
<1> DEFINE R == RecordClosed(L, id, o, "filled")
<1>1. R.book = L.book /\ R.closed[id].status = "filled"
  BY DEF RecordClosed, WellFormed, Ledger
<1> HIDE DEF R
<1>2. HasFilled(R, id)
  BY <1>1 DEF HasFilled, OnBook
<1> QED BY <1>2 DEF CloseUnrested, R

LEMMA TakingJoins ==
  ASSUME MembersAccepted, IInv, NEW id \in Linked, Terms[id].tif \notin {"ioc", "fok"},
         Member, Admissible(id), ArriveTaking(id)
  PROVE  \E booked \in Nat : Submitted(id, ledger', booked) /\ Joins(id, booked)
<1>0. id \in Id
  BY BookAssumption
<1>1. PICK depth \in 0..MaxDepth, funded \in Funded :
       LET o       == NewOrder(id, "limit")
           S       == Spend(ledger, PartialFill(id))
           planned == Planned(ledger, id, o.qty)
           cap     == Cap(ledger, id, o.qty)
           q       == Lesser(Lesser(planned, cap), depth)
           refused == (q > 0 /\ ~funded) \/ (Terms[id].tif = "fok" /\ depth < o.qty)
           F       == IF q = 0 THEN Accept(S, id)
                      ELSE CommitFill(Accept(S, id), id, q)
           lapses  == \/ cap = 0 \/ cap < planned
                      \/ Terms[id].class = "market"
                      \/ Terms[id].tif \in {"ioc", "fok"}
           rest    == [o EXCEPT !.leaves = @ - q, !.px = IF q > 0 THEN 1 ELSE 0]
       IN  \/ refused /\ Submitted(id, S, 0)
           \/ /\ ~refused
              /\ Submitted(id,
                   SettleTaken(IF q > 0 /\ ~Member THEN Linkage(F, id, q) ELSE F,
                               id, rest, lapses),
                   q)
  BY Zenon DEF ArriveTaking
<1> DEFINE o       == NewOrder(id, "limit")
           S       == Spend(ledger, PartialFill(id))
           planned == Planned(ledger, id, o.qty)
           cap     == Cap(ledger, id, o.qty)
           q       == Lesser(Lesser(planned, cap), depth)
           refused == (q > 0 /\ ~funded) \/ (Terms[id].tif = "fok" /\ depth < o.qty)
           A       == Accept(S, id)
           F       == IF q = 0 THEN A ELSE CommitFill(A, id, q)
           lapses  == \/ cap = 0 \/ cap < planned
                      \/ Terms[id].class = "market"
                      \/ Terms[id].tif \in {"ioc", "fok"}
           rest    == [o EXCEPT !.leaves = @ - q, !.px = IF q > 0 THEN 1 ELSE 0]
           N       == SettleTaken(F, id, rest, lapses)
<1>2. /\ o \in Order /\ o.qty \in Nat /\ o.qty > 0 /\ o.leaves = o.qty
      /\ o.resting = "limit" /\ o.qty = Terms[id].qty
  BY <1>0, NewOrderFits, NewOrderType DEF Restings, Fit
<1>3. funded = TRUE /\ Terms[id].tif # "fok"
  BY Zenon DEF Funded, MembersAccepted
<1>4. id \in Through /\ Terms[id].class = "limit" /\ ~Terms[id].reduceOnly
  BY DEF ArriveTaking, MembersAccepted
<1>5. q \in Nat /\ q <= o.qty /\ ~lapses
  <2>1. depth \in Nat
    BY MarketInputs
  <2>2. planned \in Nat /\ planned <= o.qty /\ cap = o.qty
    BY <1>2, <1>4, PlannedBounded DEF Cap
  <2> HIDE DEF planned, cap, o
  <2> QED BY <1>2, <1>4, <2>1, <2>2 DEF Lesser
<1>6. Submitted(id, N, q)
  BY <1>1, <1>3
<1> HIDE DEF q
<1>7. /\ rest.leaves = o.leaves - q /\ rest.resting = "limit"
  <2> HIDE DEF o
  <2> QED BY <1>2 DEF Order
<1> HIDE DEF rest, lapses
<1>8. /\ WellFormed(F) /\ F.book = ledger.book /\ F.seen = ledger.seen \cup {id}
      /\ F.executed = [ledger.executed EXCEPT ![id] = @ + q]
      /\ F.closed = ledger.closed /\ ~OnBook(F, id)
  BY <1>0, <1>5, TakenAside DEF IInv, Admissible
<1> HIDE DEF F, o
<1>9. CASE rest.leaves = 0
  <2>1. N = RecordClosed(F, id, rest, "filled")
    BY <1>0, <1>8, <1>9, FilledJoins DEF SettleTaken
  <2>2. /\ N.seen = F.seen /\ N.executed = F.executed /\ N.book = F.book
        /\ N.closed[id].status = "filled"
        /\ \A i \in Id \ {id} : N.closed[i] = F.closed[i]
    BY <1>0, <1>8, <2>1 DEF RecordClosed, WellFormed, Ledger
  <2> HIDE DEF N
  <2>3. ledger' = N /\ ~OnBook(N, id) /\ HasFilled(N, id)
    BY <1>6, <1>8, <2>2 DEF Submitted, OnBook, HasFilled
  <2>4. Joins(id, q)
    BY <1>4, <1>8, <2>2, <2>3 DEF Joins, Spared
  <2> QED BY <1>5, <1>6, <2>3, <2>4
<1>10. CASE rest.leaves # 0
  <2>1. N = Rest(F, id, rest)
    BY <1>5, <1>10 DEF SettleTaken
  <2>2. /\ N.seen = F.seen /\ N.executed = F.executed /\ N.book[id] = rest
        /\ N.closed = F.closed
        /\ \A i \in Id \ {id} : N.book[i] = F.book[i]
    BY <1>0, <1>8, <2>1 DEF Rest, WellFormed, Ledger
  <2> HIDE DEF N
  <2>3. ledger' = N /\ OnBook(N, id)
    BY <1>6, <1>7, <2>2 DEF Submitted, OnBook
  <2>4. N.book[id].leaves + q = Terms[id].qty
    BY <1>2, <1>5, <1>7, <2>2
  <2>5. Joins(id, q)
    BY <1>4, <1>8, <2>2, <2>3, <2>4 DEF Joins, Spared
  <2> QED BY <1>5, <1>6, <2>3, <2>5
<1> QED BY <1>9, <1>10

\* Every member whose turn it is is taken in and touches no other order.
LEMMA MemberJoins ==
  ASSUME MembersAccepted, IInv, NEW id \in Linked, Terms[id].tif \notin {"ioc", "fok"},
         Member, Submit(id)
  PROVE  \E booked \in Nat : Submitted(id, ledger', booked) /\ Joins(id, booked)
<1>1. id \in Id /\ Admissible(id)
  BY BookAssumption DEF Submit
<1>2. /\ Terms[id].class \in {"limit", "stop", "stopLimit"}
      /\ id \in Through => Terms[id].class = "limit" /\ ~Terms[id].postOnly
  BY DEF MembersAccepted
<1>3. CASE ArriveHeld(id)
  <2>1. Submitted(id, Rest(Accept(ledger, id), id, NewOrder(id, "held")), 0)
    BY <1>3 DEF ArriveHeld
  <2>2. ledger' = Rest(Accept(ledger, id), id, NewOrder(id, "held"))
    BY <2>1 DEF Submitted
  <2> QED BY <1>1, <2>1, <2>2, RestJoins DEF Restings
<1>4. CASE ArriveConditional(id)
  <2>1. Submitted(id, Rest(Accept(ledger, id), id, NewOrder(id, LiveResting(id))), 0)
    BY <1>2, <1>4 DEF ArriveConditional, Conditional
  <2>2. ledger' = Rest(Accept(ledger, id), id, NewOrder(id, LiveResting(id)))
    BY <2>1 DEF Submitted
  <2>3. LiveResting(id) \in Restings \ {"absent"}
    BY DEF LiveResting, Restings
  <2> QED BY <1>1, <2>1, <2>2, <2>3, RestJoins
<1>5. CASE ArriveResting(id)
  <2>1. Submitted(id, Rest(Accept(ledger, id), id, NewOrder(id, "limit")), 0)
    BY <1>5 DEF ArriveResting
  <2>2. ledger' = Rest(Accept(ledger, id), id, NewOrder(id, "limit"))
    BY <2>1 DEF Submitted
  <2> QED BY <1>1, <2>1, <2>2, RestJoins DEF Restings
<1>6. CASE ArriveTaking(id)
  BY <1>1, <1>6, TakingJoins
<1>7. ~ArmedReject(id) /\ ~ArriveBlind(id) /\ ~ArrivePostOnly(id)
  BY <1>2 DEF ArmedReject, ArriveBlind, ArrivePostOnly
<1> QED BY <1>3, <1>4, <1>5, <1>6, <1>7 DEF Submit

\* Every member of the group under way has come up or will.
Complete == group.frame \subseteq ledger.seen \cup Coming

\* An accepted order's parent was accepted before it or travels with it, and
\* the children of the group's members are its members.
ParentsKnown ==
  \A c \in ledger.seen :
    /\ Terms[c].parent \in {NoId} \cup ledger.seen \cup group.frame
    /\ Terms[c].parent \in group.frame => c \in group.frame

\* While members are to come, those that came up are on the book or have
\* executed, and the fills of those that have are pending.
Stays ==
  Member => \A i \in group.frame \cap ledger.seen :
    /\ OnBook(ledger, i) \/ HasFilled(ledger, i)
    /\ ledger.executed[i] > 0 => i \in Pending

\* Every linked order accepted is of the group under way or of a frame that
\* was accepted whole.
Admitted ==
  \A id \in ledger.seen \cap Linked :
    \/ id \in group.frame
    \/ \E g \in ValidFrames : id \in FrameIds(g) /\ FrameIds(g) \subseteq ledger.seen

Whole == Framed /\ Complete /\ ParentsKnown /\ Stays /\ Admitted

LEMMA SeenIds ==
  ASSUME BInv
  PROVE  ledger.seen \subseteq Id /\ WellFormed(ledger) /\ IInv
BY DEF BInv, IInv, WellFormed, Ledger

\* No member whose turn it is is refused: its parent is to come, or is on the
\* book or filled, and has room for one more child.
LEMMA MemberAdmissible ==
  ASSUME MembersAccepted, BInv, Whole, Member, NEW id \in Coming
  PROVE  Admissible(id) /\ ~Refusable(id)
<1> DEFINE p == Terms[id].parent
           C == {c \in Id : OnBook(ledger, c) /\ Terms[c].parent = p}
<1>1. /\ id \in group.frame /\ id \notin ledger.seen /\ id \in Linked /\ id \in Id
      /\ Terms[id].tif # "fok" /\ p # id /\ p \in group.frame \cup {NoId}
  BY FrameMember DEF Whole, Framed
<1>2. ~Refusable(id)
  BY <1>1 DEF MembersAccepted, Refusable
<1>3. CASE p = NoId \/ p \notin ledger.seen
  BY <1>1, <1>2, <1>3 DEF Admissible, LinkOK
<1>4. CASE p # NoId /\ p \in ledger.seen
  <2>1. p \in group.frame
    BY <1>1, <1>4
  <2>2. p \in Linked
    BY <2>1, FrameMember DEF Whole
  <2>3. Terms[p].parent = NoId
    BY <1>1, <2>2 DEF MembersAccepted, OneLevel
  <2>4. OnBook(ledger, p) \/ HasFilled(ledger, p)
    BY <1>4, <2>1 DEF Whole, Stays
  <2>5. C \subseteq group.frame \ {id, p}
    <3>1. ASSUME NEW c \in C PROVE c \in group.frame \ {id, p}
      <4>1. c \in ledger.seen
        BY SeenIds DEF WellFormed, WellFormedAt
      <4>2. c \in group.frame /\ c # id
        BY <1>1, <2>1, <4>1 DEF Whole, ParentsKnown
      <4>3. Terms[c].parent # c
        BY <4>2, FrameMember DEF Whole
      <4> QED BY <4>2, <4>3
    <3> QED BY <3>1
  <2> HIDE DEF C
  <2>6. IsFiniteSet(group.frame) /\ Cardinality(group.frame) <= MaxLinked + 1
    BY <1>1, IdleNothing, FrameDistinct DEF Whole, Framed
  <2>7. Cardinality(C) < MaxLinked
    <3> DEFINE S == group.frame
    <3>1. /\ IsFiniteSet(S) /\ Cardinality(S) \in Nat /\ id \in S /\ p \in S /\ p # id
      BY <1>1, <2>1, <2>6, FS_CardinalityType
    <3> HIDE DEF S, p
    <3>2. IsFiniteSet(S \ {id}) /\ Cardinality(S \ {id}) = Cardinality(S) - 1
      BY <3>1, FS_RemoveElement
    <3>3. /\ IsFiniteSet((S \ {id}) \ {p})
          /\ Cardinality((S \ {id}) \ {p}) = Cardinality(S \ {id}) - 1
      BY <3>1, <3>2, FS_RemoveElement
    <3>4. C \subseteq (S \ {id}) \ {p}
      BY <2>5 DEF S
    <3>5. IsFiniteSet(C) /\ Cardinality(C) <= Cardinality((S \ {id}) \ {p})
      BY <3>3, <3>4, FS_Subset
    <3>6. Cardinality(C) \in Nat /\ MaxLinked \in Nat
      BY <3>5, FS_CardinalityType, TermsAssumption
    <3> QED BY <2>6, <3>1, <3>2, <3>3, <3>5, <3>6 DEF S
  <2>8. LinkOK(ledger, id, group.frame)
    BY <1>4, <2>3, <2>4, <2>7 DEF LinkOK, C
  <2> QED BY <1>1, <1>2, <2>8 DEF Admissible
<1> QED BY <1>3, <1>4

\* The turn of a member, of which nothing is refused.
LEMMA TurnJoins ==
  ASSUME MembersAccepted, BInv, Whole, NEW id \in Id, NEW b, InGroup(id, b)
  PROVE  \E booked \in Nat :
           TurnTaken(id, booked) /\ Joins(id, booked) /\ id \notin ledger.seen
<1>1. Member /\ id \in Coming
  BY DEF InGroup, TurnTaken
<1>2. Admissible(id) /\ ~Refusable(id) /\ id \in group.frame /\ id \notin ledger.seen
  BY <1>1, MemberAdmissible DEF Whole, Framed
<1>3. id \in Linked /\ Terms[id].tif \notin {"ioc", "fok"} /\ Framed
  BY <1>2, FrameMember DEF Whole
<1>4. Submit(id) /\ Head(group.todo) = id
  BY <1>1, <1>2 DEF InGroup, Submit, Turn
<1>5. PICK booked \in Nat : Submitted(id, ledger', booked) /\ Joins(id, booked)
  BY <1>1, <1>3, <1>4, SeenIds, MemberJoins
<1>6. TurnTaken(id, booked)
  BY <1>1, <1>3, <1>4, <1>5, SeenIds, MemberTurn
<1> QED BY <1>2, <1>5, <1>6
----------------------------------------------------------------------------
LEMMA InitWhole == Init => Whole
<1> SUFFICES ASSUME Init PROVE Whole
  OBVIOUS
<1>1. group = Idle /\ ledger.seen = {}
  BY DEF Init, EmptyLedger
<1>2. group.frame = {} /\ ~Member
  BY <1>1, IdleNothing
<1> QED BY <1>1, <1>2, InitFramed DEF Whole, Complete, ParentsKnown, Stays, Admitted

\* A step that accepts no one leaves the frames whole, if it spares the group
\* under way or closes it.
LEMMA NoneAccepted ==
  ASSUME Whole, Framed', ledger'.seen = ledger.seen, group'.frame = group.frame,
         Coming' = Coming, Stays'
  PROVE  Whole'
BY DEF Whole, Complete, ParentsKnown, Admitted

\* A bare order comes in after its parent, and is of no frame.
LEMMA AloneWhole ==
  ASSUME BInv, Whole, Framed', NEW id \in Id, Alone(id)
  PROVE  Whole'
<1>1. /\ group' = group /\ group.frame = {} /\ ~Member /\ id \notin Linked
      /\ id \notin ledger.seen /\ LinkOK(ledger, id, {})
  BY IdleNothing DEF Alone, Unlocked, Admissible
<1>2. ledger'.seen = ledger.seen \/ ledger'.seen = ledger.seen \cup {id}
  BY AdmitsSeen DEF Alone, Passes
<1>3. Terms[id].parent \in {NoId} \cup ledger.seen
  BY <1>1 DEF LinkOK
<1>4. ParentsKnown'
  BY <1>1, <1>2, <1>3 DEF Whole, ParentsKnown
<1>5. Admitted'
  BY <1>1, <1>2 DEF Whole, Admitted
<1> QED BY <1>1, <1>4, <1>5 DEF Whole, Complete, Stays, Member

LEMMA JoinedWhole ==
  ASSUME BInv, Whole, Framed', NEW id \in Id, NEW booked \in Nat,
         TurnTaken(id, booked), Joins(id, booked), id \notin ledger.seen
  PROVE  Whole'
<1>1. /\ id \in Coming /\ Coming' = Coming \ {id} /\ group'.frame = group.frame
      /\ ledger'.seen = ledger.seen \cup {id} /\ id \in group.frame
      /\ Pending \subseteq Pending' /\ (booked > 0 => id \in Pending')
  BY DEF TurnTaken, Joins, Whole, Framed
<1>2. Complete' /\ Admitted'
  BY <1>1 DEF Whole, Complete, Admitted
<1>3. ParentsKnown'
  <2>1. Terms[id].parent \in group.frame \cup {NoId}
    BY <1>1, FrameMember DEF Whole
  <2> QED BY <1>1, <2>1 DEF Whole, ParentsKnown
<1>4. Stays'
  <2>1. Member
    BY <1>1, NothingComing
  <2>2. ASSUME NEW i \in group.frame \cap ledger.seen
        PROVE  /\ OnBook(ledger', i) \/ HasFilled(ledger', i)
               /\ ledger'.executed[i] > 0 => i \in Pending'
    <3>1. i \in Id \ {id}
      BY <1>1, <2>2, SeenIds
    <3>2. Spared(ledger, ledger', i) /\ ledger'.executed[i] = ledger.executed[i]
      BY <3>1, SeenIds DEF Joins, WellFormed, Ledger
    <3>3. /\ OnBook(ledger, i) \/ HasFilled(ledger, i)
          /\ ledger.executed[i] > 0 => i \in Pending
      BY <2>1, <2>2 DEF Whole, Stays
    <3> QED BY <1>1, <3>2, <3>3 DEF Spared, OnBook, HasFilled
  <2>3. ledger'.executed[id] = booked
    <3>1. ledger.executed[id] = 0
      BY DEF BInv, Truthful, TrueOf
    <3> QED BY <3>1, SeenIds DEF Joins, WellFormed, Ledger
  <2> QED BY <1>1, <2>2, <2>3 DEF Stays, Joins
<1> QED BY <1>2, <1>3, <1>4 DEF Whole

LEMMA OpensWhole ==
  ASSUME BInv, Whole, Framed', NEW f \in ValidFrames, Opens(f)
  PROVE  Whole'
<1>1. /\ group.frame = {} /\ group'.frame = FrameIds(f) /\ Coming' = FrameIds(f)
      /\ ledger'.seen = ledger.seen /\ FrameIds(f) \cap ledger.seen = {}
  BY IdleNothing DEF Opens, Coming, Unlocked, Passes
<1>2. NoId \notin FrameIds(f)
  BY FrameDistinct, BookAssumption, TermsAssumption DEF ValidFrames, ValidFrame
<1>3. ParentsKnown'
  BY <1>1, <1>2 DEF Whole, ParentsKnown
<1> QED BY <1>1, <1>3 DEF Whole, Complete, Stays, Admitted

LEMMA NextWhole ==
  ASSUME MembersAccepted, BInv, BInv', Whole, [Next]_vars
  PROVE  Whole'
<1>0. Framed /\ Framed'
  BY NextFramed DEF Whole
<1>1. CASE Apart
  <2>1. CASE Passes(ledger, ledger')
    <3>1. Stays'
      BY <1>1, <2>1, SameGroup DEF Apart, Whole, Stays, Passes, OnBook, HasFilled, Member
    <3> QED BY <1>0, <1>1, <2>1, <3>1, SameGroup, NoneAccepted DEF Apart, Passes
  <2>2. ASSUME Unlocked, NEW id \in Id, NEW q \in Nat, Turns(ledger, ledger', id, q)
        PROVE  Whole'
    <3>1. ledger'.seen = ledger.seen /\ ~Member /\ group' = group
      BY <1>1, <2>2, IdleNothing DEF Turns, Works, Unlocked, Apart
    <3>2. Stays'
      BY <3>1 DEF Stays, Member
    <3> QED BY <1>0, <3>1, <3>2, SameGroup, NoneAccepted
  <2> QED BY <1>1, <2>1, <2>2 DEF Apart
<1>2. ASSUME NEW id \in Id, NEW q \in Nat, ClosesOne(id, q) PROVE Whole'
  <2>1. ledger'.seen = ledger.seen
    BY <1>2, ClosesOneLinks DEF Links
  <2>2. Coming = {} /\ Coming' = {} /\ Stays' /\ group'.frame = group.frame
    BY <1>2, NothingComing DEF ClosesOne, Member, Coming, FrameIds, Stays
  <2> QED BY <1>0, <2>1, <2>2, NoneAccepted
<1>3. CASE Ends
  <2>1. Coming = {} /\ group' = Idle /\ ledger' = ledger /\ group'.frame = {} /\ ~Member'
    BY <1>3, NothingComing DEF Ends, Idle, Member
  <2>2. group.frame \subseteq ledger.seen
    BY <2>1 DEF Whole, Complete
  <2>3. group.frame = {} \/ \E f \in ValidFrames : group.frame = FrameIds(f)
    BY IdleNothing DEF Whole, Framed
  <2>4. Admitted'
    BY <2>1, <2>2, <2>3 DEF Whole, Admitted
  <2>5. ParentsKnown'
    BY <2>1, <2>2 DEF Whole, ParentsKnown
  <2> QED BY <1>0, <2>1, <2>4, <2>5 DEF Whole, Complete, Stays
<1> QED BY <1>0, <1>1, <1>2, <1>3, NextListStep, AloneWhole, TurnJoins, JoinedWhole,
           OpensWhole DEF ListStep

LEMMA WholeAlways ==
  ASSUME MembersAccepted
  PROVE  Spec => [](BInv /\ Whole)
<1>1. BInv /\ Whole /\ BInv' /\ [Next]_vars => Whole'
  BY NextWhole
<1> QED BY <1>1, BInvAlways, InitWhole, PTL DEF Spec

\* While the lock is free, the linked orders the venue has accepted are those
\* of the frames it accepted whole: where funds are not enforced and a member
\* reached on arrival is a plain limit, no member of a frame whose group is
\* under way is refused, whichever order they come in and whatever fills.
THEOREM FramesAdmittedWhole ==
  ASSUME MembersAccepted
  PROVE  Spec => []AtomicAdmission
<1>1. Whole => AtomicAdmission
  <2> SUFFICES ASSUME Whole, Unlocked
               PROVE  ledger.seen \cap Linked =
                      UNION {FrameIds(f) : f \in {g \in ValidFrames :
                                                  FrameIds(g) \subseteq ledger.seen}}
    BY DEF AtomicAdmission
  <2>1. group.frame = {}
    BY IdleNothing DEF Unlocked
  <2>2. \A f \in ValidFrames : FrameIds(f) \subseteq Linked
    BY DEF ValidFrames, ValidFrame
  <2> QED BY <2>1, <2>2 DEF Whole, Admitted
<1> QED BY <1>1, WholeAlways, PTL
----------------------------------------------------------------------------
(* Siblings.                                                               *)

\* Beside what keeps frames whole: no linked order comes in by itself, no Ouo
\* order is reached on arrival, and no amend changes what an order asks for.
LinksAccepted ==
  /\ MembersAccepted
  /\ \A id \in Id : Terms[id].links # {} => id \in Linked
  /\ \A id \in Id : Terms[id].rule = "ouo" => id \notin Through
  /\ AmendTo = {}

\* The siblings an Oco order names are off the book once it has executed,
\* unless the closing pass has still to link it.
OcoIn(L, E) ==
  \A a \in Id : Terms[a].rule = "oco" /\ L.executed[a] > 0 =>
    a \in E \/ \A s \in Terms[a].links : ~OnBook(L, s)

Mutual(a, b) ==
  /\ Terms[a].rule = "ouo" /\ Terms[b].rule = "ouo"
  /\ a \in Terms[b].links /\ b \in Terms[a].links
  /\ Terms[a].qty = Terms[b].qty

\* Of two exits that shrink each other, neither executes before the other is
\* accepted, and what one has left is within what both have not executed.
OuoAt(L, a, b) ==
  /\ a \notin L.seen => L.executed[b] = 0
  /\ OnBook(L, a) => L.book[a].leaves + L.executed[a] + L.executed[b] <= Terms[a].qty
  /\ L.executed[a] + L.executed[b] <= Terms[a].qty

OuoIn(L) == \A a, b \in Id : Mutual(a, b) => OuoAt(L, a, b)

Linking == Whole /\ OcoIn(ledger, Pending) /\ OuoIn(ledger)

LEMMA LinksType ==
  ASSUME NEW a \in Id
  PROVE  Terms[a].links \subseteq Id /\ a \notin Terms[a].links /\ Terms[a].qty \in Nat
BY TermsAssumption, TermsType DEF OrderTerms

\* A linked order accepted brings its siblings with it: they are accepted, or
\* the group of all of them is under way.
LEMMA SiblingsTravel ==
  ASSUME LinksAccepted, Whole, NEW a \in ledger.seen, a \in Id, NEW s \in Terms[a].links
  PROVE  /\ s \in Linked
         /\ s \in ledger.seen \/ a \in group.frame
<1>1. a \in Linked
  BY DEF LinksAccepted
<1>2. ASSUME NEW f \in ValidFrames, a \in FrameIds(f)
      PROVE  s \in FrameIds(f) /\ FrameIds(f) \subseteq Linked
  BY <1>2 DEF ValidFrames, ValidFrame
<1>3. CASE a \in group.frame
  <2>1. PICK f \in ValidFrames : group.frame = FrameIds(f)
    BY <1>3, IdleNothing DEF Whole, Framed
  <2> QED BY <1>2, <1>3, <2>1
<1>4. CASE a \notin group.frame
  <2>1. PICK g \in ValidFrames : a \in FrameIds(g) /\ FrameIds(g) \subseteq ledger.seen
    BY <1>1, <1>4 DEF Whole, Admitted
  <2> QED BY <1>2, <2>1
<1> QED BY <1>3, <1>4

LEMMA BookCounts ==
  ASSUME NEW L, WellFormed(L), NEW i \in Id
  PROVE  L.executed[i] \in Nat /\ L.book[i].leaves \in Nat
BY BookFits DEF Fit, Order, WellFormed, Ledger

LEMMA ExecutedAt ==
  ASSUME NEW L, WellFormed(L), NEW M, NEW id \in Id, NEW q \in Nat,
         M.executed = [L.executed EXCEPT ![id] = @ + q]
  PROVE  /\ M.executed[id] = L.executed[id] + q
         /\ \A i \in Id \ {id} : M.executed[i] = L.executed[i]
BY DEF WellFormed, Ledger

\* What accepts no one, fills nothing and brings nothing back.
LEMMA WanesLinking ==
  ASSUME NEW L, NEW M, WellFormed(L), WellFormed(M), M.seen = L.seen,
         M.executed = L.executed, Wanes(L, M, {}), NEW E, OcoIn(L, E), OuoIn(L)
  PROVE  OcoIn(M, E) /\ OuoIn(M)
<1>1. OcoIn(M, E)
  BY LinksType DEF OcoIn, Wanes
<1>2. ASSUME NEW a \in Id, NEW b \in Id, Mutual(a, b) PROVE OuoAt(M, a, b)
  <2>1. OuoAt(L, a, b)
    BY <1>2 DEF OuoIn
  <2>2. OnBook(M, a) => OnBook(L, a) /\ M.book[a].leaves <= L.book[a].leaves
    BY DEF Wanes
  <2> QED BY <2>1, <2>2, BookCounts, LinksType DEF OuoAt
<1> QED BY <1>1, <1>2 DEF OuoIn

\* A fill on the book, to which the siblings of the order give way.
LEMMA TradesLinking ==
  ASSUME NEW L, NEW M, WellFormed(L), WellFormed(M), NEW id \in Id, NEW q \in Nat,
         Works(L, M, id, q), Trades(L, M, id, q), OcoIn(L, {}), OuoIn(L),
         \A a \in Id : Mutual(a, id) => a \in L.seen
  PROVE  OcoIn(M, {}) /\ OuoIn(M)
<1>1. /\ M.seen = L.seen /\ OnBook(L, id) /\ Wanes(L, M, {id})
      /\ q <= L.book[id].leaves
      /\ OnBook(M, id) => M.book[id].leaves + q <= L.book[id].leaves
      /\ q > 0 => Yields(L, M, id, q)
  BY DEF Works, Trades
<1>2. /\ M.executed[id] = L.executed[id] + q
      /\ \A i \in Id \ {id} : M.executed[i] = L.executed[i]
  <2>1. M.executed = [L.executed EXCEPT ![id] = @ + q]
    BY DEF Works, Deals
  <2> QED BY <2>1 DEF WellFormed, Ledger
<1>3. ASSUME NEW a \in Id, Terms[a].rule = "oco", M.executed[a] > 0
      PROVE  \A s \in Terms[a].links : ~OnBook(M, s)
  <2>1. CASE a = id /\ q > 0
    BY <1>1, <1>3, <2>1 DEF Yields
  <2>2. CASE a # id \/ ~(q > 0)
    <3>1. L.executed[a] > 0
      BY <1>2, <1>3, <2>2, BookCounts
    <3>2. \A s \in Terms[a].links : ~OnBook(L, s)
      BY <1>3, <3>1 DEF OcoIn
    <3> QED BY <1>1, <3>2, LinksType DEF Wanes
  <2> QED BY <2>1, <2>2
<1>4. ASSUME NEW a \in Id, NEW b \in Id, Mutual(a, b) PROVE OuoAt(M, a, b)
  <2>1. OuoAt(L, a, b) /\ OuoAt(L, b, a) /\ a # b /\ Terms[a].qty = Terms[b].qty
    BY <1>4, LinksType DEF OuoIn, Mutual
  <2>2. /\ L.executed[a] \in Nat /\ L.executed[b] \in Nat /\ L.book[a].leaves \in Nat
        /\ L.book[b].leaves \in Nat /\ M.book[a].leaves \in Nat /\ Terms[a].qty \in Nat
    BY BookCounts, LinksType
  <2>3. CASE a = id
    <3>1. M.executed[a] = L.executed[a] + q /\ M.executed[b] = L.executed[b]
      BY <1>2, <2>1, <2>3
    <3> QED BY <1>1, <2>1, <2>2, <2>3, <3>1 DEF OuoAt
  <2>4. CASE b = id
    <3>1. M.executed[a] = L.executed[a] /\ M.executed[b] = L.executed[b] + q
      BY <1>2, <2>1, <2>4
    <3>2. a \in M.seen
      BY <1>1, <1>4, <2>4
    <3>3. OnBook(M, a) => OnBook(L, a) /\ M.book[a].leaves <= L.book[a].leaves
      BY <1>1, <2>1, <2>4 DEF Wanes
    <3>4. q > 0 /\ OnBook(M, a) => M.book[a].leaves + q <= L.book[a].leaves
      BY <1>1, <1>4, <2>4 DEF Yields, Mutual
    <3>5. OnBook(M, a) => M.book[a].leaves + q <= L.book[a].leaves
      BY <2>2, <3>3, <3>4
    <3>6. L.executed[a] + L.executed[b] + q <= Terms[a].qty
      BY <1>1, <2>1, <2>2, <2>4 DEF OuoAt
    <3> QED BY <2>1, <2>2, <3>1, <3>2, <3>3, <3>5, <3>6 DEF OuoAt
  <2>5. CASE a # id /\ b # id
    <3>1. M.executed[a] = L.executed[a] /\ M.executed[b] = L.executed[b]
      BY <1>2, <2>5
    <3>2. OnBook(M, a) => OnBook(L, a) /\ M.book[a].leaves <= L.book[a].leaves
      BY <1>1, <2>5 DEF Wanes
    <3> QED BY <1>1, <2>1, <2>2, <3>1, <3>2 DEF OuoAt
  <2> QED BY <2>3, <2>4, <2>5
<1> QED BY <1>3, <1>4 DEF OcoIn, OuoIn

\* An order accepted in the step: it has executed what was booked, and no
\* order on the book was given more.
LEMMA AcceptsLinking ==
  ASSUME NEW L, NEW M, WellFormed(L), WellFormed(M), NEW id \in Id, NEW q \in Nat,
         M.executed = [L.executed EXCEPT ![id] = @ + q], Wanes(L, M, {id}),
         L.executed[id] = 0, id \notin L.seen, M.seen = L.seen \cup {id},
         OnBook(M, id) => M.book[id].leaves + q <= Terms[id].qty,
         q > 0 => Terms[id].rule # "ouo",
         NEW E, NEW F, E \subseteq F,
         Terms[id].rule = "oco" /\ q > 0 => id \in F,
         \A a \in L.seen \cap Id :
           id \in Terms[a].links /\ L.executed[a] > 0 => a \in F,
         OcoIn(L, E), OuoIn(L), \A a \in Id : L.executed[a] > 0 => a \in L.seen
  PROVE  OcoIn(M, F) /\ OuoIn(M)
<1>1. /\ M.executed[id] = q /\ \A i \in Id \ {id} : M.executed[i] = L.executed[i]
  <2>1. L.executed[id] + q = q
    OBVIOUS
  <2> QED BY <2>1, ExecutedAt
<1>2. ASSUME NEW a \in Id, Terms[a].rule = "oco", M.executed[a] > 0, a \notin F
      PROVE  \A s \in Terms[a].links : ~OnBook(M, s)
  <2>1. CASE a = id
    BY <1>1, <1>2, <2>1
  <2>2. CASE a # id
    <3>1. L.executed[a] > 0 /\ a \in L.seen /\ id \notin Terms[a].links
      BY <1>1, <1>2, <2>2
    <3>2. \A s \in Terms[a].links : ~OnBook(L, s)
      BY <1>2, <3>1 DEF OcoIn
    <3> QED BY <3>1, <3>2, LinksType DEF Wanes
  <2> QED BY <2>1, <2>2
<1>3. ASSUME NEW a \in Id, NEW b \in Id, Mutual(a, b) PROVE OuoAt(M, a, b)
  <2>1. OuoAt(L, a, b) /\ OuoAt(L, b, a) /\ a # b /\ Terms[a].qty = Terms[b].qty
    BY <1>3, LinksType DEF OuoIn, Mutual
  <2>2. /\ L.executed[a] \in Nat /\ L.executed[b] \in Nat /\ L.book[a].leaves \in Nat
        /\ M.book[a].leaves \in Nat /\ Terms[a].qty \in Nat
    BY BookCounts, LinksType
  <2>3. Terms[a].rule = "ouo" /\ Terms[b].rule = "ouo"
    BY <1>3 DEF Mutual
  <2>4. M.executed[a] = L.executed[a] /\ M.executed[b] = L.executed[b]
    BY <1>1, <2>3
  <2>5. CASE a = id
    <3>1. L.executed[b] = 0 /\ L.executed[a] = 0 /\ q = 0
      BY <2>1, <2>3, <2>5 DEF OuoAt
    <3> QED BY <2>2, <2>4, <2>5, <3>1 DEF OuoAt
  <2>6. CASE a # id
    <3>1. OnBook(M, a) => OnBook(L, a) /\ M.book[a].leaves <= L.book[a].leaves
      BY <2>6 DEF Wanes
    <3> QED BY <2>1, <2>2, <2>4, <2>6, <3>1 DEF OuoAt
  <2> QED BY <2>5, <2>6
<1> QED BY <1>2, <1>3 DEF OcoIn, OuoIn

LEMMA ExecutedSeen ==
  ASSUME BInv, NEW a \in Id, ledger.executed[a] > 0
  PROVE  a \in ledger.seen
BY DEF BInv, Truthful, TrueOf

LEMMA PassesLinking ==
  ASSUME Passes(ledger, ledger'), NEW E, OcoIn(ledger, E), OuoIn(ledger)
  PROVE  OcoIn(ledger', E) /\ OuoIn(ledger')
BY DEF Passes, OcoIn, OuoIn, OuoAt, OnBook

\* A bare order names no siblings and is named by none.
LEMMA AloneLinking ==
  ASSUME LinksAccepted, BInv, BInv', Linking, NEW id \in Id, Alone(id)
  PROVE  OcoIn(ledger', Pending') /\ OuoIn(ledger')
<1>1. /\ Pending' = Pending /\ id \notin Linked /\ Terms[id].links = {} /\ Unlocked
      /\ id \notin ledger.seen /\ group' = group /\ group.frame = {}
  BY SameGroup, IdleNothing DEF Alone, LinksAccepted, Admissible, Unlocked
<1>2. CASE Passes(ledger, ledger')
  BY <1>1, <1>2, PassesLinking DEF Linking
<1>3. ASSUME NEW booked \in Nat, Admits(ledger, ledger', id, booked)
      PROVE  OcoIn(ledger', Pending') /\ OuoIn(ledger')
  <2>1. PICK q \in Nat : Arrives(ledger, ledger', id, q)
    BY <1>3 DEF Admits
  <2>2. /\ ledger'.executed = [ledger.executed EXCEPT ![id] = @ + q]
        /\ Wanes(ledger, ledger', {id}) /\ ledger'.seen = ledger.seen \cup {id}
        /\ OcoIn(ledger, Pending) /\ OuoIn(ledger) /\ Whole
    BY <1>3, <2>1 DEF Arrives, Deals, Admits, Linking
  <2>3. WellFormed(ledger) /\ WellFormed(ledger')
    BY DEF BInv, IInv
  <2>4. \A a \in ledger.seen \cap Id : id \notin Terms[a].links
    BY <1>1, <2>2, SiblingsTravel
  <2>5. ASSUME NEW a \in Id, Terms[a].rule = "oco", ledger'.executed[a] > 0, a \notin Pending'
        PROVE  \A s \in Terms[a].links : ~OnBook(ledger', s)
    <3>1. CASE a = id
      BY <1>1, <3>1
    <3>2. CASE a # id
      <4>1. ledger'.executed[a] = ledger.executed[a]
        BY <2>2, <2>3, <3>2, ExecutedAt
      <4>2. a \in ledger.seen
        BY <2>5, <4>1, ExecutedSeen
      <4>3. \A s \in Terms[a].links : ~OnBook(ledger, s) /\ s \in Id \ {id}
        BY <1>1, <2>2, <2>4, <2>5, <4>1, <4>2, LinksType DEF OcoIn
      <4> QED BY <2>2, <4>3 DEF Wanes
    <3> QED BY <3>1, <3>2
  <2>6. ASSUME NEW a \in Id, NEW b \in Id, Mutual(a, b) PROVE OuoAt(ledger', a, b)
    <3>1. a # id /\ b # id
      BY <1>1, <2>6 DEF Mutual
    <3>2. /\ ledger'.executed[a] = ledger.executed[a]
          /\ ledger'.executed[b] = ledger.executed[b]
      BY <2>2, <2>3, <3>1, ExecutedAt
    <3>3. OuoAt(ledger, a, b)
      BY <2>2, <2>6 DEF OuoIn
    <3>4. OnBook(ledger', a) =>
            OnBook(ledger, a) /\ ledger'.book[a].leaves <= ledger.book[a].leaves
      BY <2>2, <3>1 DEF Wanes
    <3>5. /\ ledger.executed[a] \in Nat /\ ledger.executed[b] \in Nat
          /\ ledger.book[a].leaves \in Nat /\ ledger'.book[a].leaves \in Nat
          /\ Terms[a].qty \in Nat
      BY <2>3, BookCounts, LinksType
    <3> QED BY <2>2, <3>1, <3>2, <3>3, <3>4, <3>5 DEF OuoAt
  <2> QED BY <2>5, <2>6 DEF OcoIn, OuoIn
<1> QED BY <1>2, <1>3 DEF Alone

\* A member comes in beside its siblings: those that have executed are to be
\* linked when the group closes.
LEMMA JoinedLinking ==
  ASSUME LinksAccepted, BInv, BInv', Linking, NEW id \in Id, NEW booked \in Nat,
         TurnTaken(id, booked), Joins(id, booked), id \notin ledger.seen
  PROVE  OcoIn(ledger', Pending') /\ OuoIn(ledger')
<1>1. /\ id \in Coming /\ Pending \subseteq Pending' /\ (booked > 0 => id \in Pending')
      /\ Whole /\ OcoIn(ledger, Pending) /\ OuoIn(ledger)
  BY DEF TurnTaken, Linking
<1>2. WellFormed(ledger) /\ WellFormed(ledger') /\ ledger.executed[id] = 0
  BY DEF BInv, IInv, Truthful, TrueOf
<1>3. ledger'.executed = [ledger.executed EXCEPT ![id] = @ + booked]
  BY DEF Joins
<1>4. Wanes(ledger, ledger', {id})
  <2>1. ASSUME NEW i \in Id \ {id}, OnBook(ledger', i)
        PROVE  OnBook(ledger, i) /\ ledger'.book[i].leaves <= ledger.book[i].leaves
    <3>1. ledger'.book[i] = ledger.book[i]
      BY DEF Joins, Spared
    <3> QED BY <1>2, <2>1, <3>1, BookCounts DEF OnBook
  <2> QED BY <2>1 DEF Wanes
<1>5. OnBook(ledger', id) => ledger'.book[id].leaves + booked <= Terms[id].qty
  BY LinksType DEF Joins
<1>6. booked > 0 => Terms[id].rule # "ouo"
  BY DEF Joins, LinksAccepted
<1>7. ASSUME NEW a \in ledger.seen \cap Id, id \in Terms[a].links, ledger.executed[a] > 0
      PROVE  a \in Pending'
  <2>1. a \in group.frame
    BY <1>1, <1>7, SiblingsTravel
  <2>2. Member
    BY <1>1, NothingComing
  <2> QED BY <1>1, <1>7, <2>1, <2>2 DEF Whole, Stays
<1>8. ledger'.seen = ledger.seen \cup {id}
  BY DEF Joins
<1>9. \A a \in Id : ledger.executed[a] > 0 => a \in ledger.seen
  BY ExecutedSeen
<1> QED BY <1>1, <1>2, <1>3, <1>4, <1>5, <1>6, <1>7, <1>8, <1>9, AcceptsLinking

\* The closing pass links a fill: the siblings it names give way.
LEMMA ClosesOneLinking ==
  ASSUME BInv, BInv', Linking, NEW id \in Id, NEW q \in Nat, ClosesOne(id, q)
  PROVE  OcoIn(ledger', Pending') /\ OuoIn(ledger')
<1>1. /\ WellFormed(ledger) /\ WellFormed(ledger') /\ ledger' = Linkage(ledger, id, q)
      /\ OcoIn(ledger, Pending) /\ OuoIn(ledger) /\ Pending \subseteq Pending' \cup {id}
  BY DEF BInv, IInv, ClosesOne, Linking
<1>2. ledger'.seen = ledger.seen /\ ledger'.executed = ledger.executed
  BY ClosesOneLinks DEF Links
<1>3. Wanes(ledger, ledger', {}) /\ Yields(ledger, ledger', id, q)
  BY <1>1, LinkageMinds
<1>4. OcoIn(ledger', Pending) /\ OuoIn(ledger')
  BY <1>1, <1>2, <1>3, WanesLinking
<1>5. OcoIn(ledger', Pending')
  BY <1>1, <1>3, <1>4 DEF OcoIn, Yields
<1> QED BY <1>4, <1>5

LEMMA NextLinking ==
  ASSUME LinksAccepted, BInv, BInv', Linking, [Next]_vars
  PROVE  Linking'
<1>1. Whole /\ Whole' /\ WellFormed(ledger) /\ WellFormed(ledger')
      /\ OcoIn(ledger, Pending) /\ OuoIn(ledger)
  BY NextWhole DEF Linking, LinksAccepted, BInv, IInv
<1>2. CASE Apart
  <2>1. Pending' = Pending
    BY <1>2, SameGroup DEF Apart
  <2>2. CASE Passes(ledger, ledger')
    BY <1>1, <2>1, <2>2, PassesLinking DEF Linking
  <2>3. ASSUME Unlocked, NEW id \in Id, NEW q \in Nat, Turns(ledger, ledger', id, q)
        PROVE  Linking'
    <3>1. Pending = {} /\ group.frame = {}
      BY <2>3, IdleNothing DEF Unlocked
    <3>2. Works(ledger, ledger', id, q) /\ Trades(ledger, ledger', id, q)
      BY <2>3 DEF Turns, LinksAccepted
    <3>3. id \in ledger.seen
      BY <1>1, <3>2 DEF Works, WellFormed, WellFormedAt
    <3>4. \A a \in Id : Mutual(a, id) => a \in ledger.seen
      BY <1>1, <3>1, <3>3, SiblingsTravel DEF Mutual
    <3>5. OcoIn(ledger', {}) /\ OuoIn(ledger')
      BY <1>1, <3>1, <3>2, <3>4, TradesLinking
    <3> QED BY <1>1, <2>1, <3>1, <3>5 DEF Linking
  <2> QED BY <1>2, <2>2, <2>3 DEF Apart
<1>3. ASSUME NEW id \in Id, NEW booked \in Nat, InGroup(id, booked) PROVE Linking'
  <2>1. PICK b \in Nat : TurnTaken(id, b) /\ Joins(id, b) /\ id \notin ledger.seen
    BY <1>1, <1>3, TurnJoins DEF LinksAccepted
  <2> QED BY <1>1, <2>1, JoinedLinking DEF Linking
<1>4. ASSUME NEW f \in ValidFrames, Opens(f) PROVE Linking'
  <2>1. Pending = {} /\ Pending' = {} /\ Passes(ledger, ledger')
    BY <1>4, IdleNothing DEF Opens, Unlocked
  <2> QED BY <1>1, <2>1, PassesLinking DEF Linking
<1>5. CASE Ends
  <2>1. Pending = {} /\ Pending' = {} /\ ledger' = ledger
    <3>1. group'.filled = <<>>
      BY <1>5 DEF Ends, Idle
    <3>2. FillIds(group'.filled) = {}
      BY <3>1 DEF FillIds
    <3> QED BY <1>5, <3>2 DEF Ends, Pending
  <2> QED BY <1>1, <2>1 DEF Linking
<1> QED BY <1>1, <1>2, <1>3, <1>4, <1>5, NextListStep, AloneLinking, ClosesOneLinking
        DEF ListStep, Linking, Whole

LEMMA InitLinking ==
  ASSUME Init
  PROVE  Linking
<1>1. /\ \A a \in Id : ledger.executed[a] = 0 /\ ledger.book[a] = Absent
      /\ ledger.seen = {}
  BY DEF Init, EmptyLedger
<1>2. OcoIn(ledger, Pending)
  BY <1>1 DEF OcoIn
<1>3. OuoIn(ledger)
  BY <1>1, LinksType DEF OuoIn, OuoAt, OnBook, Absent
<1> QED BY <1>2, <1>3, InitWhole DEF Linking

\* Once an Oco order has executed none of the siblings it names still rests,
\* and two exits that shrink each other never execute more than one exit's
\* size, in whatever order the walks, the cancels and the groups come.
THEOREM LinksHold ==
  ASSUME LinksAccepted
  PROVE  Spec => []LinkageHolds
<1>1. Linking => LinkageHolds
  <2> SUFFICES ASSUME Linking PROVE LinkageHolds
    OBVIOUS
  <2>1. ASSUME Unlocked, NEW id \in Id, Terms[id].rule = "oco", ledger.executed[id] > 0
        PROVE  \A s \in Terms[id].links : ~OnBook(ledger, s)
    <3>1. Pending = {}
      BY <2>1, IdleNothing DEF Unlocked
    <3> QED BY <2>1, <3>1 DEF Linking, OcoIn
  <2>2. \A a, b \in Id : Mutual(a, b) =>
          ledger.executed[a] + ledger.executed[b] <= Terms[a].qty
    BY DEF Linking, OuoIn, OuoAt
  <2> QED BY <2>1, <2>2 DEF LinkageHolds, Mutual
<1>2. BInv /\ Linking /\ BInv' /\ [Next]_vars => Linking'
  BY NextLinking
<1> QED BY <1>1, <1>2, BInvAlways, InitLinking, PTL DEF Spec
==============================================================================
