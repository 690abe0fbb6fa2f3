----------------------------- MODULE EngineBook -----------------------------
(***************************************************************************)
(* The order book of one mogwai engine and every handler that changes it:  *)
(* submits, order-list groups, cancels, amends, expiries and the results   *)
(* of tape walks that were planned under the engine's lock, ran outside it *)
(* and are applied under it again.                                         *)
(*                                                                         *)
(* The engine is a mutex-protected value, so a handler is one step.  The   *)
(* one exception is on_submit_group, whose loop over its members is one    *)
(* step per iteration: while group is not Idle the lock is held and no     *)
(* other action is enabled.                                                *)
(***************************************************************************)
EXTENDS OrderLedger, Sequences

CONSTANTS
  Frames,       \* the SubmitOrderGroup frames a consumer may send
  Linked,       \* the ids that carry a link, which may only travel in a frame
  Through,      \* the ids whose level the market may have reached on arrival
  Arms,         \* the divergences that may be armed
  AmendTo,      \* the quantities an amend may change an order to
  Walker,       \* the tape walks that may be outstanding at once
  MaxDepth,     \* bound on what the ladder displays
  MaxRevision   \* bound: no order is amended or walked past this revision

ASSUME BookAssumption == /\ \A f \in Frames : f \in Seq(Id)
                         /\ Linked \subseteq Id
                         /\ Through \subseteq Id
                         /\ Arms \subseteq Arm
                         /\ AmendTo \subseteq Nat
                         /\ MaxDepth \in Nat
                         /\ MaxRevision \in Nat

VARIABLES
  ledger,   \* the engine's order state
  group,    \* the order group being submitted, and where its loop stands
  walks     \* what each walker was asked: a PendingScan or NoWalk

vars == <<ledger, group, walks>>

Idle == [frame |-> {}, todo |-> <<>>, filled |-> <<>>, blind |-> FALSE]
Group == [frame : SUBSET Id, todo : Seq(Id), filled : Seq([id : Id, qty : Nat]),
          blind : BOOLEAN]

NoWalk == [id |-> NoId, rev |-> 0, px |-> 0, resting |-> "absent"]
Walk == [id : Id \cup {NoId}, rev : Nat, px : Nat, resting : Restings]

TypeOK == /\ ledger \in Ledger
          /\ group \in Group
          /\ walks \in [Walker -> Walk]

Init == /\ ledger = EmptyLedger
        /\ group = Idle
        /\ walks = [w \in Walker |-> NoWalk]

Unlocked == group = Idle
Funded == IF EnforceFunds THEN BOOLEAN ELSE {TRUE}
FrameIds(f) == {f[i] : i \in DOMAIN f}
----------------------------------------------------------------------------
(* Submitting an order (on_submit_from).  The handler is the disjunction   *)
(* of its early returns, in the order the code asks its questions; it runs *)
(* for a bare order and for each member of a group.                        *)

\* Whose submit it is: a bare order's, or the next member's of the group.
Member == group.todo # <<>>
Turn(id) == IF Member THEN Head(group.todo) = id
            ELSE Unlocked /\ id \notin Linked

\* Whether there is a market reading; one is taken for a whole group.
Sighted == Member => ~group.blind

\* The questions only the live book can answer about a link.
LinkOK(L, id, frame) ==
  LET p == Terms[id].parent
  IN  \/ p = NoId
      \/ p \in frame /\ p \notin L.seen
      \/ /\ p \in L.seen
         /\ OnBook(L, p) => Terms[p].parent = NoId
         /\ OnBook(L, p) \/ HasFilled(L, p)
         /\ Cardinality({c \in Id : OnBook(L, c) /\ Terms[c].parent = p}) < MaxLinked

\* Slip: a member is asked about its link as if it came alone.
AdmissibleAlone(id) == id \notin ledger.seen /\ LinkOK(ledger, id, {})

Admissible(id) == id \notin ledger.seen /\ LinkOK(ledger, id, group.frame)

\* The end of a submit: a member that booked a fill is remembered for the
\* group's closing pass.
Submitted(id, L, booked) ==
  /\ ledger' = L
  /\ group' = IF ~Member THEN group
              ELSE [group EXCEPT
                     !.todo = Tail(@),
                     !.filled = IF booked > 0
                                  THEN Append(@, [id |-> id, qty |-> booked])
                                  ELSE @]
  /\ UNCHANGED walks

NewOrder(id, resting) ==
  [resting |-> resting, qty |-> Terms[id].qty, leaves |-> Terms[id].qty,
   rev |-> 0, px |-> 0]

ArmedReject(id) ==
  /\ ~Member /\ RejectSubmit \in ledger.armed
  /\ Submitted(id, Spend(ledger, RejectSubmit), 0)

WaitsForParent(id) ==
  Terms[id].parent # NoId /\ ~HasFilled(ledger, Terms[id].parent)

ArriveHeld(id) ==
  /\ WaitsForParent(id)
  /\ Submitted(id, Rest(Accept(ledger, id), id, NewOrder(id, "held")), 0)

\* A stop, a touched order or a trail: it rests, and a level the market has
\* reached already triggers or activates it at once.
ArriveConditional(id) ==
  /\ Conditional(id) /\ ~WaitsForParent(id)
  /\ LET R == Rest(Accept(ledger, id), id, NewOrder(id, LiveResting(id)))
     IN  \/ Submitted(id, R, 0)
         \/ /\ id \in Through /\ Sighted
            /\ \E reached \in BOOLEAN, depth \in 0..MaxDepth, funded \in Funded :
                 Submitted(id,
                   IF Terms[id].trail THEN Activate(R, id, funded)
                   ELSE Trigger(R, id, [live |-> TRUE, reached |-> reached,
                                        depth |-> depth, funded |-> funded]),
                   0)

\* A market taker with no reading to cross.
ArriveBlind(id) ==
  /\ Terms[id].class \in {"market", "marketToLimit"} /\ ~WaitsForParent(id)
  /\ Member => group.blind
  /\ Submitted(id, ledger, 0)

ArrivePostOnly(id) ==
  /\ Terms[id].postOnly /\ id \in Through /\ Sighted
  /\ ~Conditional(id) /\ ~WaitsForParent(id)
  /\ Submitted(id, ledger, 0)

\* A limit short of the touch rests, or lapses if it is now-or-never.
ArriveResting(id) ==
  /\ RestsAsLimit(id) /\ ~WaitsForParent(id)
  /\ Terms[id].class = "marketToLimit" => Sighted
  /\ LET o == NewOrder(id, "limit")
         A == Accept(ledger, id)
     IN  Submitted(id,
           CASE Terms[id].tif = "fok" -> Spend(ledger, PartialFill(id))
             [] Terms[id].tif = "ioc" -> CloseUnrested(A, id, o, "canceled")
             [] OTHER -> Rest(A, id, o),
           0)

\* A market order, or a limit through the touch, takes what the ladder shows.
SettleTaken(L, id, o, lapses) ==
  IF o.leaves = 0 THEN CloseUnrested(L, id, o, "filled")
  ELSE IF lapses THEN CloseUnrested(L, id, o, "canceled")
  ELSE Rest(L, id, o)

ArriveTaking(id) ==
  /\ ~Conditional(id) /\ ~WaitsForParent(id)
  /\ \/ Terms[id].class = "market"
     \/ id \in Through /\ ~Terms[id].postOnly
  /\ Sighted
  /\ \E depth \in 0..MaxDepth, funded \in Funded :
       LET o       == NewOrder(id, "limit")
           S       == Spend(ledger, PartialFill(id))
           planned == Planned(ledger, id, o.qty)
           cap     == Cap(ledger, id, o.qty)
           q       == Lesser(Lesser(planned, cap), depth)
           refused == (q > 0 /\ ~funded) \/ (Terms[id].tif = "fok" /\ depth < o.qty)
           F       == IF q = 0 THEN Accept(S, id)
                      ELSE CommitFill(Accept(S, id), id, q)
           lapses  == \/ cap = 0 \/ cap < planned
                      \/ Terms[id].class = "market"
                      \/ Terms[id].tif \in {"ioc", "fok"}
           rest    == [o EXCEPT !.leaves = @ - q, !.px = IF q > 0 THEN 1 ELSE 0]
       IN  \/ refused /\ Submitted(id, S, 0)
           \/ /\ ~refused
              /\ Submitted(id,
                   SettleTaken(IF q > 0 /\ ~Member THEN Linkage(F, id, q) ELSE F,
                               id, rest, lapses),
                   q)

Submit(id) ==
  /\ Turn(id) /\ Admissible(id)
  /\ \/ ArmedReject(id)
     \/ /\ Member \/ RejectSubmit \notin ledger.armed
        /\ \/ ArriveHeld(id)
           \/ ArriveConditional(id)
           \/ ArriveBlind(id)
           \/ ArrivePostOnly(id)
           \/ ArriveResting(id)
           \/ ArriveTaking(id)
----------------------------------------------------------------------------
(* Submitting a group (on_submit_group).                                   *)

\* The shape of a frame: distinct members, all linked, links and parents
\* inside the frame, no now-or-never member, and no cycle of parents: every
\* non-empty set of members has one whose parent is outside the set.
ValidFrame(f) ==
  /\ f # <<>>
  /\ Len(f) <= MaxLinked + 1
  /\ Cardinality(FrameIds(f)) = Len(f)
  /\ \A id \in FrameIds(f) :
       /\ id \in Linked
       /\ Terms[id].tif \notin {"ioc", "fok"}
       /\ Terms[id].links \subseteq FrameIds(f) \ {id}
       /\ Terms[id].parent \in FrameIds(f) \cup {NoId}
       /\ Terms[id].parent # NoId => Terms[id].class # "market"
       /\ Terms[id].rule \in {"oco", "ouo", "oto"} => Terms[id].links # {}
  /\ \A S \in SUBSET FrameIds(f) :
       S # {} => \E id \in S : Terms[id].parent \notin S

ValidFrames == {f \in Frames : ValidFrame(f)}

\* Pass one: every member is asked about the book as it is now, and the arm
\* that refuses the next submit is spent once for the whole frame.
GroupSubmit(f) ==
  /\ Unlocked /\ f \in ValidFrames
  /\ IF RejectSubmit \in ledger.armed
       THEN ledger' = Spend(ledger, RejectSubmit) /\ UNCHANGED group
       ELSE /\ \A id \in FrameIds(f) :
                 /\ id \notin ledger.seen
                 /\ LinkOK(ledger, id, FrameIds(f))
            /\ \E blind \in BOOLEAN :
                 group' = [frame |-> FrameIds(f), todo |-> f, filled |-> <<>>,
                           blind |-> blind]
            /\ UNCHANGED ledger
  /\ UNCHANGED walks

\* A member refused on pass two: its link no longer holds, or an earlier
\* member has taken the funds it needs.
MemberRefused(id) ==
  /\ Member /\ Head(group.todo) = id
  /\ \/ ~Admissible(id)
     \/ EnforceFunds /\ group.frame \cap ledger.seen # {}
  /\ Submitted(id, ledger, 0)

\* The closing pass: one filled member's linkage, the only time it is applied.
GroupClose ==
  /\ group # Idle /\ group.todo = <<>>
  /\ IF group.filled = <<>>
       THEN group' = Idle /\ UNCHANGED ledger
       ELSE /\ ledger' = Linkage(ledger, Head(group.filled).id,
                                 Head(group.filled).qty)
            /\ group' = [group EXCEPT !.filled = Tail(@)]
  /\ UNCHANGED walks
----------------------------------------------------------------------------
(* Cancels, amends, expiry and arming.                                     *)

Holds(id) == Unlocked /\ OnBook(ledger, id)

Cancel(id) ==
  /\ Holds(id)
  /\ ledger' = IF RejectCancel \in ledger.armed
                 THEN Spend(ledger, RejectCancel)
                 ELSE CloseOut(ledger, id, ledger.book[id], "canceled")
  /\ UNCHANGED <<group, walks>>

\* The venue's own cancels and the control plane's silent one: no arm is read.
VenueCancel(id) ==
  /\ Holds(id)
  /\ ledger' = CloseOut(ledger, id, ledger.book[id], "canceled")
  /\ UNCHANGED <<group, walks>>

Expire(id) ==
  /\ Holds(id) /\ Terms[id].tif \in {"day", "gtd"}
  /\ ledger' = CloseOut(ledger, id, ledger.book[id], "expired")
  /\ UNCHANGED <<group, walks>>

Filled(o) == o.qty - o.leaves

\* Slip: an amend leaves the order its whole new quantity.
AmendedAnew(o, qty, newLevel) ==
  [o EXCEPT !.qty = qty, !.leaves = qty, !.rev = @ + 1,
            !.px = IF newLevel THEN @ + 1 ELSE @]

\* Slip: an amend does not void the walks of the level it replaces.
AmendedUnseen(o, qty, newLevel) ==
  [o EXCEPT !.qty = qty, !.leaves = qty - Filled(o),
            !.px = IF newLevel THEN @ + 1 ELSE @]

Amended(o, qty, newLevel) ==
  [o EXCEPT !.qty = qty, !.leaves = qty - Filled(o), !.rev = @ + 1,
            !.px = IF newLevel THEN @ + 1 ELSE @]

\* An amend of the quantity, of the level the order waits for, or of both.
\* No level of an unactivated trail can be amended, nor the trigger of a
\* held child; a held child keeps waiting for its parent.
Modify(id, qty, newLevel) ==
  LET o == ledger.book[id]
  IN  /\ Holds(id) /\ o.rev <= MaxRevision
      /\ qty > Filled(o)
      /\ newLevel => \/ o.resting \in {"limit", "conditional"}
                     \/ o.resting = "held" /\ Terms[id].class # "stop"
      /\ ledger' = Put(ledger, id, Amended(o, qty, newLevel))
      /\ UNCHANGED <<group, walks>>

Ratcheted(o) == [o EXCEPT !.px = @ + 1, !.rev = @ + 1]

\* A trail whose trigger the market has left behind follows it, and the walk
\* of the old trigger is void.
Ratchet(id) ==
  /\ Holds(id) /\ ledger.book[id].rev <= MaxRevision
  /\ Terms[id].trail /\ ledger.book[id].resting = "conditional"
  /\ ledger' = Put(ledger, id, Ratcheted(ledger.book[id]))
  /\ UNCHANGED <<group, walks>>

ArmDivergence(arm) ==
  /\ Unlocked /\ arm \notin ledger.armed
  /\ ledger' = [ledger EXCEPT !.armed = @ \cup {arm}]
  /\ UNCHANGED <<group, walks>>
----------------------------------------------------------------------------
(* Tape walks: planned under the lock, walked outside it, applied under it *)
(* again, where the order may have changed or gone.                        *)

PlanScan(w, id) ==
  /\ Holds(id) /\ walks[w] = NoWalk /\ ledger.book[id].rev <= MaxRevision
  /\ ledger.book[id].resting \in {"limit", "conditional", "unactivated"}
  /\ walks' = [walks EXCEPT ![w] =
                [id |-> id, rev |-> ledger.book[id].rev,
                 px |-> ledger.book[id].px, resting |-> ledger.book[id].resting]]
  /\ UNCHANGED <<ledger, group>>

\* A result is accepted only for an order still at the revision it was
\* planned against.
Current(w) == /\ walks[w] # NoWalk /\ Unlocked
              /\ OnBook(ledger, walks[w].id)
              /\ ledger.book[walks[w].id].rev = walks[w].rev

Reported(w) == walks' = [walks EXCEPT ![w] = NoWalk] /\ UNCHANGED group

ScanMiss(w) ==
  /\ Current(w)
  /\ ledger' = [ledger EXCEPT !.book[walks[w].id].rev = @ + 1]
  /\ Reported(w)

ScanHit(w) ==
  LET id == walks[w].id
      resting == ledger.book[id].resting
  IN  /\ Current(w)
      /\ \/ /\ resting = "conditional"
            /\ \E live, reached \in BOOLEAN, depth \in 0..MaxDepth, funded \in Funded :
                 ledger' = Trigger(ledger, id, [live |-> live, reached |-> reached,
                                                depth |-> depth, funded |-> funded])
         \/ /\ resting = "unactivated"
            /\ \E funded \in Funded : ledger' = Activate(ledger, id, funded)
         \/ /\ resting \notin {"conditional", "unactivated"}
            /\ \E funded \in Funded :
                 ledger' = SweepFill([ledger EXCEPT !.book[id].rev = @ + 1], id, funded)
      /\ Reported(w)

ScanStale(w) ==
  /\ walks[w] # NoWalk /\ Unlocked /\ ~Current(w)
  /\ Reported(w)
  /\ UNCHANGED ledger

\* A pass that is torn down before its results are applied.
ScanDropped(w) ==
  /\ walks[w] # NoWalk /\ Unlocked
  /\ Reported(w)
  /\ UNCHANGED ledger
----------------------------------------------------------------------------
Next == \/ \E id \in Id : \/ Submit(id)
                          \/ MemberRefused(id)
                          \/ Cancel(id)
                          \/ VenueCancel(id)
                          \/ Expire(id)
                          \/ Ratchet(id)
                          \/ \E qty \in AmendTo \cup {ledger.book[id].qty},
                               newLevel \in BOOLEAN :
                               Modify(id, qty, newLevel)
        \/ \E f \in Frames : GroupSubmit(f)
        \/ GroupClose
        \/ \E arm \in Arms : ArmDivergence(arm)
        \/ \E w \in Walker : \/ \E id \in Id : PlanScan(w, id)
                             \/ ScanMiss(w)
                             \/ ScanHit(w)
                             \/ ScanStale(w)
                             \/ ScanDropped(w)

Spec == Init /\ [][Next]_vars
----------------------------------------------------------------------------
(* Safety.  A group's loop may stand between two members, so properties    *)
(* about order lists are stated of the states in which the lock is free.   *)

Held(id) == ledger.book[id].resting = "held"
Closed(id) == ledger.closed[id].status # "open"

\* The incrementally maintained hold cache is the fold over the book that
\* reconcile_order_holds asserts: no handler forgets a hold or frees it twice.
HoldsExact == \A id \in Id : ledger.holds[id] = HoldEntry(id, ledger.book[id])

\* The row QueryOrders reports for a working order agrees with the fill
\* store: quantity less leaves is what the order has executed, through
\* partial fills, amends and the shrinks of a sibling's fills.
OpenRowsTruthful ==
  \A id \in Id : OnBook(ledger, id) =>
    ledger.executed[id] = ledger.book[id].qty - ledger.book[id].leaves

\* An order recorded terminal never executes again.
NoFillAfterClose ==
  [][\A id \in Id : Closed(id) => ledger'.executed[id] = ledger.executed[id]]_vars

\* The evidence of a walk is only ever applied to the question it was asked:
\* a walk planned before an amend, a release, a trigger or a partial fill
\* fills nothing at the level the order has moved to.
AnswersItsQuestion ==
  [][\A w \in Walker :
       LET id == walks[w].id IN
       walks[w] # NoWalk /\ walks'[w] = NoWalk /\ ledger'.executed # ledger.executed
       => /\ ledger.book[id].px = walks[w].px
          /\ ledger.book[id].resting = walks[w].resting]_vars

\* A reduce-only fill brings the netted position toward zero, never through it.
ReduceOnlyReduces ==
  [][\A id \in Id :
       Terms[id].reduceOnly /\ ledger'.executed[id] # ledger.executed[id]
       => \/ 0 <= ledger'.position /\ ledger'.position < ledger.position
          \/ 0 >= ledger'.position /\ ledger'.position > ledger.position]_vars

\* A held child is waiting for something that can still happen: its parent
\* is on the book and has not executed.
HeldAwaitsLiveParent ==
  Unlocked => \A id \in Id : Held(id) =>
    OnBook(ledger, Terms[id].parent) /\ ~HasFilled(ledger, Terms[id].parent)

\* Every order lives the life OrderLifecycle promises: it is never lost between
\* the book and the truth store, never both, executes only while it works, is
\* released only by its parent's fill, and stays terminal.
Phase(id) ==
  CASE id \notin ledger.seen -> "new"
    [] Closed(id) /\ ~OnBook(ledger, id) -> "done"
    [] ~Closed(id) /\ Held(id) -> "waiting"
    [] ~Closed(id) /\ OnBook(ledger, id) /\ ~Held(id) -> "working"
    [] OTHER -> "lost"

Life == INSTANCE OrderLifecycle
          WITH Parent   <- [id \in Id |-> Terms[id].parent],
               phase    <- [id \in Id |-> Phase(id)],
               executed <- ledger.executed

Lifecycle == Life!Spec

\* Once an Oco order has executed, none of the siblings it names still rests;
\* two exits that shrink each other never execute more than one exit's size.
LinkageHolds ==
  /\ Unlocked => \A id \in Id :
       Terms[id].rule = "oco" /\ ledger.executed[id] > 0
       => \A s \in Terms[id].links : ~OnBook(ledger, s)
  /\ \A a, b \in Id :
       /\ Terms[a].rule = "ouo" /\ Terms[b].rule = "ouo"
       /\ a \in Terms[b].links /\ b \in Terms[a].links
       /\ Terms[a].qty = Terms[b].qty
       => ledger.executed[a] + ledger.executed[b] <= Terms[a].qty

\* The linked orders the venue has accepted are those of frames it accepted
\* whole.
AtomicAdmission ==
  Unlocked => ledger.seen \cap Linked =
              UNION {FrameIds(f) : f \in {g \in ValidFrames : FrameIds(g) \subseteq ledger.seen}}
============================================================================
