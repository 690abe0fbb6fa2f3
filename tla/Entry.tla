-------------------------------- MODULE Entry -------------------------------
(***************************************************************************)
(* Order entry of a policed account (mogwai-venue http.rs                  *)
(* process_order_cmd) beside the sweep that judges it (sweeper.rs          *)
(* enforce_policy), over the risk ledger of module Risk.                   *)
(*                                                                         *)
(* A submit passes the lock check, then the position cap, then the act     *)
(* delay and the market reading, and only then enters the engine: between  *)
(* any two of them another socket's command or a sweep may run. A sweep    *)
(* fills resting orders and replays the price extremes of its interval on  *)
(* the ledger in one hold of the engine's lock.                            *)
(*                                                                         *)
(* One instrument under netting, priced in the policy's currency, with the *)
(* funds for every order; orders outside any list.                         *)
(***************************************************************************)
EXTENDS Risk, Functions, FiniteSets

CONSTANTS
  Leg,        \* the account's sockets, each dispatching one command at a time
  Order,      \* client order ids
  Submit,     \* what a submit may ask: [side : {1, -1}, qty : Nat, reduceOnly : BOOLEAN]
  Resizes,    \* the quantities a modify may ask for
  Boat,       \* the boats the account rides
  Trading,    \* the one whose river this instrument is
  Paths,      \* the prices a pass's interval may have printed, oldest first
  FirstMark,  \* the price before the first pass
  LastDay     \* bounds the reset periods

ASSUME EntryAssumption ==
  /\ Submit \subseteq [side : {1, -1}, qty : Nat \ {0}, reduceOnly : BOOLEAN]
  /\ Resizes \subseteq Nat \ {0}
  /\ Trading \in Boat
  /\ Paths \subseteq Seq(Nat) /\ <<>> \in Paths
  /\ FirstMark \in Nat /\ LastDay \in Nat

VARIABLES
  policy,   \* the policy the account was opened under
  ledger,   \* its risk ledger
  book,     \* the engine: position, cash, mark and the working orders
  unsent,   \* ids no submit has used
  command,  \* per socket, the submit its dispatcher is processing
  day,      \* the reset period each boat's clock is in
  pass,     \* the last pass: whether it crossed a reset, and who found a breach
  stale,    \* the sockets whose cap check is of a book that has since taken in
            \* another socket's order or been emptied by a breach
  unseen    \* whether the book holds, or has traded since the last breach
            \* emptied it, size that no cap check counted

entryVars == <<policy, ledger, book, unsent, command, day, pass, stale, unseen>>

Idle == [stage |-> "idle"]
Stages == {"checking", "entering"}
OrderAsked == [side : {1, -1}, qty : Nat \ {0}, reduceOnly : BOOLEAN]
IsBook(b) == /\ b \in [pos : Int, cash : Int, mark : Nat, working : {b.working}]
             /\ b.working \in [DOMAIN b.working -> OrderAsked]
             /\ DOMAIN b.working \subseteq Order

EntryTypeOK ==
  /\ policy \in Policies
  /\ ledger \in Ledger
  /\ IsBook(book)
  /\ unsent \subseteq Order \ DOMAIN book.working
  /\ command \in [Leg -> {Idle} \cup [stage : Stages, id : Order, asked : Submit]]
  /\ day \in [Boat -> 0..LastDay]
  /\ pass \in [crossed : BOOLEAN, judged : BOOLEAN, walked : BOOLEAN]
  /\ stale \subseteq Leg
  /\ unseen \in BOOLEAN
----------------------------------------------------------------------------
(* The engine's book.                                                      *)

Equity(b, px) == b.cash + b.pos * px
Without(b, id) == [b EXCEPT !.working = Restrict(@, DOMAIN @ \ {id})]

\* An order joins the working ones.
Rested(b, id, o) ==
  [b EXCEPT !.working = [i \in DOMAIN b.working \cup {id} |->
                           IF i \in DOMAIN b.working THEN b.working[i] ELSE o]]

Smaller(a, b) == IF a < b THEN a ELSE b
Size(qty) == IF qty < 0 THEN -qty ELSE qty

\* A reduce-only order fills for no more than the position it stands against.
FillQty(pos, o) == IF ~o.reduceOnly THEN o.qty
                   ELSE IF o.side * pos >= 0 THEN 0
                   ELSE Smaller(o.qty, Size(pos))

\* o executes whole, or is cancelled for having nothing left to reduce.
Filled(b, o, px) ==
  LET qty == FillQty(b.pos, o)
  IN [b EXCEPT !.pos = @ + o.side * qty, !.cash = @ - o.side * qty * px]

\* liquidate_all: every working order is cancelled and the position closed at
\* the mark.
Liquidated(b) == [b EXCEPT !.pos = 0, !.cash = Equity(b, b.mark), !.working = <<>>]

\* What can still execute on a side if every order there fills, reduce-only
\* orders left out: the lots of those orders.
Adding(b, side) ==
  {id \in DOMAIN b.working : b.working[id].side = side /\ ~b.working[id].reduceOnly}
Lots(b, side) == UNION {{id} \X (1..b.working[id].qty) : id \in Adding(b, side)}
Leaves(b, side) == Cardinality(Lots(b, side))

\* projected_qty: the largest size the book reaches when one side fills first.
Projected(b, o) ==
  LET Side(s) == Leaves(b, s) + (IF o.side = s THEN o.qty ELSE 0)
  IN Larger(Size(b.pos + Side(1)), Size(b.pos - Side(-1)))
----------------------------------------------------------------------------
EntryInit ==
  /\ policy \in Policies
  /\ ledger = NewLedger(0, 0)
  /\ book = [pos |-> 0, cash |-> 0, mark |-> FirstMark, working |-> <<>>]
  /\ unsent = Order
  /\ command = [leg \in Leg |-> Idle]
  /\ day = [b \in Boat |-> 0]
  /\ pass = [crossed |-> FALSE, judged |-> FALSE, walked |-> FALSE]
  /\ stale = {} /\ unseen = FALSE

At(leg, stage) == command[leg].stage = stage
Command(leg, c) == command' = [command EXCEPT ![leg] = c]
Staged(leg, stage) == Command(leg, [command[leg] EXCEPT !.stage = stage])
Sweeping == <<policy, ledger, day, pass>>

Entering == {leg \in Leg : At(leg, "entering")}

\* A submit arrives: a locked account's is refused, another's goes on to have
\* its instrument ensured.
CheckLock(leg, id, asked) ==
  /\ At(leg, "idle") /\ id \in unsent
  /\ unsent' = unsent \ {id}
  /\ IF IsLocked(ledger) THEN UNCHANGED command
     ELSE Command(leg, [stage |-> "checking", id |-> id, asked |-> asked])
  /\ UNCHANGED <<Sweeping, book, stale, unseen>>

\* A cap that nets the order against the position, the working book left out.
OverCapAlone(o) ==
  policy.cap > 0 /\ ~o.reduceOnly /\ Size(book.pos + o.side * o.qty) > policy.cap

OverCap(o) == policy.cap > 0 /\ ~o.reduceOnly /\ Projected(book, o) > policy.cap

\* The position cap, asked of the engine before the act delay.
CheckCap(leg) ==
  /\ At(leg, "checking")
  /\ IF OverCap(command[leg].asked) THEN Command(leg, Idle) ELSE Staged(leg, "entering")
  /\ UNCHANGED <<Sweeping, book, unsent, stale, unseen>>

\* The venue acts: the order takes the market at the mark, or rests. The cap
\* checks of the other sockets' orders have not counted it.
Act(leg) ==
  LET id == command[leg].id
      o == command[leg].asked
  IN /\ At(leg, "entering")
     /\ \/ book' = Filled(book, o, book.mark)
        \/ book' = Rested(book, id, o)
     /\ Command(leg, Idle)
     /\ stale' = Entering \ {leg}
     /\ unseen' = (unseen \/ o.reduceOnly \/ leg \in stale)
     /\ UNCHANGED <<Sweeping, unsent>>

\* Refused past the cap: a closed session, no price, no room for the answer, or
\* the engine's own checks.
Refuse(leg) ==
  /\ At(leg, "entering")
  /\ Command(leg, Idle)
  /\ stale' = stale \ {leg}
  /\ UNCHANGED <<Sweeping, book, unsent, unseen>>

\* Cancels and modifies are served without the lock check and the cap check.
Cancel(leg, id) ==
  /\ At(leg, "idle") /\ id \in DOMAIN book.working
  /\ book' = Without(book, id)
  /\ UNCHANGED <<Sweeping, unsent, command, stale, unseen>>

Modify(leg, id, qty) ==
  /\ At(leg, "idle") /\ id \in DOMAIN book.working
  /\ book' = [book EXCEPT !.working[id].qty = qty]
  /\ unseen' = (unseen \/ qty > book.working[id].qty)
  /\ UNCHANGED <<Sweeping, unsent, command, stale>>
----------------------------------------------------------------------------
(* A pass of one boat.                                                     *)

\* Equity at these places of the interval, each read in the period it falls in.
Readings(b, path, days, places) ==
  [n \in DOMAIN places |-> [equity |-> Equity(b, path[places[n]]), day |-> days[places[n]]]]

\* Only the close, the interval's last price.
ClosingPrice(path) == IF path = <<>> THEN <<>> ELSE <<Len(path)>>

\* The first places of the interval's high and low.
Highest(path) == CHOOSE i \in DOMAIN path : \A j \in DOMAIN path :
                    path[j] < path[i] \/ (path[j] = path[i] /\ i <= j)
Lowest(path) == CHOOSE i \in DOMAIN path : \A j \in DOMAIN path :
                    path[j] > path[i] \/ (path[j] = path[i] /\ i <= j)

\* The places of the interval's extremes, in the order the tape reached them.
Extremes(path) ==
  IF path = <<>> THEN <<>>
  ELSE IF Highest(path) = Lowest(path) THEN <<Highest(path)>>
  ELSE <<Smaller(Highest(path), Lowest(path)), Larger(Highest(path), Lowest(path))>>

\* The book after each fill of a pass: working orders leave it one after
\* another, each whole.
Fills(b, ids, px) ==
  LET so[n \in 0..Len(ids)] ==
        IF n = 0 THEN b
        ELSE Without(Filled(so[n - 1], so[n - 1].working[ids[n]], px), ids[n])
  IN so

Swept(b, ids, px) == Fills(b, ids, px)[Len(ids)]

\* enforce_policy: the extremes up to the first that breaches, then the close.
Judged(b, path, days, closing) ==
  LET extreme == Replay(policy, ledger, Readings(b, path, days, Extremes(path)))
      close == Observe(policy, extreme.ledger, Equity(b, b.mark), closing)
  IN [ledger |-> close.ledger, fired |-> extreme.fired \/ close.fired]

\* What reading the account at every print would have found.
Walked(b, path, days, closing) ==
  Replay(policy, ledger,
         Append(Readings(b, path, days, [i \in DOMAIN path |-> i]),
                [equity |-> Equity(b, b.mark), day |-> closing])).fired

\* The boat's next interval: path is what its river printed on the way, ids the
\* working orders it filled, and the reset falls before its turn-th reading.
Pass(boat, path, ids, turn) ==
  LET closing == day[boat] + (IF turn <= Len(path) + 1 THEN 1 ELSE 0)
      days == [i \in DOMAIN path |-> day[boat] + (IF turn <= i THEN 1 ELSE 0)]
      marked(b) == IF path = <<>> THEN b ELSE [b EXCEPT !.mark = Last(path)]
  IN /\ closing <= LastDay
     /\ boat # Trading => path = <<>>
     /\ path = <<>> => ids = <<>>
     /\ \E px \in (IF ids = <<>> THEN {book.mark} ELSE Range(path)) :
          LET b == marked(Swept(book, ids, px))
              verdict == IF Unpoliced(policy) THEN [ledger |-> ledger, fired |-> FALSE]
                         ELSE Judged(b, path, days, closing)
          IN /\ ledger' = verdict.ledger
             /\ book' = IF verdict.fired THEN Liquidated(b) ELSE b
             /\ pass' = [crossed |-> \E d \in Range(days) \cup {closing} : d # ledger.day,
                         judged |-> verdict.fired,
                         walked |-> Walked(b, path, days, closing)]
             /\ stale' = IF verdict.fired THEN Entering ELSE stale
             /\ unseen' = (unseen /\ ~verdict.fired)
     /\ day' = [day EXCEPT ![boat] = closing]
     /\ UNCHANGED <<policy, unsent, command>>

EntryNext ==
  \/ \E leg \in Leg, id \in Order, asked \in Submit : CheckLock(leg, id, asked)
  \/ \E leg \in Leg : CheckCap(leg) \/ Act(leg) \/ Refuse(leg)
  \/ \E leg \in Leg, id \in Order : Cancel(leg, id)
  \/ \E leg \in Leg, id \in Order, qty \in Resizes : Modify(leg, id, qty)
  \/ \E boat \in Boat, path \in Paths, n \in 0..Cardinality(DOMAIN book.working) :
       \E ids \in Injection(1..n, DOMAIN book.working), turn \in 1..(Len(path) + 2) :
          Pass(boat, path, ids, turn)

EntrySpec == EntryInit /\ [][EntryNext]_entryVars
----------------------------------------------------------------------------
(* Properties.                                                             *)

\* The position stays inside the policy's cap, whatever order the working
\* orders fill in and whatever fills, cancels, sweeps and liquidations come
\* between a submit's cap check and the engine, as long as every order in the
\* book was counted by a check of the book it joined. config.md:391-394
\* promises it of every order that may open or grow the position. Four ways in
\* are not counted, and each of them takes the position past the cap: a
\* reduce-only order (http.rs:653 skips it, and it closes the position the
\* orders of its own side were netted against), an order another one entered
\* ahead of since its check, an order checked against a position a breach has
\* since closed, and a modify, which no check sees.
CapHolds == policy.cap > 0 /\ ~unseen => Size(book.pos) <= policy.cap

\* Judging a pass at its price extremes finds a breach exactly when reading the
\* account at every print would have (sweeper.rs:1085-1092).
TickResolution == pass.judged = pass.walked

\* It does for a policy whose floors the interval does not move: no trail on
\* the intraday peak, and no reset inside the interval.
FixedFloorsWatched ==
  ~(Enforced(policy.trailing) /\ policy.basis = "peak") /\ ~pass.crossed => TickResolution

=============================================================================
